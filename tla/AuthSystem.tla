------------------------------ MODULE AuthSystem ------------------------------
(***************************************************************************)
(* Session and TOTP endpoints on the same tables, and what the whole       *)
(* promises: the abstract specifications of a session family it            *)
(* implements, and the properties that need both components.               *)
(***************************************************************************)
EXTENDS AuthService, TotpService

SystemNext ==
    \/ \E p \in Procs : Login(p) \/ Refresh(p) \/ Logout(p) \/ Totp(p) \/ Crash(p)
    \/ Tick

SystemSpec == Init /\ [][SystemNext]_vars
-----------------------------------------------------------------------------
(* The family as its users see it: live while a refresh token works, or a  *)
(* refresh that read a working one has yet to commit.                      *)
phaseBar ==
    [f \in Families |->
        IF FamilyRows(f) = {} THEN "unused"
        ELSE IF ActiveRows(f) # {} \/ RotationInFlight(f) THEN "live"
        ELSE "ended"]

Family == INSTANCE SessionFamilies WITH phase <- phaseBar

(* Session handling implements SessionFamilies under every interleaving of *)
(* requests, late commits and dying workers: no family opens twice, and a  *)
(* family that has ended never works again.                                *)
ImplementsFamilies == Family!FamiliesSpec

currentBar ==
    [f \in Families |->
        IF FamilyRows(f) = {} THEN "unused"
        ELSE IF ActiveRows(f) = {} THEN "ended"
        ELSE CHOOSE s \in Sids : s \in ActiveRows(f)]

Chain == INSTANCE SessionChain
            WITH current <- currentBar, issued <- DOMAIN sessions,
                 Tokens <- Sids, Unused <- "unused", Ended <- "ended"

(* One request at a time, session handling implements SessionChain: what   *)
(* ADR-0003 decides about rotation, reuse and logout.                      *)
ImplementsChain == Chain!ChainSpec
-----------------------------------------------------------------------------
(* MFA never comes out of nowhere: a session counts as MFA-verified, and   *)
(* an access token claims it, only for an account that has enabled TOTP,   *)
(* and a token never claims it for a session that is not.                  *)
MfaNeedsEnrolment ==
    /\ \A s \in DOMAIN sessions :
          sessions[s].mfa => Log("auth.totp.enabled", sessions[s].user) \in audit
    /\ \A u \in Users : users[u].totp # None => Log("auth.totp.enabled", u) \in audit
    /\ \A t \in held : t.mfa => sessions[t.sid].mfa

(* A family that is MFA-verified stays so through its rotations.           *)
MfaSurvivesRotation ==
    [][\A f \in Families :
          (ActiveRows(f) # {} /\ \A s \in ActiveRows(f) : sessions[s].mfa)
              => (\A s \in ActiveRows(f) : sessions[s].mfa)']_vars
=============================================================================
