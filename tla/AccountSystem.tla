---------------------------- MODULE AccountSystem ----------------------------
(***************************************************************************)
(* Accounts from their registration on: the endpoints of AccountTokens     *)
(* together with those of AuthSystem, on the same tables and workers.      *)
(***************************************************************************)
EXTENDS AuthSystem, AccountTokens

AccountNext == SystemNext \/ \E p \in Procs : Account(p)

AccountSpec == Init /\ [][AccountNext]_vars
-----------------------------------------------------------------------------
(* An account has at most one verification and one reset token that was    *)
(* not used yet, whichever requests to issue one overlap                   *)
(* (issue_account_token).                                                  *)
OneLiveToken ==
    \A t, o \in DOMAIN tokens :
        /\ ~tokens[t].used /\ ~tokens[o].used
        /\ tokens[t].user = tokens[o].user /\ tokens[t].kind = tokens[o].kind
        => t = o

(* Requests that have read token t as usable and not committed. *)
InUse(t) ==
    \E p \in Procs :
        Serving(p, {"email_verify", "password_reset"}) /\ req[p].token = t

purposeBar ==
    [t \in DOMAIN tokens |-> [user |-> tokens[t].user, kind |-> tokens[t].kind]]

liveBar == {t \in DOMAIN tokens : ~tokens[t].used \/ InUse(t)}

doneBar ==
    {[user |-> u, kind |-> "email_verification"] :
        u \in {v \in Users : Log("auth.email_verified", v) \in audit}}
    \cup
    {[user |-> u, kind |-> "password_reset"] :
        u \in {v \in Users : Log("auth.password_reset.completed", v) \in audit}}

OneTime == INSTANCE OneTimeTokens WITH
                purpose <- purposeBar, live <- liveBar, done <- doneBar

(* One request at a time, verify_email_token and reset_password implement  *)
(* OneTimeTokens: nothing is verified or reset but by a token mailed for   *)
(* it, and a token that was used or replaced never works again.            *)
ImplementsOneTimeTokens == OneTime!TokensSpec

(* Whichever requests overlap, a token still serves its own account and    *)
(* purpose only, and is dead for good after the last request that read it  *)
(* unused (_load_active_token).  It is not single use: see TokenUsedOnce.  *)
ImplementsOverlappingUses == OneTime!OverlappingSpec

(* Single use: no request takes effect with a token that another one has   *)
(* used before, or that an issue has replaced.  (A commit that leaves the  *)
(* tables as they are takes no effect; it is the same step as a crash.)    *)
TokenUsedOnce ==
    [][\A p \in Procs :
          (CommitVerify(p) \/ CommitReset(p)) /\ ~Crash(p)
              => ~tokens[req[p].token].used]_vars

(* The session families that a password reset found at rest are over: no   *)
(* refresh token of theirs works again, whatever runs at the same time     *)
(* (reset_password).  A family whose rotation is in flight then may        *)
(* outlive the reset.                                                      *)
ResetEndsSessions == \A f \in retired : ActiveRows(f) = {}

(* The password an account is signed in with changes by its registration   *)
(* and by a reset to the password chosen there; nothing else brings        *)
(* another one in force, except that a sign-in that renews an outdated     *)
(* hash may put the password it read back into force.                      *)
PasswordHistory ==
    [][\A u \in registered :
          users'[u].hash.password # users[u].hash.password =>
              \E p \in Procs :
                  /\ \/ CommitReset(p)
                     \/ CommitLoginSuccess(p) /\ req[p].row.hash.stale
                  /\ req[p].user = u
                  /\ users'[u].hash.password = req[p].password]_vars

(* After a reset the old password is out of force for good: only another   *)
(* reset changes it (reset_password).                                      *)
PasswordOnlyByReset ==
    [][\A u \in registered :
          users'[u].hash.password # users[u].hash.password =>
              \E p \in Procs : CommitReset(p) /\ req[p].user = u]_vars
=============================================================================
