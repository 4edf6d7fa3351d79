----------------------------- MODULE TotpService -----------------------------
(***************************************************************************)
(* auth/totp.py behind the admin endpoints: a privileged account starts,   *)
(* confirms and disables TOTP.  All three work on the account row that     *)
(* get_current_principal loaded for the request.                           *)
(***************************************************************************)
EXTENDS AuthStore

StartTotp(p, op, t, secret) ==
    LET user == sessions[t.sid].user IN
    /\ Idle(p)
    /\ op \in Endpoints
    /\ Principal(t) /\ users[user].role \in Privileged
    /\ Start(p, [op |-> op, user |-> user, row |-> users[user],
                 family |-> sessions[t.sid].family, secret |-> secret])
    /\ UNCHANGED <<users, sessions, audit, held, now, accountVars>>

(* begin_totp_setup draws a new secret, whether TOTP is enabled or not. *)
BeginTotpSetup(p) ==
    \E t \in held : \E secret \in Secrets :
        /\ secret \notin {users[sessions[t.sid].user].totp, users[sessions[t.sid].user].pending}
        /\ StartTotp(p, "totp_setup", t, secret)

(* Mutant of CommitTotpSetup: the drawn secret is in force at once. *)
CommitTotpSetupInForce(p) ==
    /\ Serving(p, {"totp_setup"})
    /\ LET r == req[p] IN
        /\ users' = [users EXCEPT ![r.user] =
                        FlushUser(@, r.row, [r.row EXCEPT !.totp = r.secret])]
        /\ audit' = audit \cup {Log("auth.totp.setup_started", r.user)}
    /\ Finish(p)
    /\ UNCHANGED <<sessions, held, now, accountVars>>

CommitTotpSetup(p) ==
    /\ Serving(p, {"totp_setup"})
    /\ LET r == req[p] IN
        /\ users' = [users EXCEPT ![r.user] =
                        FlushUser(@, r.row, [r.row EXCEPT !.pending = r.secret])]
        /\ audit' = audit \cup {Log("auth.totp.setup_started", r.user)}
    /\ Finish(p)
    /\ UNCHANGED <<sessions, held, now, accountVars>>

(* confirm_totp_setup, with a right code for the pending secret it read. *)
BeginTotpConfirm(p) ==
    \E t \in held :
        /\ users[sessions[t.sid].user].pending # None
        /\ StartTotp(p, "totp_confirm", t, users[sessions[t.sid].user].pending)

(* The secret is put in force and the active rows of the caller's family   *)
(* become MFA-verified.                                                    *)
CommitTotpConfirm(p) ==
    /\ Serving(p, {"totp_confirm"})
    /\ LET r == req[p] IN
        /\ users' = [users EXCEPT ![r.user] =
                        FlushUser(@, r.row, [r.row EXCEPT !.totp = r.secret, !.pending = None])]
        /\ sessions' = [s \in DOMAIN sessions |->
              IF s \in ActiveRows(r.family) /\ sessions[s].user = r.user
              THEN [sessions[s] EXCEPT !.mfa = TRUE]
              ELSE sessions[s]]
        /\ audit' = audit \cup {Log("auth.totp.enabled", r.user)}
    /\ Finish(p)
    /\ UNCHANGED <<held, now, accountVars>>

(* disable_totp needs require_admin_mfa: TOTP enabled, and a token whose   *)
(* claim says that its session was MFA-verified when it was issued.        *)
BeginTotpDisable(p) ==
    \E t \in held :
        /\ t.mfa
        /\ users[sessions[t.sid].user].totp # None
        /\ StartTotp(p, "totp_disable", t, None)

CommitTotpDisable(p) ==
    /\ Serving(p, {"totp_disable"})
    /\ LET r == req[p] IN
        /\ users' = [users EXCEPT ![r.user] =
                        FlushUser(@, r.row, [r.row EXCEPT !.totp = None, !.pending = None])]
        /\ audit' = audit \cup {Log("auth.totp.disabled", r.user)}
    /\ Finish(p)
    /\ UNCHANGED <<sessions, held, now, accountVars>>

Totp(p) ==
    \/ BeginTotpSetup(p) \/ CommitTotpSetup(p)
    \/ BeginTotpConfirm(p) \/ CommitTotpConfirm(p)
    \/ BeginTotpDisable(p) \/ CommitTotpDisable(p)
=============================================================================
