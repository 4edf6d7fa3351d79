---------------------------- MODULE AccountTokens ----------------------------
(***************************************************************************)
(* Registration (auth/service.py) and the one-time tokens of               *)
(* auth/account_tokens.py: email verification and password reset, behind   *)
(* the five endpoints register, email/resend, email/verify,                *)
(* password/forgot and password/reset.  A token works in the hands of      *)
(* whoever got the mail; an unknown address, a used or an expired token    *)
(* change nothing and are the guards of the Begin actions.                 *)
(***************************************************************************)
EXTENDS AuthService

CONSTANT TokenTtl    \* account_token_ttl_minutes, in ticks

ASSUME TokenTtlAssumption == TokenTtl \in Nat \ {0}

TokenRow ==
    [user : Users, kind : TokenKinds, expires : Nat,
     used : BOOLEAN]                  \* used_at IS NOT NULL

AccountTypeOK ==
    /\ TypeOK
    /\ registered \subseteq Users
    /\ DOMAIN tokens \subseteq Tokens
    /\ tokens \in [DOMAIN tokens -> TokenRow]
    /\ mailbox \subseteq DOMAIN tokens
    /\ verified \subseteq registered
    /\ retired \subseteq UsedFamilies
    /\ \A p \in Procs : Serving(p, {"email_verify", "password_reset"})
                            => req[p].token \in DOMAIN tokens
-----------------------------------------------------------------------------
(* register_user.                                                          *)

FreshHash(pw) == [password |-> pw, stale |-> FALSE]

(* The defaults of the users table. *)
FreshRow(pw) ==
    [status |-> "active", role |-> "user", hash |-> FreshHash(pw), fails |-> 0,
     lockedUntil |-> None, totp |-> None, pending |-> None]

Issuing(u, kind) == [op |-> "issue", user |-> u, kind |-> kind, at |-> now]

(* The account is free as far as the first SELECT sees. *)
BeginRegister(p) ==
    /\ Idle(p)
    /\ "register" \in Endpoints
    /\ \E u \in Users \ registered, pw \in Passwords :
          Start(p, [op |-> "register", user |-> u, password |-> pw])
    /\ UNCHANGED <<users, sessions, audit, held, now>>
    /\ UNCHANGED accountVars

(* Mutant of CommitRegister: a name taken meanwhile is not noticed. *)
CommitRegisterAnyway(p) ==
    /\ Serving(p, {"register"})
    /\ registered' = registered \cup {req[p].user}
    /\ users' = [users EXCEPT ![req[p].user] = FreshRow(req[p].password)]
    /\ audit' = audit \cup {Log("auth.register", req[p].user)}
    /\ Start(p, Issuing(req[p].user, "email_verification"))
    /\ UNCHANGED <<sessions, held, now>>
    /\ UNCHANGED <<tokens, mailbox, verified, retired>>

(* The unique columns decide: a name or address taken meanwhile is a 409   *)
(* after a rollback.  The account is committed before its verification     *)
(* token is issued, by the same request, in a second transaction.          *)
CommitRegister(p) ==
    /\ Serving(p, {"register"})
    /\ LET r == req[p] IN
        IF r.user \in registered
        THEN /\ Finish(p)
             /\ UNCHANGED <<registered, users, audit>>
        ELSE /\ registered' = registered \cup {r.user}
             /\ users' = [users EXCEPT ![r.user] = FreshRow(r.password)]
             /\ audit' = audit \cup {Log("auth.register", r.user)}
             /\ Start(p, Issuing(r.user, "email_verification"))
    /\ UNCHANGED <<sessions, held, now>>
    /\ UNCHANGED <<tokens, mailbox, verified, retired>>
-----------------------------------------------------------------------------
(* issue_account_token, reached from registration, from email/resend for   *)
(* an account not yet verified, and from password/forgot.                  *)

BeginResend(p) ==
    /\ Idle(p)
    /\ "email_resend" \in Endpoints
    /\ \E t \in held :
        /\ Principal(t)
        /\ sessions[t.sid].user \notin verified
        /\ Start(p, Issuing(sessions[t.sid].user, "email_verification"))
    /\ UNCHANGED <<users, sessions, audit, held, now>>
    /\ UNCHANGED accountVars

BeginForgot(p) ==
    /\ Idle(p)
    /\ "password_forgot" \in Endpoints
    /\ \E u \in registered : Start(p, Issuing(u, "password_reset"))
    /\ UNCHANGED <<users, sessions, audit, held, now>>
    /\ UNCHANGED accountVars

IssuedAction(kind) ==
    IF kind = "password_reset"
    THEN "auth.password_reset.issued" ELSE "auth.email_verification.issued"

(* Mutant of Invalidated: the older tokens stay in force. *)
InvalidatedNever(u, kind) == tokens

(* UPDATE ... SET used_at for the unused tokens of the account and kind. *)
Invalidated(u, kind) ==
    [t \in DOMAIN tokens |->
        IF tokens[t].user = u /\ tokens[t].kind = kind
        THEN [tokens[t] EXCEPT !.used = TRUE]
        ELSE tokens[t]]

(* The UPDATE holds its locks up to the commit, so two issues for one      *)
(* account and kind are in line: one step.  The mail follows the commit    *)
(* and may be lost.                                                        *)
CommitIssue(p) ==
    /\ Serving(p, {"issue"})
    /\ \E t \in Tokens \ DOMAIN tokens :
        LET r == req[p] IN
        /\ tokens' = Insert(Invalidated(r.user, r.kind), t,
                            [user |-> r.user, kind |-> r.kind,
                             expires |-> r.at + TokenTtl, used |-> FALSE])
        /\ audit' = audit \cup {Log(IssuedAction(r.kind), r.user)}
        /\ mailbox' \in {mailbox, mailbox \cup {t}}
    /\ Finish(p)
    /\ UNCHANGED <<users, sessions, held, now>>
    /\ UNCHANGED <<registered, verified, retired>>
-----------------------------------------------------------------------------
(* Using a token.                                                          *)

(* Mutant of Usable: a used token works again. *)
UsableAgain(t, kind) == tokens[t].kind = kind /\ tokens[t].expires > now

(* _load_active_token *)
Usable(t, kind) ==
    /\ tokens[t].kind = kind
    /\ ~tokens[t].used
    /\ tokens[t].expires > now

BeginVerify(p) ==
    /\ Idle(p)
    /\ "email_verify" \in Endpoints
    /\ \E t \in mailbox :
        /\ Usable(t, "email_verification")
        /\ Start(p, [op |-> "email_verify", user |-> tokens[t].user, token |-> t])
    /\ UNCHANGED <<users, sessions, audit, held, now>>
    /\ UNCHANGED accountVars

CommitVerify(p) ==
    /\ Serving(p, {"email_verify"})
    /\ LET r == req[p] IN
        /\ tokens' = [tokens EXCEPT ![r.token].used = TRUE]
        /\ verified' = verified \cup {r.user}
        /\ audit' = audit \cup {Log("auth.email_verified", r.user)}
    /\ Finish(p)
    /\ UNCHANGED <<users, sessions, held, now>>
    /\ UNCHANGED <<registered, mailbox, retired>>

BeginReset(p) ==
    /\ Idle(p)
    /\ "password_reset" \in Endpoints
    /\ \E t \in mailbox, pw \in Passwords :
        /\ Usable(t, "password_reset")
        /\ Start(p, [op |-> "password_reset", user |-> tokens[t].user,
                     row |-> users[tokens[t].user], token |-> t, password |-> pw])
    /\ UNCHANGED <<users, sessions, audit, held, now>>
    /\ UNCHANGED accountVars

(* The status of a locked account is left as it is. *)
AfterReset(r) ==
    [r.row EXCEPT !.hash = FreshHash(r.password), !.fails = 0, !.lockedUntil = None]

FamiliesOf(u) == {sessions[s].family : s \in UserRows(u)}

(* Mutant of CommitReset: the sessions of the account go on. *)
CommitResetOfPassword(p) ==
    /\ Serving(p, {"password_reset"})
    /\ LET r == req[p] IN
        /\ tokens' = [tokens EXCEPT ![r.token].used = TRUE]
        /\ users' = [users EXCEPT ![r.user] =
              [FlushUser(@, r.row, AfterReset(r)) EXCEPT !.hash = FreshHash(r.password)]]
        /\ audit' = audit \cup {Log("auth.password_reset.completed", r.user)}
        /\ retired' = retired \cup {f \in FamiliesOf(r.user) : ~RotationInFlight(f)}
    /\ Finish(p)
    /\ UNCHANGED <<sessions, held, now>>
    /\ UNCHANGED <<registered, mailbox, verified>>

(* Mutant of CommitReset: the audit entry is forgotten. *)
CommitResetUnlogged(p) ==
    /\ Serving(p, {"password_reset"})
    /\ LET r == req[p] IN
        /\ tokens' = [tokens EXCEPT ![r.token].used = TRUE]
        /\ users' = [users EXCEPT ![r.user] =
              [FlushUser(@, r.row, AfterReset(r)) EXCEPT !.hash = FreshHash(r.password)]]
        /\ sessions' = Revoke(UserRows(r.user), "password_reset")
        /\ retired' = retired \cup {f \in FamiliesOf(r.user) : ~RotationInFlight(f)}
    /\ Finish(p)
    /\ UNCHANGED <<audit, held, now>>
    /\ UNCHANGED <<registered, mailbox, verified>>

(* The new hash has a new salt, so it is written even when the password    *)
(* is the old one.  All sessions of the account are revoked in the same    *)
(* transaction.                                                            *)
CommitReset(p) ==
    /\ Serving(p, {"password_reset"})
    /\ LET r == req[p] IN
        /\ tokens' = [tokens EXCEPT ![r.token].used = TRUE]
        /\ users' = [users EXCEPT ![r.user] =
              [FlushUser(@, r.row, AfterReset(r)) EXCEPT !.hash = FreshHash(r.password)]]
        /\ sessions' = Revoke(UserRows(r.user), "password_reset")
        /\ audit' = audit \cup {Log("auth.password_reset.completed", r.user)}
        /\ retired' = retired \cup {f \in FamiliesOf(r.user) : ~RotationInFlight(f)}
    /\ Finish(p)
    /\ UNCHANGED <<held, now>>
    /\ UNCHANGED <<registered, mailbox, verified>>
-----------------------------------------------------------------------------
Account(p) ==
    \/ BeginRegister(p) \/ CommitRegister(p)
    \/ BeginResend(p) \/ BeginForgot(p) \/ CommitIssue(p)
    \/ BeginVerify(p) \/ CommitVerify(p)
    \/ BeginReset(p) \/ CommitReset(p)
=============================================================================
