----------------------------- MODULE AccountProofs -----------------------------
(***************************************************************************)
(* What TLAPS proves about AccountSystem, sessions and accounts together,  *)
(* for every set of accounts, rows, families, tokens and workers, and any  *)
(* bounds: the mailed tokens are one-time, a password reset ends the       *)
(* sessions it found, and a password only changes where it should.         *)
(***************************************************************************)
EXTENDS AccountSystem, AuthSystemProofs

-----------------------------------------------------------------------------
(* The two halves of the next-state relation.                              *)

SystemOps ==
    {"login", "admin_login", "refresh", "logout", "user_revoked", "admin_role_rejected",
     "logout_all", "web_logout", "admin_logout"} \cup TotpEndpoints

AccountOps == {"register", "issue", "email_verify", "password_reset"}

(* Session and TOTP endpoints leave the account tables alone. *)
LEMMA SystemKeepsAccounts ==
    ASSUME [SystemNext]_vars
    PROVE  UNCHANGED <<registered, tokens, mailbox, verified, retired>>
<1> DEFINE Goal == UNCHANGED <<registered, tokens, mailbox, verified, retired>>
<1>1. ASSUME NEW p \in Procs, Login(p) PROVE Goal
  BY <1>1 DEF Login, BeginLogin, CommitLoginFailure, CommitLoginSuccess, accountVars
<1>2. ASSUME NEW p \in Procs, Refresh(p) PROVE Goal
  BY <1>2 DEF Refresh, BeginRefresh, CommitReuse, CommitExpired, CommitRotation, accountVars
<1>3. ASSUME NEW p \in Procs, Logout(p) PROVE Goal
  BY <1>3 DEF Logout, BeginFamilyRevoke, CommitFamilyRevoke, BeginLogoutAll,
              CommitLogoutAll, BeginBrowserLogout, CommitBrowserLogout, accountVars
<1>4. ASSUME NEW p \in Procs, Totp(p) PROVE Goal
  BY <1>4 DEF Totp, BeginTotpSetup, BeginTotpConfirm, BeginTotpDisable, StartTotp,
              CommitTotpSetup, CommitTotpConfirm, CommitTotpDisable, accountVars
<1> QED BY <1>1, <1>2, <1>3, <1>4 DEF SystemNext, Crash, Tick, vars, accountVars

(* A step of a session or TOTP endpoint starts no request on the tokens. *)
LEMMA SystemRequests ==
    ASSUME TypeOK, [SystemNext]_vars, NEW q \in Procs
    PROVE  \/ req'[q] = req[q]
           \/ req'[q] = None
           \/ req'[q].op \in SystemOps
<1> DEFINE Goal == \/ req'[q] = req[q]
                   \/ req'[q] = None
                   \/ req'[q].op \in SystemOps
<1>1. ASSUME NEW p \in Procs, Finish(p) PROVE Goal
  BY <1>1 DEF Finish, TypeOK
<1>2. ASSUME NEW p \in Procs, NEW r, Start(p, r), r.op \in SystemOps PROVE Goal
  BY <1>2 DEF Start, TypeOK
<1>3. ASSUME UNCHANGED req PROVE Goal
  BY <1>3
<1>4. ASSUME NEW p \in Procs, Login(p) PROVE Goal
  <2>1. CASE BeginLogin(p)
    <3>1. PICK e \in {"login", "admin_login"}, u \in Users, pw \in Passwords :
            Start(p, [op |-> e, user |-> u, row |-> users[u], password |-> pw, at |-> now])
      BY <2>1 DEF BeginLogin
    <3>2. [op |-> e, user |-> u, row |-> users[u], password |-> pw, at |-> now].op
            \in SystemOps
      BY DEF SystemOps
    <3> QED BY <1>2, <3>1, <3>2
  <2>2. CASE CommitLoginSuccess(p)
    <3>1. \/ Finish(p)
          \/ \E f \in Families :
               Start(p, [op |-> "admin_role_rejected", user |-> req[p].user, family |-> f])
      BY <2>2 DEF CommitLoginSuccess
    <3>2. \A f \in Families :
            [op |-> "admin_role_rejected", user |-> req[p].user, family |-> f].op \in SystemOps
      BY DEF SystemOps
    <3> QED BY <1>1, <1>2, <3>1, <3>2
  <2> QED BY <1>1, <1>4, <2>1, <2>2 DEF Login, CommitLoginFailure
<1>5. ASSUME NEW p \in Procs, Refresh(p) PROVE Goal
  <2>1. CASE BeginRefresh(p)
    <3>1. \E t \in held : Start(p, Refreshing(t))
      BY <2>1 DEF BeginRefresh, Refreshing
    <3>2. \A t \in held : Refreshing(t).op \in SystemOps
      BY DEF Refreshing, SystemOps
    <3> QED BY <1>2, <3>1, <3>2
  <2> QED BY <1>1, <1>5, <2>1 DEF Refresh, CommitReuse, CommitExpired, CommitRotation
<1>6. ASSUME NEW p \in Procs, Logout(p) PROVE Goal
  <2>1. CASE BeginFamilyRevoke(p)
    <3>1. PICK e \in {"logout", "user_revoked"}, t \in held, f \in UsedFamilies :
            Start(p, [op |-> e, user |-> sessions[t.sid].user, family |-> f])
      BY <2>1 DEF BeginFamilyRevoke
    <3>2. [op |-> e, user |-> sessions[t.sid].user, family |-> f].op \in SystemOps
      BY DEF SystemOps
    <3> QED BY <1>2, <3>1, <3>2
  <2>2. CASE BeginLogoutAll(p)
    <3>1. PICK t \in held : Start(p, [op |-> "logout_all", user |-> sessions[t.sid].user])
      BY <2>2 DEF BeginLogoutAll
    <3>2. [op |-> "logout_all", user |-> sessions[t.sid].user].op \in SystemOps
      BY DEF SystemOps
    <3> QED BY <1>2, <3>1, <3>2
  <2>3. CASE BeginBrowserLogout(p)
    <3>1. PICK e \in {"web_logout", "admin_logout"}, t \in held :
            Start(p, [op |-> e, user |-> sessions[t.sid].user,
                      family |-> sessions[t.sid].family])
      BY <2>3 DEF BeginBrowserLogout
    <3>2. [op |-> e, user |-> sessions[t.sid].user,
           family |-> sessions[t.sid].family].op \in SystemOps
      BY DEF SystemOps
    <3> QED BY <1>2, <3>1, <3>2
  <2> QED BY <1>1, <1>6, <2>1, <2>2, <2>3
          DEF Logout, CommitFamilyRevoke, CommitLogoutAll, CommitBrowserLogout
<1>7. ASSUME NEW p \in Procs, Totp(p) PROVE Goal
  <2>1. ASSUME NEW op \in TotpEndpoints, NEW t, NEW secret, StartTotp(p, op, t, secret)
        PROVE  Goal
    <3> DEFINE user == sessions[t.sid].user
               r == [op |-> op, user |-> user, row |-> users[user],
                     family |-> sessions[t.sid].family, secret |-> secret]
    <3>1. r.op \in SystemOps
      BY DEF SystemOps
    <3>2. Start(p, r)
      BY <2>1 DEF StartTotp
    <3> QED BY <1>2, <3>1, <3>2
  <2>2. CASE BeginTotpSetup(p) \/ BeginTotpConfirm(p) \/ BeginTotpDisable(p)
    BY <2>1, <2>2 DEF BeginTotpSetup, BeginTotpConfirm, BeginTotpDisable, TotpEndpoints
  <2> QED BY <1>1, <1>7, <2>2 DEF Totp, CommitTotpSetup, CommitTotpConfirm, CommitTotpDisable
<1> HIDE DEF Goal
<1>8. Goal
  BY <1>1, <1>3, <1>4, <1>5, <1>6, <1>7 DEF SystemNext, Crash, Tick, vars
<1> QED BY <1>8 DEF Goal

(* A request on the tokens is in flight after such a step only if it was   *)
(* before.                                                                 *)
LEMMA SystemKeepsRequests ==
    ASSUME TypeOK, [SystemNext]_vars, NEW q \in Procs, req'[q] # None,
           req'[q].op \in AccountOps
    PROVE  req'[q] = req[q]
<1>1. SystemOps \cap AccountOps = {}
  BY DEF SystemOps, AccountOps, TotpEndpoints
<1> QED BY <1>1, SystemRequests
-----------------------------------------------------------------------------
(* Steps of the account endpoints.                                         *)

LEMMA TokensTyped ==
    ASSUME AccountTypeOK, NEW t \in DOMAIN tokens
    PROVE  /\ t \in Tokens /\ tokens[t] \in TokenRow
           /\ tokens[t].user \in Users /\ tokens[t].kind \in TokenKinds
           /\ tokens[t].used \in BOOLEAN
  BY DEF AccountTypeOK, TokenRow

(* A request of an account endpoint begins on unchanged tables, with a     *)
(* record of the right shape and, if it uses a token, an issued one.       *)
LEMMA BeginAccount ==
    ASSUME AccountTypeOK, NEW p \in Procs,
           BeginRegister(p) \/ BeginResend(p) \/ BeginForgot(p) \/ BeginVerify(p)
              \/ BeginReset(p)
    PROVE  /\ UNCHANGED <<users, sessions, audit, held, now>>
           /\ UNCHANGED <<registered, tokens, mailbox, verified, retired>>
           /\ req[p] = None
           /\ \E r \in Request :
                /\ Start(p, r)
                /\ r.op \in AccountOps
                /\ r.op \in {"email_verify", "password_reset"} => r.token \in DOMAIN tokens
<1> USE DEF AccountOps
<1>1. /\ UNCHANGED <<users, sessions, audit, held, now>>
      /\ UNCHANGED <<registered, tokens, mailbox, verified, retired>>
      /\ req[p] = None
  BY DEF BeginRegister, BeginResend, BeginForgot, BeginVerify, BeginReset, accountVars, Idle
<1>2. ASSUME NEW u \in Users, NEW k \in TokenKinds
      PROVE  Issuing(u, k) \in Request /\ Issuing(u, k).op = "issue"
  BY DEF Issuing, Request, IssueRequest, AccountTypeOK, TypeOK
<1>3. CASE BeginRegister(p)
  <2>1. PICK u \in Users, pw \in Passwords :
          Start(p, [op |-> "register", user |-> u, password |-> pw])
    BY <1>3 DEF BeginRegister
  <2>2. [op |-> "register", user |-> u, password |-> pw] \in Request
    BY DEF Request, RegisterRequest
  <2> QED BY <1>1, <2>1, <2>2
<1>4. CASE BeginResend(p)
  <2>1. PICK t \in held : Start(p, Issuing(sessions[t.sid].user, "email_verification"))
    BY <1>4 DEF BeginResend
  <2>2. sessions[t.sid].user \in Users /\ "email_verification" \in TokenKinds
    BY DEF AccountTypeOK, TypeOK, SessionRow, TokenKinds
  <2> QED BY <1>1, <1>2, <2>1, <2>2
<1>5. CASE BeginForgot(p)
  <2>1. PICK u \in registered : Start(p, Issuing(u, "password_reset"))
    BY <1>5 DEF BeginForgot
  <2>2. u \in Users /\ "password_reset" \in TokenKinds
    BY DEF AccountTypeOK, TokenKinds
  <2> QED BY <1>1, <1>2, <2>1, <2>2
<1>6. CASE BeginVerify(p)
  <2>1. PICK t \in mailbox :
          Start(p, [op |-> "email_verify", user |-> tokens[t].user, token |-> t])
    BY <1>6 DEF BeginVerify
  <2>2. t \in DOMAIN tokens
    BY DEF AccountTypeOK
  <2>3. [op |-> "email_verify", user |-> tokens[t].user, token |-> t] \in Request
    BY <2>2, TokensTyped DEF Request, VerifyRequest
  <2> QED BY <1>1, <2>1, <2>2, <2>3
<1>7. CASE BeginReset(p)
  <2>1. PICK t \in mailbox, pw \in Passwords :
          Start(p, [op |-> "password_reset", user |-> tokens[t].user,
                    row |-> users[tokens[t].user], token |-> t, password |-> pw])
    BY <1>7 DEF BeginReset
  <2>2. t \in DOMAIN tokens
    BY DEF AccountTypeOK
  <2>3. [op |-> "password_reset", user |-> tokens[t].user,
         row |-> users[tokens[t].user], token |-> t, password |-> pw] \in Request
    BY <2>2, TokensTyped DEF Request, ResetRequest, AccountTypeOK, TypeOK
  <2> QED BY <1>1, <2>1, <2>2, <2>3
<1> QED BY <1>3, <1>4, <1>5, <1>6, <1>7

(* What is in flight after a step of worker p, when the rows of the        *)
(* refreshes and the tokens in use stay in their tables.                   *)
LEMMA AccountRequestsType ==
    ASSUME AccountTypeOK, NEW p \in Procs,
           DOMAIN sessions \subseteq DOMAIN sessions', DOMAIN tokens \subseteq DOMAIN tokens',
           \/ Finish(p)
           \/ \E r \in Request :
                /\ Start(p, r)
                /\ r.op \in AccountOps
                /\ r.op \in {"email_verify", "password_reset"} => r.token \in DOMAIN tokens
    PROVE  /\ req' \in [Procs -> Request \cup {None}]
           /\ \A q \in Procs : req'[q] # None /\ req'[q].op = "refresh"
                                   => req'[q].sid \in DOMAIN sessions'
           /\ \A q \in Procs : Serving(q, {"email_verify", "password_reset"})'
                                   => req'[q].token \in DOMAIN tokens'
<1>0. TypeOK
  BY DEF AccountTypeOK
<1>1. CASE Finish(p)
  <2>1. \A q \in Procs : req'[q] = req[q] \/ req'[q] = None
    BY <1>0, <1>1 DEF Finish, TypeOK
  <2>2. \A q \in Procs : Serving(q, {"email_verify", "password_reset"})'
                                   => req'[q].token \in DOMAIN tokens'
    BY <2>1 DEF AccountTypeOK, Serving
  <2> QED BY <1>0, <1>1, <2>2, FinishType
<1>2. ASSUME NEW r \in Request, Start(p, r), r.op \in AccountOps,
             r.op \in {"email_verify", "password_reset"} => r.token \in DOMAIN tokens
      PROVE  /\ req' \in [Procs -> Request \cup {None}]
             /\ \A q \in Procs : req'[q] # None /\ req'[q].op = "refresh"
                                     => req'[q].sid \in DOMAIN sessions'
             /\ \A q \in Procs : Serving(q, {"email_verify", "password_reset"})'
                                     => req'[q].token \in DOMAIN tokens'
  <2>1. r.op # "refresh"
    BY <1>2 DEF AccountOps
  <2>2. \A q \in Procs : req'[q] = IF q = p THEN r ELSE req[q]
    BY <1>0, <1>2 DEF Start, TypeOK
  <2>3. \A q \in Procs : Serving(q, {"email_verify", "password_reset"})'
                                   => req'[q].token \in DOMAIN tokens'
    BY <1>2, <2>2 DEF AccountTypeOK, Serving
  <2> QED BY <1>0, <1>2, <2>1, <2>3, StartType
<1> QED BY <1>1, <1>2

LEMMA FreshRowType ==
    ASSUME NEW pw \in Passwords
    PROVE  FreshRow(pw) \in UserRow /\ FreshHash(pw) \in Hash
  BY DEF FreshRow, FreshHash, UserRow, Hash

LEMMA AfterResetType ==
    ASSUME NEW r \in ResetRequest
    PROVE  AfterReset(r) \in UserRow
<1>1. r.row \in UserRow /\ r.password \in Passwords
  BY DEF ResetRequest
<1>2. [r.row EXCEPT !.hash = FreshHash(r.password)] \in UserRow
  BY <1>1, FreshRowType DEF UserRow
<1>3. \A x \in UserRow : [x EXCEPT !.fails = 0, !.lockedUntil = None] \in UserRow
  BY DEF UserRow
<1>4. AfterReset(r) =
        [[r.row EXCEPT !.hash = FreshHash(r.password)] EXCEPT !.fails = 0, !.lockedUntil = None]
  BY DEF AfterReset
<1> QED BY <1>2, <1>3, <1>4

(* Marking a token as used keeps everything else of it. *)
LEMMA TokenUsed ==
    ASSUME AccountTypeOK, NEW t \in DOMAIN tokens,
           tokens' = [tokens EXCEPT ![t].used = TRUE]
    PROVE  /\ DOMAIN tokens' = DOMAIN tokens
           /\ tokens' \in [DOMAIN tokens' -> TokenRow]
           /\ tokens'[t].used
           /\ \A o \in DOMAIN tokens :
                /\ tokens'[o].user = tokens[o].user /\ tokens'[o].kind = tokens[o].kind
                /\ o # t => tokens'[o] = tokens[o]
                /\ tokens[o].used => tokens'[o].used
<1>1. tokens \in [DOMAIN tokens -> TokenRow]
  BY DEF AccountTypeOK
<1>2. [tokens[t] EXCEPT !.used = TRUE] \in TokenRow
  BY <1>1 DEF TokenRow
<1>3. /\ [tokens[t] EXCEPT !.used = TRUE].user = tokens[t].user
      /\ [tokens[t] EXCEPT !.used = TRUE].kind = tokens[t].kind
      /\ [tokens[t] EXCEPT !.used = TRUE].used
  BY <1>1 DEF TokenRow
<1> QED BY <1>1, <1>2, <1>3

(* The tokens that a new one of its account and kind replaces. *)
LEMMA InvalidatedTokens ==
    ASSUME AccountTypeOK, NEW u, NEW k
    PROVE  /\ Invalidated(u, k) \in [DOMAIN tokens -> TokenRow]
           /\ \A o \in DOMAIN tokens :
                /\ Invalidated(u, k)[o].user = tokens[o].user
                /\ Invalidated(u, k)[o].kind = tokens[o].kind
                /\ tokens[o].used => Invalidated(u, k)[o].used
                /\ ~Invalidated(u, k)[o].used => tokens[o].user # u \/ tokens[o].kind # k
<1>1. \A o \in DOMAIN tokens : tokens[o] \in TokenRow
  BY TokensTyped
<1>2. \A row \in TokenRow :
        LET spent == [row EXCEPT !.used = TRUE] IN
        spent \in TokenRow /\ spent.user = row.user /\ spent.kind = row.kind /\ spent.used
  BY DEF TokenRow
<1> QED BY <1>1, <1>2 DEF Invalidated

LEMMA TokenIssued ==
    ASSUME AccountTypeOK, NEW p \in Procs, CommitIssue(p)
    PROVE  \E t \in Tokens \ DOMAIN tokens :
             LET r == req[p] IN
             /\ r.user \in Users /\ r.kind \in TokenKinds
             /\ DOMAIN tokens' = DOMAIN tokens \cup {t}
             /\ tokens' \in [DOMAIN tokens' -> TokenRow]
             /\ tokens'[t].user = r.user /\ tokens'[t].kind = r.kind
             /\ \A o \in DOMAIN tokens : tokens'[o] = Invalidated(r.user, r.kind)[o]
             /\ audit' = audit \cup {Log(IssuedAction(r.kind), r.user)}
             /\ mailbox' \subseteq mailbox \cup {t}
<1>1. req[p] \in IssueRequest
  BY RequestKinds DEF AccountTypeOK, TypeOK, CommitIssue, Serving
<1> DEFINE r == req[p]
           row == [user |-> r.user, kind |-> r.kind, expires |-> r.at + TokenTtl,
                   used |-> FALSE]
           old == Invalidated(r.user, r.kind)
<1>2. row \in TokenRow
  <2>1. r.at \in Nat /\ r.at + TokenTtl \in Nat
    BY <1>1, TokenTtlAssumption DEF IssueRequest, Time, TokenTtlAssumption
  <2> QED BY <1>1, <2>1 DEF IssueRequest, TokenRow
<1>3. PICK t \in Tokens \ DOMAIN tokens :
        /\ tokens' = Insert(old, t, row)
        /\ audit' = audit \cup {Log(IssuedAction(r.kind), r.user)}
        /\ mailbox' \in {mailbox, mailbox \cup {t}}
  BY DEF CommitIssue
<1>4. old \in [DOMAIN tokens -> TokenRow]
  BY InvalidatedTokens
<1>5. row.user = r.user /\ row.kind = r.kind
  OBVIOUS
<1> HIDE DEF row, old
<1>6. /\ DOMAIN tokens' = DOMAIN tokens \cup {t}
      /\ tokens' \in [DOMAIN tokens' -> TokenRow]
      /\ tokens'[t] = row
      /\ \A o \in DOMAIN tokens : tokens'[o] = old[o]
  BY <1>2, <1>3, <1>4 DEF Insert
<1> QED BY <1>1, <1>3, <1>5, <1>6 DEF IssueRequest, old
-----------------------------------------------------------------------------
(* Type correctness.                                                       *)

LEMMA BeginAccountType ==
    ASSUME AccountTypeOK, NEW p \in Procs,
           BeginRegister(p) \/ BeginResend(p) \/ BeginForgot(p) \/ BeginVerify(p)
              \/ BeginReset(p)
    PROVE  AccountTypeOK'
<1>1. /\ UNCHANGED <<users, sessions, audit, held, now>>
      /\ UNCHANGED <<registered, tokens, mailbox, verified, retired>>
  BY BeginAccount
<1>2. /\ req' \in [Procs -> Request \cup {None}]
      /\ \A q \in Procs : req'[q] # None /\ req'[q].op = "refresh"
                              => req'[q].sid \in DOMAIN sessions'
      /\ \A q \in Procs : Serving(q, {"email_verify", "password_reset"})'
                              => req'[q].token \in DOMAIN tokens'
  BY <1>1, BeginAccount, AccountRequestsType
<1>3. TypeOK'
  BY <1>1, <1>2 DEF AccountTypeOK, TypeOK
<1>4. UsedFamilies' = UsedFamilies
  BY <1>1 DEF UsedFamilies
<1> QED BY <1>1, <1>2, <1>3, <1>4 DEF AccountTypeOK

LEMMA CommitRegisterType ==
    ASSUME AccountTypeOK, NEW p \in Procs, CommitRegister(p)
    PROVE  AccountTypeOK'
<1> DEFINE r == req[p]
<1>0. TypeOK
  BY DEF AccountTypeOK
<1>1. r.user \in Users /\ r.password \in Passwords
  BY <1>0, RequestKinds DEF TypeOK, CommitRegister, Serving, RegisterRequest
<1>2. UNCHANGED <<sessions, held, now, tokens, mailbox, verified, retired>>
  BY DEF CommitRegister
<1>3. Issuing(r.user, "email_verification") \in Request
  BY <1>0, <1>1 DEF Issuing, Request, IssueRequest, TypeOK, TokenKinds
<1>4. Issuing(r.user, "email_verification").op = "issue"
  BY DEF Issuing
<1>5. Finish(p) \/ Start(p, Issuing(r.user, "email_verification"))
  BY DEF CommitRegister
<1>6. /\ req' \in [Procs -> Request \cup {None}]
      /\ \A q \in Procs : req'[q] # None /\ req'[q].op = "refresh"
                              => req'[q].sid \in DOMAIN sessions'
      /\ \A q \in Procs : Serving(q, {"email_verify", "password_reset"})'
                              => req'[q].token \in DOMAIN tokens'
  BY <1>2, <1>3, <1>4, <1>5, AccountRequestsType DEF AccountOps
<1>7. users' \in [Users -> UserRow] /\ registered \subseteq registered' /\ registered' \subseteq Users
  BY <1>0, <1>1, FreshRowType DEF CommitRegister, TypeOK, AccountTypeOK
<1>8. audit' \subseteq AuditEntry
  <2>1. audit' = audit \cup {Log("auth.register", r.user)} \/ audit' = audit
    BY DEF CommitRegister
  <2>2. "auth.register" \in AuditActions
    BY DEF AuditActions
  <2> QED BY <1>0, <1>1, <2>1, <2>2, AuditType DEF TypeOK
<1>9. TypeOK'
  BY <1>0, <1>2, <1>6, <1>7, <1>8 DEF TypeOK
<1>10. UsedFamilies' = UsedFamilies
  BY <1>2 DEF UsedFamilies
<1> QED BY <1>2, <1>6, <1>7, <1>9, <1>10 DEF AccountTypeOK

LEMMA CommitIssueType ==
    ASSUME AccountTypeOK, NEW p \in Procs, CommitIssue(p)
    PROVE  AccountTypeOK'
<1>0. TypeOK
  BY DEF AccountTypeOK
<1>1. UNCHANGED <<users, sessions, held, now, registered, verified, retired>> /\ Finish(p)
  BY DEF CommitIssue
<1>2. PICK t \in Tokens \ DOMAIN tokens :
        /\ req[p].user \in Users /\ req[p].kind \in TokenKinds
        /\ DOMAIN tokens' = DOMAIN tokens \cup {t}
        /\ tokens' \in [DOMAIN tokens' -> TokenRow]
        /\ audit' = audit \cup {Log(IssuedAction(req[p].kind), req[p].user)}
        /\ mailbox' \subseteq mailbox \cup {t}
  BY TokenIssued
<1>3. /\ req' \in [Procs -> Request \cup {None}]
      /\ \A q \in Procs : req'[q] # None /\ req'[q].op = "refresh"
                              => req'[q].sid \in DOMAIN sessions'
      /\ \A q \in Procs : Serving(q, {"email_verify", "password_reset"})'
                              => req'[q].token \in DOMAIN tokens'
  BY <1>1, <1>2, AccountRequestsType
<1>4. audit' \subseteq AuditEntry
  <2>1. IssuedAction(req[p].kind) \in AuditActions
    BY DEF IssuedAction, AuditActions
  <2> QED BY <1>0, <1>2, <2>1, AuditType
<1>5. TypeOK'
  BY <1>0, <1>1, <1>3, <1>4 DEF TypeOK
<1>6. UsedFamilies' = UsedFamilies
  BY <1>1 DEF UsedFamilies
<1> QED BY <1>1, <1>2, <1>3, <1>5, <1>6 DEF AccountTypeOK
(* AccountTypeOK alone is not inductive: a verification marks the account  *)
(* its request named, a sign-in gives a session to the one it read.  So    *)
(* the invariant says that nothing refers to an account that has no row.   *)
OnlyRegistered ==
    /\ \A s \in DOMAIN sessions : sessions[s].user \in registered
    /\ \A t \in DOMAIN tokens : tokens[t].user \in registered
    /\ \A q \in Procs :
          Serving(q, {"login", "admin_login", "issue", "email_verify", "password_reset"})
              => req[q].user \in registered

(* A request holds a token for the account and the purpose it acts on.     *)
TokensInUse ==
    \A q \in Procs :
        LET token == tokens[req[q].token] IN
        /\ Serving(q, {"email_verify"}) =>
              token.user = req[q].user /\ token.kind = "email_verification"
        /\ Serving(q, {"password_reset"}) =>
              token.user = req[q].user /\ token.kind = "password_reset"

AccountInv == AccountTypeOK /\ SnapshotInv /\ OnlyRegistered /\ TokensInUse

(* What a request that uses a token has just read. *)
ReadsToken(q, kind) ==
    LET t == req'[q].token IN
    /\ t \in DOMAIN tokens
    /\ tokens[t].kind = kind /\ ~tokens[t].used /\ tokens[t].user = req'[q].user

(* What is in flight after a step of an account endpoint. *)
LEMMA AccountRequests ==
    ASSUME AccountTypeOK, OnlyRegistered, NEW p \in Procs, Account(p), NEW q \in Procs
    PROVE  \/ req'[q] = req[q]
           \/ req'[q] = None
           \/ req'[q].op = "register"
           \/ req'[q].op = "issue" /\ req'[q].user \in registered'
           \/ /\ req'[q].op = "email_verify"
              /\ ReadsToken(q, "email_verification")
              /\ UNCHANGED tokens
           \/ /\ req'[q].op = "password_reset"
              /\ ReadsToken(q, "password_reset")
              /\ UNCHANGED tokens
<1> DEFINE Goal ==
      \/ req'[q] = req[q]
      \/ req'[q] = None
      \/ req'[q].op = "register"
      \/ req'[q].op = "issue" /\ req'[q].user \in registered'
      \/ /\ req'[q].op = "email_verify"
         /\ ReadsToken(q, "email_verification")
         /\ UNCHANGED tokens
      \/ /\ req'[q].op = "password_reset"
         /\ ReadsToken(q, "password_reset")
         /\ UNCHANGED tokens
<1>0. TypeOK
  BY DEF AccountTypeOK
<1>1. ASSUME Finish(p) PROVE Goal
  BY <1>0, <1>1 DEF Finish, TypeOK
<1>2. ASSUME NEW r, Start(p, r) PROVE req'[q] = r \/ req'[q] = req[q]
  BY <1>0, <1>2 DEF Start, TypeOK
<1>3. ASSUME NEW u, NEW k, Start(p, Issuing(u, k)), u \in registered' PROVE Goal
  <2>1. Issuing(u, k).op = "issue" /\ Issuing(u, k).user = u
    BY DEF Issuing
  <2> QED BY <1>2, <1>3, <2>1
<1>4. CASE BeginRegister(p)
  <2>1. PICK u \in Users, pw \in Passwords :
          Start(p, [op |-> "register", user |-> u, password |-> pw])
    BY <1>4 DEF BeginRegister
  <2>2. [op |-> "register", user |-> u, password |-> pw].op = "register"
    OBVIOUS
  <2> QED BY <1>2, <2>1, <2>2
<1>5. CASE CommitRegister(p)
  <2>1. \/ Finish(p)
        \/ /\ Start(p, Issuing(req[p].user, "email_verification"))
           /\ req[p].user \in registered'
    BY <1>5 DEF CommitRegister
  <2> QED BY <1>1, <1>3, <2>1
<1>6. CASE BeginResend(p)
  <2>1. PICK t \in held : Start(p, Issuing(sessions[t.sid].user, "email_verification"))
    BY <1>6 DEF BeginResend
  <2>2. sessions[t.sid].user \in registered /\ UNCHANGED registered
    BY <1>0, <1>6 DEF BeginResend, OnlyRegistered, TypeOK, accountVars
  <2> QED BY <1>3, <2>1, <2>2
<1>7. CASE BeginForgot(p)
  <2>1. PICK u \in registered : Start(p, Issuing(u, "password_reset"))
    BY <1>7 DEF BeginForgot
  <2>2. UNCHANGED registered
    BY <1>7 DEF BeginForgot, accountVars
  <2> QED BY <1>3, <2>1, <2>2
<1>8. CASE BeginVerify(p)
  <2>1. PICK t \in mailbox :
          /\ Usable(t, "email_verification")
          /\ Start(p, [op |-> "email_verify", user |-> tokens[t].user, token |-> t])
    BY <1>8 DEF BeginVerify
  <2> DEFINE r == [op |-> "email_verify", user |-> tokens[t].user, token |-> t]
  <2>2. t \in DOMAIN tokens /\ UNCHANGED tokens
    BY <1>8 DEF AccountTypeOK, BeginVerify, accountVars
  <2>3. r.op = "email_verify" /\ r.token = t /\ r.user = tokens[t].user
    OBVIOUS
  <2>4. CASE req'[q] = r
    BY <2>1, <2>2, <2>3, <2>4 DEF Usable, ReadsToken
  <2> QED BY <1>2, <2>1, <2>4
<1>9. CASE BeginReset(p)
  <2>1. PICK t \in mailbox, pw \in Passwords :
          /\ Usable(t, "password_reset")
          /\ Start(p, [op |-> "password_reset", user |-> tokens[t].user,
                       row |-> users[tokens[t].user], token |-> t, password |-> pw])
    BY <1>9 DEF BeginReset
  <2> DEFINE r == [op |-> "password_reset", user |-> tokens[t].user,
                   row |-> users[tokens[t].user], token |-> t, password |-> pw]
  <2>2. t \in DOMAIN tokens /\ UNCHANGED tokens
    BY <1>9 DEF AccountTypeOK, BeginReset, accountVars
  <2>3. r.op = "password_reset" /\ r.token = t /\ r.user = tokens[t].user
    OBVIOUS
  <2>4. CASE req'[q] = r
    BY <2>1, <2>2, <2>3, <2>4 DEF Usable, ReadsToken
  <2> QED BY <1>2, <2>1, <2>4
<1>10. CASE CommitIssue(p) \/ CommitVerify(p) \/ CommitReset(p)
  BY <1>1, <1>10 DEF CommitIssue, CommitVerify, CommitReset
<1> QED BY <1>4, <1>5, <1>6, <1>7, <1>8, <1>9, <1>10 DEF Account

LEMMA CommitVerifyType ==
    ASSUME AccountTypeOK, OnlyRegistered, NEW p \in Procs, CommitVerify(p)
    PROVE  AccountTypeOK'
<1> DEFINE r == req[p]
<1>0. TypeOK
  BY DEF AccountTypeOK
<1>1. r.user \in Users /\ r.user \in registered /\ r.token \in DOMAIN tokens
  BY DEF AccountTypeOK, OnlyRegistered, CommitVerify, Serving
<1>2. UNCHANGED <<users, sessions, held, now, registered, mailbox, retired>> /\ Finish(p)
  BY DEF CommitVerify
<1>3. DOMAIN tokens' = DOMAIN tokens /\ tokens' \in [DOMAIN tokens' -> TokenRow]
  BY <1>1, TokenUsed DEF CommitVerify
<1>4. /\ req' \in [Procs -> Request \cup {None}]
      /\ \A q \in Procs : req'[q] # None /\ req'[q].op = "refresh"
                              => req'[q].sid \in DOMAIN sessions'
      /\ \A q \in Procs : Serving(q, {"email_verify", "password_reset"})'
                              => req'[q].token \in DOMAIN tokens'
  BY <1>2, <1>3, AccountRequestsType
<1>5. audit' \subseteq AuditEntry
  BY <1>0, <1>1, AuditType DEF CommitVerify, AuditActions
<1>6. TypeOK'
  BY <1>0, <1>2, <1>4, <1>5 DEF TypeOK
<1>7. verified' \subseteq registered' /\ UsedFamilies' = UsedFamilies
  BY <1>1, <1>2 DEF AccountTypeOK, CommitVerify, UsedFamilies
<1> QED BY <1>2, <1>3, <1>4, <1>6, <1>7 DEF AccountTypeOK

LEMMA CommitResetType ==
    ASSUME AccountTypeOK, NEW p \in Procs, CommitReset(p)
    PROVE  AccountTypeOK'
<1> DEFINE r == req[p]
           flushed == FlushUser(users[r.user], r.row, AfterReset(r))
<1>0. TypeOK
  BY DEF AccountTypeOK
<1>1. r \in ResetRequest /\ r.token \in DOMAIN tokens
  BY <1>0, RequestKinds DEF AccountTypeOK, TypeOK, CommitReset, Serving
<1>2. r.user \in Users /\ r.row \in UserRow /\ r.password \in Passwords
  BY <1>1 DEF ResetRequest
<1>3. UNCHANGED <<held, now, registered, mailbox, verified>> /\ Finish(p)
  BY DEF CommitReset
<1>4. DOMAIN tokens' = DOMAIN tokens /\ tokens' \in [DOMAIN tokens' -> TokenRow]
  BY <1>1, TokenUsed DEF CommitReset
<1>5. /\ DOMAIN sessions' = DOMAIN sessions
      /\ sessions' \in [DOMAIN sessions' -> SessionRow]
  BY <1>0, RevokeType DEF CommitReset, RevokeReasons
<1>6. users' \in [Users -> UserRow]
  <2>1. flushed \in UserRow
    BY <1>0, <1>1, <1>2, FlushType, AfterResetType DEF TypeOK
  <2>2. [flushed EXCEPT !.hash = FreshHash(r.password)] \in UserRow
    BY <1>2, <2>1, FreshRowType DEF UserRow
  <2>3. users' = [users EXCEPT ![r.user] = [flushed EXCEPT !.hash = FreshHash(r.password)]]
    BY <1>0, <1>2 DEF CommitReset, TypeOK
  <2> QED BY <1>0, <2>2, <2>3 DEF TypeOK
<1>7. audit' \subseteq AuditEntry
  BY <1>0, <1>2, AuditType DEF CommitReset, AuditActions
<1>8. /\ req' \in [Procs -> Request \cup {None}]
      /\ \A q \in Procs : req'[q] # None /\ req'[q].op = "refresh"
                              => req'[q].sid \in DOMAIN sessions'
      /\ \A q \in Procs : Serving(q, {"email_verify", "password_reset"})'
                              => req'[q].token \in DOMAIN tokens'
  BY <1>3, <1>4, <1>5, AccountRequestsType
<1>9. TypeOK'
  BY <1>0, <1>3, <1>5, <1>6, <1>7, <1>8 DEF TypeOK
<1>10. retired' \subseteq UsedFamilies'
  <2>1. \A s \in DOMAIN sessions : sessions'[s].family = sessions[s].family
    BY <1>0, RevokeKeeps DEF CommitReset, RevokeReasons, RowKept
  <2>2. UsedFamilies' = UsedFamilies
    BY <1>5, <2>1 DEF UsedFamilies
  <2>3. FamiliesOf(r.user) \subseteq UsedFamilies
    BY DEF FamiliesOf, UserRows, UsedFamilies
  <2> QED BY <2>2, <2>3 DEF AccountTypeOK, CommitReset
<1> QED BY <1>3, <1>4, <1>8, <1>9, <1>10 DEF AccountTypeOK

LEMMA AccountTypeStep ==
    ASSUME AccountTypeOK, OnlyRegistered, NEW p \in Procs, Account(p)
    PROVE  AccountTypeOK'
  BY BeginAccountType, CommitRegisterType, CommitIssueType, CommitVerifyType, CommitResetType
     DEF Account

LEMMA SystemTypeStep ==
    ASSUME AccountTypeOK, [SystemNext]_vars
    PROVE  AccountTypeOK'
<1>0. TypeOK
  BY DEF AccountTypeOK
<1>1. TypeOK' /\ UNCHANGED <<registered, tokens, mailbox, verified, retired>>
  BY <1>0, TypeStep, SystemKeepsAccounts
<1>2. UsedFamilies \subseteq UsedFamilies'
  BY <1>0, RowsKept DEF UsedFamilies, RowKept
<1>3. ASSUME NEW q \in Procs, Serving(q, {"email_verify", "password_reset"})'
      PROVE  req'[q].token \in DOMAIN tokens'
  <2>1. req'[q] = req[q]
    BY <1>0, <1>3, SystemKeepsRequests DEF Serving, AccountOps
  <2> QED BY <1>1, <1>3, <2>1 DEF AccountTypeOK, Serving
<1> QED BY <1>1, <1>2, <1>3 DEF AccountTypeOK
-----------------------------------------------------------------------------
(* What a step of an account endpoint does to the sessions.                *)

(* Only a reset touches the sessions, and it revokes those of the account. *)
LEMMA AccountRows ==
    ASSUME TypeOK, NEW p \in Procs, Account(p)
    PROVE  /\ DOMAIN sessions' = DOMAIN sessions
           /\ \A s \in DOMAIN sessions : RowKept(s)
           /\ ~CommitReset(p) => UNCHANGED sessions
           /\ UNCHANGED <<held, now>>
<1>1. UNCHANGED <<held, now>>
  BY DEF Account, BeginRegister, CommitRegister, BeginResend, BeginForgot, CommitIssue,
         BeginVerify, CommitVerify, BeginReset, CommitReset
<1>2. CASE CommitReset(p)
  <2>1. sessions' = Revoke(UserRows(req[p].user), "password_reset")
    BY <1>2 DEF CommitReset
  <2>2. "password_reset" \in RevokeReasons
    BY DEF RevokeReasons
  <2>3. DOMAIN sessions' = DOMAIN sessions
    BY <2>1 DEF Revoke
  <2> QED BY <1>1, <1>2, <2>1, <2>2, <2>3, RevokeKeeps
<1>3. CASE ~CommitReset(p)
  <2>1. UNCHANGED sessions
    BY <1>3 DEF Account, BeginRegister, CommitRegister, BeginResend, BeginForgot, CommitIssue,
                BeginVerify, CommitVerify, BeginReset
  <2> QED BY <1>1, <2>1 DEF RowKept
<1> QED BY <1>2, <1>3

(* Such a step neither begins nor ends a refresh. *)
LEMMA AccountRefreshes ==
    ASSUME AccountTypeOK, OnlyRegistered, NEW p \in Procs, Account(p), NEW q \in Procs
    PROVE  /\ Serving(q, {"refresh"})' => req'[q] = req[q]
           /\ Serving(q, {"refresh"}) => req'[q] = req[q]
<1>1. ~Serving(p, {"refresh"})
  BY DEF Account, BeginRegister, CommitRegister, BeginResend, BeginForgot, CommitIssue,
         BeginVerify, CommitVerify, BeginReset, CommitReset, Idle, Serving
<1>2. q # p => req'[q] = req[q]
  BY DEF Account, BeginRegister, CommitRegister, BeginResend, BeginForgot, CommitIssue,
         BeginVerify, CommitVerify, BeginReset, CommitReset, Start, Finish,
         AccountTypeOK, TypeOK
<1>3. Serving(q, {"refresh"})' => req'[q] = req[q]
  BY AccountRequests DEF Serving
<1> QED BY <1>1, <1>2, <1>3

LEMMA AccountRotations ==
    ASSUME AccountTypeOK, OnlyRegistered, NEW p \in Procs, Account(p), NEW f
    PROVE  RotationInFlight(f)' = RotationInFlight(f)
<1>1. \A q \in Procs : Serving(q, {"refresh"})' = Serving(q, {"refresh"})
  BY AccountRefreshes DEF Serving
<1>2. \A q \in Procs : Serving(q, {"refresh"}) => req'[q] = req[q]
  BY AccountRefreshes
<1> QED BY <1>1, <1>2 DEF RotationInFlight, Rotates, Reused, Expired
-----------------------------------------------------------------------------
(* The invariant.                                                          *)

LEMMA SystemOnlyRegistered ==
    ASSUME AccountInv, [SystemNext]_vars
    PROVE  OnlyRegistered'
<1>0. TypeOK /\ SnapshotInv /\ OnlyRegistered
  BY DEF AccountInv, AccountTypeOK
<1>1. UNCHANGED <<registered, tokens>>
  BY SystemKeepsAccounts
<1>2. ASSUME NEW s \in DOMAIN sessions PROVE sessions'[s].user \in registered
  BY <1>0, RowsKept DEF RowKept, OnlyRegistered
<1>3. ASSUME NEW s \in DOMAIN sessions', s \notin DOMAIN sessions
      PROVE  sessions'[s].user \in registered
  <2>1. ASSUME NEW p \in Procs, CommitLoginSuccess(p) PROVE sessions'[s].user \in registered
    <3>1. PICK n \in Sids \ DOMAIN sessions, f \in Families :
            /\ DOMAIN sessions' = DOMAIN sessions \cup {n}
            /\ sessions'[n] = RootSession(req[p], f)
      BY <1>0, <2>1, SignInEffect
    <3>2. sessions'[s].user = req[p].user
      BY <1>3, <3>1 DEF RootSession
    <3> QED BY <1>0, <2>1, <3>2 DEF OnlyRegistered, CommitLoginSuccess, Serving
  <2>2. ASSUME NEW p \in Procs, CommitRotation(p) PROVE sessions'[s].user \in registered
    <3>1. sessions'[s] = Successor(req[p])
      BY <1>0, <1>3, <2>2, RotationEffect
    <3>2. sessions'[s].user = req[p].row.user
      BY <3>1 DEF Successor
    <3> QED BY <1>0, <2>2, <3>2 DEF OnlyRegistered, CommitRotation, SnapshotInv
  <2>3. \E p \in Procs : AddsRows(p)
    BY <1>0, <1>3, RowsKeptInPlace
  <2> QED BY <2>1, <2>2, <2>3 DEF AddsRows
<1>4. ASSUME NEW q \in Procs,
             Serving(q, {"login", "admin_login", "issue", "email_verify", "password_reset"})'
      PROVE  req'[q].user \in registered
  <2>1. CASE req'[q].op \in {"login", "admin_login"}
    <3>1. Serving(q, {"login", "admin_login"})'
      BY <1>4, <2>1 DEF Serving
    <3> QED BY <1>0, <3>1, LoginOrigin DEF OnlyRegistered, Serving
  <2>2. CASE req'[q].op \in AccountOps
    <3>1. req'[q] = req[q]
      BY <1>0, <1>4, <2>2, SystemKeepsRequests DEF Serving
    <3> QED BY <1>0, <1>4, <3>1 DEF OnlyRegistered, Serving
  <2> QED BY <1>4, <2>1, <2>2 DEF Serving, AccountOps
<1> QED BY <1>0, <1>1, <1>2, <1>3, <1>4 DEF OnlyRegistered

(* A step of an account endpoint keeps the purposes of the issued tokens,  *)
(* adds at most one, and revives none.                                     *)
LEMMA AccountTokensKept ==
    ASSUME AccountTypeOK, OnlyRegistered, NEW p \in Procs, Account(p)
    PROVE  /\ registered \subseteq registered'
           /\ \A t \in DOMAIN tokens :
                /\ t \in DOMAIN tokens'
                /\ tokens'[t].user = tokens[t].user /\ tokens'[t].kind = tokens[t].kind
                /\ tokens[t].used => tokens'[t].used
           /\ ~CommitIssue(p) => DOMAIN tokens' = DOMAIN tokens
           /\ CommitIssue(p) => \A t \in DOMAIN tokens' \ DOMAIN tokens :
                                   tokens'[t].user = req[p].user
<1> DEFINE Kept == \A t \in DOMAIN tokens :
                /\ t \in DOMAIN tokens'
                /\ tokens'[t].user = tokens[t].user /\ tokens'[t].kind = tokens[t].kind
                /\ tokens[t].used => tokens'[t].used
<1>1. registered \subseteq registered'
  BY DEF Account, BeginRegister, CommitRegister, BeginResend, BeginForgot, CommitIssue,
         BeginVerify, CommitVerify, BeginReset, CommitReset, accountVars
<1>2. CASE CommitIssue(p)
  <2>1. PICK t \in Tokens \ DOMAIN tokens :
          /\ DOMAIN tokens' = DOMAIN tokens \cup {t}
          /\ tokens'[t].user = req[p].user
          /\ \A o \in DOMAIN tokens : tokens'[o] = Invalidated(req[p].user, req[p].kind)[o]
    BY <1>2, TokenIssued
  <2>2. Kept
    BY <2>1, InvalidatedTokens
  <2> QED BY <1>1, <1>2, <2>1, <2>2
<1>3. CASE CommitVerify(p) \/ CommitReset(p)
  <2>1. req[p].token \in DOMAIN tokens
    BY <1>3 DEF AccountTypeOK, CommitVerify, CommitReset, Serving
  <2>2. tokens' = [tokens EXCEPT ![req[p].token].used = TRUE]
    BY <1>3 DEF CommitVerify, CommitReset
  <2>3. DOMAIN tokens' = DOMAIN tokens /\ Kept
    BY <2>1, <2>2, TokenUsed
  <2>4. ~CommitIssue(p)
    BY <1>3 DEF CommitIssue, CommitVerify, CommitReset, Serving
  <2> QED BY <1>1, <2>3, <2>4
<1>4. CASE ~CommitIssue(p) /\ ~CommitVerify(p) /\ ~CommitReset(p)
  <2>1. UNCHANGED tokens
    BY <1>4 DEF Account, BeginRegister, CommitRegister, BeginResend, BeginForgot,
                BeginVerify, BeginReset, accountVars
  <2> QED BY <1>1, <1>4, <2>1
<1> QED BY <1>2, <1>3, <1>4

LEMMA AccountOnlyRegistered ==
    ASSUME AccountTypeOK, OnlyRegistered, NEW p \in Procs, Account(p)
    PROVE  OnlyRegistered'
<1>0. TypeOK
  BY DEF AccountTypeOK
<1>1. \A s \in DOMAIN sessions' : sessions'[s].user \in registered'
  BY <1>0, AccountRows, AccountTokensKept DEF RowKept, OnlyRegistered
<1>2. ASSUME NEW t \in DOMAIN tokens' PROVE tokens'[t].user \in registered'
  <2>1. CASE t \in DOMAIN tokens
    BY <2>1, AccountTokensKept DEF OnlyRegistered
  <2>2. CASE t \notin DOMAIN tokens
    <3>1. CommitIssue(p) /\ tokens'[t].user = req[p].user
      BY <2>2, AccountTokensKept
    <3>2. req[p].user \in registered
      BY <3>1 DEF OnlyRegistered, CommitIssue, Serving
    <3> QED BY <3>1, <3>2, AccountTokensKept
  <2> QED BY <2>1, <2>2
<1>3. ASSUME NEW q \in Procs,
             Serving(q, {"login", "admin_login", "issue", "email_verify", "password_reset"})'
      PROVE  req'[q].user \in registered'
  <2>1. CASE req'[q] = req[q]
    BY <1>3, <2>1, AccountTokensKept DEF OnlyRegistered, Serving
  <2>2. CASE req'[q] # req[q]
    BY <1>3, <2>2, AccountRequests, AccountTokensKept DEF OnlyRegistered, Serving, ReadsToken
  <2> QED BY <2>1, <2>2
<1> QED BY <1>1, <1>2, <1>3 DEF OnlyRegistered

LEMMA SystemTokensInUse ==
    ASSUME AccountInv, [SystemNext]_vars
    PROVE  TokensInUse'
<1>0. TypeOK /\ UNCHANGED tokens
  BY SystemKeepsAccounts DEF AccountInv, AccountTypeOK
<1>1. ASSUME NEW q \in Procs, Serving(q, {"email_verify", "password_reset"})'
      PROVE  req'[q] = req[q]
  BY <1>0, <1>1, SystemKeepsRequests DEF Serving, AccountOps
<1> QED BY <1>0, <1>1 DEF AccountInv, TokensInUse, Serving

LEMMA AccountTokensInUse ==
    ASSUME AccountInv, NEW p \in Procs, Account(p)
    PROVE  TokensInUse'
<1>0. AccountTypeOK /\ OnlyRegistered /\ TokensInUse
  BY DEF AccountInv
<1> SUFFICES ASSUME NEW q \in Procs, NEW op \in {"email_verify", "password_reset"},
                    Serving(q, {op})'
             PROVE  LET t == req'[q].token IN
                    /\ tokens'[t].user = req'[q].user
                    /\ tokens'[t].kind = IF op = "email_verify" THEN "email_verification"
                                         ELSE "password_reset"
  BY DEF TokensInUse
<1>1. CASE req'[q] = req[q]
  <2>1. Serving(q, {op}) /\ req[q].token \in DOMAIN tokens
    BY <1>0, <1>1 DEF Serving, AccountTypeOK
  <2>2. /\ tokens[req[q].token].user = req[q].user
        /\ tokens[req[q].token].kind = IF op = "email_verify" THEN "email_verification"
                                       ELSE "password_reset"
    BY <1>0, <2>1 DEF TokensInUse
  <2> QED BY <1>0, <1>1, <2>1, <2>2, AccountTokensKept
<1>2. CASE req'[q] # req[q]
  BY <1>0, <1>2, AccountRequests DEF Serving, ReadsToken
<1> QED BY <1>1, <1>2

LEMMA AccountSnapshots ==
    ASSUME AccountInv, NEW p \in Procs, Account(p)
    PROVE  SnapshotInv'
<1>0. AccountTypeOK /\ TypeOK /\ OnlyRegistered /\ SnapshotInv
  BY DEF AccountInv, AccountTypeOK
<1> SUFFICES ASSUME NEW q \in Procs, Serving(q, {"refresh"})'
             PROVE  /\ req'[q].sid \in DOMAIN sessions'
                    /\ req'[q].row.user = sessions'[req'[q].sid].user
                    /\ req'[q].row.family = sessions'[req'[q].sid].family
                    /\ req'[q].row.expires = sessions'[req'[q].sid].expires
  BY DEF SnapshotInv
<1>1. req'[q] = req[q] /\ Serving(q, {"refresh"})
  BY <1>0, AccountRefreshes DEF Serving
<1>2. /\ req[q].sid \in DOMAIN sessions
      /\ req[q].row.user = sessions[req[q].sid].user
      /\ req[q].row.family = sessions[req[q].sid].family
      /\ req[q].row.expires = sessions[req[q].sid].expires
  BY <1>0, <1>1 DEF SnapshotInv
<1>3. RowKept(req[q].sid)
  BY <1>0, <1>2, AccountRows
<1> QED BY <1>1, <1>2, <1>3 DEF RowKept

LEMMA AccountInvInit == Init => AccountInv
<1> SUFFICES ASSUME Init PROVE AccountInv
  OBVIOUS
<1>1. TypeOK
  BY InitType
<1>2. DOMAIN sessions = {} /\ DOMAIN tokens = {} /\ \A p \in Procs : req[p] = None
  BY DEF Init
<1>3. AccountTypeOK
  BY <1>1, <1>2 DEF Init, AccountTypeOK, Serving
<1> QED BY <1>2, <1>3 DEF AccountInv, SnapshotInv, OnlyRegistered, TokensInUse, Serving

LEMMA AccountInvStep == AccountInv /\ [AccountNext]_vars => AccountInv'
<1> SUFFICES ASSUME AccountInv, [AccountNext]_vars PROVE AccountInv'
  OBVIOUS
<1>0. AccountTypeOK /\ TypeOK /\ OnlyRegistered /\ SnapshotInv
  BY DEF AccountInv, AccountTypeOK
<1>1. CASE [SystemNext]_vars
  BY <1>0, <1>1, SystemTypeStep, SnapshotStep, SystemOnlyRegistered, SystemTokensInUse
     DEF AccountInv
<1>2. ASSUME NEW p \in Procs, Account(p) PROVE AccountInv'
  BY <1>0, <1>2, AccountTypeStep, AccountSnapshots, AccountOnlyRegistered, AccountTokensInUse
     DEF AccountInv
<1> QED BY <1>1, <1>2 DEF AccountNext

LEMMA AccountInvariant == AccountSpec => []AccountInv
  BY AccountInvInit, AccountInvStep, PTL DEF AccountSpec

(* Type correctness of all endpoints together; beyond the types, that no   *)
(* verified account and no retired session is unknown to the tables, and   *)
(* that a request never holds a token that was not issued.                 *)
THEOREM AccountTypes == AccountSpec => []AccountTypeOK
<1>1. AccountInv => AccountTypeOK
  BY DEF AccountInv
<1> QED BY <1>1, AccountInvariant, PTL

(* Sessions, tokens and the requests that decide on them never belong to   *)
(* an account that has no row in the users table.                          *)
THEOREM AccountsRegistered == AccountSpec => []OnlyRegistered
<1>1. AccountInv => OnlyRegistered
  BY DEF AccountInv
<1> QED BY <1>1, AccountInvariant, PTL
-----------------------------------------------------------------------------
(* Session families.                                                       *)

LEMMA AccountFamiliesStep ==
    ASSUME AccountInv, [AccountNext]_vars
    PROVE  [Family!FamiliesNext]_phaseBar
<1>0. AccountTypeOK /\ TypeOK /\ OnlyRegistered /\ SnapshotInv
  BY DEF AccountInv, AccountTypeOK
<1>1. CASE [SystemNext]_vars
  BY <1>0, <1>1, FamiliesStep
<1>2. ASSUME NEW p \in Procs, Account(p) PROVE Family!FamiliesNext
  BY <1>0, <1>2, AccountRows, AccountRotations, InPlaceStepEnds
<1> QED BY <1>1, <1>2 DEF AccountNext

(* With registration, verification and password reset running beside       *)
(* sign-in, refresh, logout and TOTP, a session family is still opened by  *)
(* one sign-in and, once it has ended, never works again.                  *)
THEOREM AccountImplementsFamilies == AccountSpec => ImplementsFamilies
<1>1. Init => Family!FamiliesInit
  BY DEF Init, Family!FamiliesInit, phaseBar, FamilyRows
<1>2. AccountInv /\ [AccountNext]_vars => [Family!FamiliesNext]_phaseBar
  BY AccountFamiliesStep
<1> QED BY <1>1, <1>2, AccountInvariant, PTL
        DEF AccountSpec, ImplementsFamilies, Family!FamiliesSpec

(* The rows of a family belong to one account. *)
OneOwner ==
    \A s, t \in DOMAIN sessions :
        sessions[s].family = sessions[t].family => sessions[s].user = sessions[t].user

LEMMA OneOwnerStep == AccountInv /\ OneOwner /\ [AccountNext]_vars => OneOwner'
<1> SUFFICES ASSUME AccountInv, OneOwner, [AccountNext]_vars PROVE OneOwner'
  OBVIOUS
<1>0. AccountTypeOK /\ TypeOK /\ OnlyRegistered /\ SnapshotInv
  BY DEF AccountInv, AccountTypeOK
<1>1. ASSUME DOMAIN sessions' = DOMAIN sessions, \A s \in DOMAIN sessions : RowKept(s)
      PROVE  OneOwner'
  BY <1>1 DEF OneOwner, RowKept
<1>2. ASSUME NEW p \in Procs, Account(p) PROVE OneOwner'
  BY <1>0, <1>1, <1>2, AccountRows
<1>3. ASSUME [SystemNext]_vars, \A p \in Procs : ~AddsRows(p) PROVE OneOwner'
  BY <1>0, <1>1, <1>3, RowsKeptInPlace
<1>4. ASSUME NEW p \in Procs, CommitLoginSuccess(p) PROVE OneOwner'
  <2>1. PICK n \in Sids \ DOMAIN sessions, f \in Families \ UsedFamilies :
          /\ DOMAIN sessions' = DOMAIN sessions \cup {n}
          /\ sessions'[n].family = f
          /\ \A t \in DOMAIN sessions : sessions'[t] = sessions[t]
    BY <1>0, <1>4, SignInEffect
  <2>2. \A t \in DOMAIN sessions : sessions[t].family # f
    BY DEF UsedFamilies
  <2> QED BY <2>1, <2>2 DEF OneOwner
<1>5. ASSUME [SystemNext]_vars, NEW p \in Procs, CommitRotation(p) PROVE OneOwner'
  <2>1. PICK n \in Sids \ DOMAIN sessions :
          /\ DOMAIN sessions' = DOMAIN sessions \cup {n}
          /\ sessions'[n] = Successor(req[p])
          /\ req[p].sid \in DOMAIN sessions
    BY <1>0, <1>5, RotationEffect
  <2>2. /\ sessions'[n].user = sessions[req[p].sid].user
        /\ sessions'[n].family = sessions[req[p].sid].family
    BY <1>0, <1>5, <2>1 DEF SnapshotInv, CommitRotation, Successor
  <2>3. \A t \in DOMAIN sessions :
          sessions'[t].user = sessions[t].user /\ sessions'[t].family = sessions[t].family
    BY <1>0, <1>5, RowsKept DEF RowKept
  <2> QED BY <2>1, <2>2, <2>3 DEF OneOwner
<1>6. CASE [SystemNext]_vars
  BY <1>3, <1>4, <1>5, <1>6 DEF AddsRows
<1> QED BY <1>2, <1>6 DEF AccountNext

(* However requests race, a family is never shared between accounts: the   *)
(* revocation of a family never touches the session of another account.    *)
THEOREM FamiliesHaveOneOwner == AccountSpec => []OneOwner
<1>1. Init => OneOwner
  BY DEF Init, OneOwner
<1> QED BY <1>1, OneOwnerStep, AccountInvariant, PTL DEF AccountSpec
-----------------------------------------------------------------------------
(* A password reset ends the sessions it finds at rest.                    *)

(* ResetEndsSessions is not inductive: a rotation in flight would revive   *)
(* the family.  What a retired family has is that it ended, rotations in   *)
(* flight included; that is for good (AccountFamiliesStep).                *)
RetiredEnded == \A f \in retired : phaseBar[f] = "ended"

LEMMA EndedForGood ==
    ASSUME AccountInv, [AccountNext]_vars, NEW f \in Families, phaseBar[f] = "ended"
    PROVE  phaseBar'[f] = "ended"
<1>1. phaseBar \in [Families -> {"unused", "live", "ended"}]
  BY PhaseBar
<1>2. ASSUME NEW g \in Families, Family!Open(g) PROVE phaseBar'[f] = "ended"
  BY <1>1, <1>2 DEF Family!Open
<1>3. ASSUME NEW S \in SUBSET Families, Family!End(S) PROVE phaseBar'[f] = "ended"
  BY <1>3 DEF Family!End
<1> QED BY <1>2, <1>3, AccountFamiliesStep DEF Family!FamiliesNext

LEMMA ResetRetires ==
    ASSUME AccountInv, OneOwner, NEW p \in Procs, CommitReset(p),
           NEW f \in FamiliesOf(req[p].user), ~RotationInFlight(f)
    PROVE  f \in Families /\ phaseBar'[f] = "ended"
<1>0. AccountTypeOK /\ TypeOK /\ OnlyRegistered
  BY DEF AccountInv, AccountTypeOK
<1>1. PICK s \in DOMAIN sessions : sessions[s].user = req[p].user /\ sessions[s].family = f
  BY DEF FamiliesOf, UserRows
<1>2. f \in Families
  BY <1>0, <1>1 DEF TypeOK, SessionRow
<1>3. Account(p)
  BY DEF Account
<1>4. FamilyRows(f)' = FamilyRows(f)
  BY <1>0, <1>3, AccountRows DEF FamilyRows, RowKept
<1>5. \A t \in FamilyRows(f) : sessions[t].user = req[p].user
  BY <1>1 DEF OneOwner, FamilyRows
<1>6. \A t \in FamilyRows(f) : sessions'[t].revoked # None
  <2>1. sessions' = Revoke(UserRows(req[p].user), "password_reset")
    BY DEF CommitReset
  <2>2. "password_reset" # None
    BY NoneAssumption DEF NoneAssumption, RevokeReasons
  <2>3. ASSUME NEW t \in FamilyRows(f) PROVE sessions'[t].revoked # None
    <3>1. t \in UserRows(req[p].user) /\ sessions[t] \in SessionRow
      BY <1>0, <1>5 DEF UserRows, FamilyRows, TypeOK
    <3> QED BY <2>1, <2>2, <3>1 DEF Revoke, UserRows, SessionRow
  <2> QED BY <2>3
<1>7. FamilyRows(f)' # {} /\ ActiveRows(f)' = {}
  BY <1>1, <1>4, <1>6 DEF FamilyRows, ActiveRows
<1>8. ~RotationInFlight(f)'
  BY <1>0, <1>3, AccountRotations
<1> QED BY <1>2, <1>7, <1>8, PhaseBar' DEF phaseBar

LEMMA RetiredStep ==
    AccountInv /\ OneOwner /\ RetiredEnded /\ [AccountNext]_vars => RetiredEnded'
<1> SUFFICES ASSUME AccountInv, OneOwner, RetiredEnded, [AccountNext]_vars,
                    NEW f \in retired'
             PROVE  phaseBar'[f] = "ended"
  BY DEF RetiredEnded
<1>1. retired \subseteq Families
  BY DEF AccountInv, AccountTypeOK, TypeOK, UsedFamilies, SessionRow
<1>2. CASE f \in retired
  BY <1>1, <1>2, EndedForGood DEF RetiredEnded
<1>3. CASE f \notin retired
  <2>1. PICK p \in Procs : Account(p)
    BY <1>3, SystemKeepsAccounts DEF AccountNext
  <2>2. CommitReset(p)
    BY <1>3, <2>1 DEF Account, BeginRegister, CommitRegister, BeginResend, BeginForgot,
                      CommitIssue, BeginVerify, CommitVerify, BeginReset, accountVars
  <2>3. f \in FamiliesOf(req[p].user) /\ ~RotationInFlight(f)
    BY <1>3, <2>2 DEF CommitReset
  <2> QED BY <2>2, <2>3, ResetRetires
<1> QED BY <1>2, <1>3

(* A session family that a password reset found at rest never has a        *)
(* working refresh token again, whatever sign-ins, refreshes and resets    *)
(* run at the same time.  The rotation that had read its row before the    *)
(* reset is the one exception, and the reason for "at rest".               *)
THEOREM ResetsEndSessions == AccountSpec => []ResetEndsSessions
<1>1. Init => RetiredEnded
  BY DEF Init, RetiredEnded
<1>2. AccountInv /\ RetiredEnded => ResetEndsSessions
  <2> SUFFICES ASSUME AccountInv, RetiredEnded, NEW f \in retired PROVE ActiveRows(f) = {}
    BY DEF ResetEndsSessions
  <2>1. f \in Families
    BY DEF AccountInv, AccountTypeOK, TypeOK, UsedFamilies, SessionRow
  <2> QED BY <2>1, PhaseBar DEF RetiredEnded
<1> QED BY <1>1, <1>2, RetiredStep, FamiliesHaveOneOwner, AccountInvariant, PTL DEF AccountSpec
-----------------------------------------------------------------------------
(* Mailed tokens.                                                          *)

(* Only an issue brings an unused token into being, and it has marked the  *)
(* others of its account and kind: a step of any other kind keeps the      *)
(* unused tokens among those of before.                                    *)
LEMMA OneLiveTokenStep == AccountInv /\ OneLiveToken /\ [AccountNext]_vars => OneLiveToken'
<1> SUFFICES ASSUME AccountInv, OneLiveToken, [AccountNext]_vars PROVE OneLiveToken'
  OBVIOUS
<1>0. AccountTypeOK /\ OnlyRegistered
  BY DEF AccountInv
<1>1. ASSUME [SystemNext]_vars PROVE OneLiveToken'
  <2>1. UNCHANGED tokens
    BY <1>1, SystemKeepsAccounts
  <2> QED BY <2>1 DEF OneLiveToken
<1>2. ASSUME NEW p \in Procs, Account(p), ~CommitIssue(p) PROVE OneLiveToken'
  <2>1. DOMAIN tokens' = DOMAIN tokens
    BY <1>0, <1>2, AccountTokensKept
  <2>2. \A t \in DOMAIN tokens :
          /\ tokens'[t].user = tokens[t].user /\ tokens'[t].kind = tokens[t].kind
          /\ ~tokens'[t].used => ~tokens[t].used
    BY <1>0, <1>2, AccountTokensKept
  <2> QED BY <2>1, <2>2 DEF OneLiveToken
<1>3. ASSUME NEW p \in Procs, CommitIssue(p) PROVE OneLiveToken'
  <2>1. PICK n \in Tokens \ DOMAIN tokens :
          /\ DOMAIN tokens' = DOMAIN tokens \cup {n}
          /\ tokens'[n].user = req[p].user /\ tokens'[n].kind = req[p].kind
          /\ \A o \in DOMAIN tokens : tokens'[o] = Invalidated(req[p].user, req[p].kind)[o]
    BY <1>0, <1>3, TokenIssued
  <2>2. \A o \in DOMAIN tokens : ~tokens'[o].used =>
          /\ ~tokens[o].used
          /\ tokens'[o].user = tokens[o].user /\ tokens'[o].kind = tokens[o].kind
          /\ tokens'[o].user # req[p].user \/ tokens'[o].kind # req[p].kind
    BY <1>0, <2>1, InvalidatedTokens
  <2> QED BY <2>1, <2>2 DEF OneLiveToken
<1> QED BY <1>1, <1>2, <1>3 DEF AccountNext

(* Whichever requests to issue a token overlap, an account has at most one *)
(* verification and one reset token that was not used.                     *)
THEOREM OneLiveTokenEach == AccountSpec => []OneLiveToken
<1>1. Init => OneLiveToken
  BY DEF Init, OneLiveToken
<1> QED BY <1>1, OneLiveTokenStep, AccountInvariant, PTL DEF AccountSpec

(* What the audit log says was served. *)
Served(u, kind) ==
    IF kind = "email_verification"
    THEN Log("auth.email_verified", u) \in audit
    ELSE Log("auth.password_reset.completed", u) \in audit

LEMMA DoneBar ==
    \A e \in [user : Users, kind : TokenKinds] : e \in doneBar <=> Served(e.user, e.kind)
  BY DEF doneBar, Served, TokenKinds

(* The audit entries that say a token was served. *)
ServingEntry(e) ==
    e.action \in {"auth.email_verified", "auth.password_reset.completed"}

LEMMA SystemServesNoToken ==
    ASSUME [SystemNext]_vars
    PROVE  \A e \in audit' \ audit : ~ServingEntry(e)
<1> DEFINE Goal == \A e \in audit' \ audit : ~ServingEntry(e)
<1>1. ASSUME UNCHANGED audit PROVE Goal
  BY <1>1
<1>2. ASSUME NEW a, NEW t, audit' = audit \cup {Log(a, t)},
             a \notin {"auth.email_verified", "auth.password_reset.completed"}
      PROVE  Goal
  BY <1>2 DEF ServingEntry, Log
<1> HIDE DEF Goal
<1>3. ASSUME NEW p \in Procs, Login(p) PROVE Goal
  <2>1. \/ UNCHANGED audit
        \/ audit' = audit \cup {Log("auth.login.failure", req[p].user)}
        \/ \E f \in Families : audit' = audit \cup {Log("auth.login", f)}
    BY <1>3 DEF Login, BeginLogin, CommitLoginFailure, CommitLoginSuccess
  <2> QED BY <1>1, <1>2, <2>1
<1>4. ASSUME NEW p \in Procs, Refresh(p) PROVE Goal
  BY <1>1, <1>2, <1>4
     DEF Refresh, BeginRefresh, CommitReuse, CommitExpired, CommitRotation
<1>5. ASSUME NEW p \in Procs, Logout(p) PROVE Goal
  <2>1. \/ UNCHANGED audit
        \/ audit' = audit \cup {Log("auth.session_revoke", req[p].family)}
        \/ audit' = audit \cup {Log("auth.logout_all", req[p].user)}
        \/ audit' = audit \cup {Log("auth.browser_logout", req[p].family)}
    BY <1>5 DEF Logout, BeginFamilyRevoke, CommitFamilyRevoke, BeginLogoutAll, CommitLogoutAll,
                BeginBrowserLogout, CommitBrowserLogout
  <2> QED BY <1>1, <1>2, <2>1
<1>6. ASSUME NEW p \in Procs, Totp(p) PROVE Goal
  <2>1. \/ UNCHANGED audit
        \/ audit' = audit \cup {Log("auth.totp.setup_started", req[p].user)}
        \/ audit' = audit \cup {Log("auth.totp.enabled", req[p].user)}
        \/ audit' = audit \cup {Log("auth.totp.disabled", req[p].user)}
    BY <1>6 DEF Totp, BeginTotpSetup, BeginTotpConfirm, BeginTotpDisable, StartTotp,
                CommitTotpSetup, CommitTotpConfirm, CommitTotpDisable
  <2> QED BY <1>1, <1>2, <2>1
<1>7. Goal
  BY <1>1, <1>3, <1>4, <1>5, <1>6 DEF SystemNext, Crash, Tick, vars
<1> QED BY <1>7 DEF Goal

LEMMA DoneUnchanged ==
    ASSUME audit \subseteq audit', \A e \in audit' \ audit : ~ServingEntry(e)
    PROVE  doneBar' = doneBar
<1>1. \A u : Log("auth.email_verified", u) \in audit' <=> Log("auth.email_verified", u) \in audit
  BY DEF ServingEntry, Log
<1>2. \A u : Log("auth.password_reset.completed", u) \in audit'
                <=> Log("auth.password_reset.completed", u) \in audit
  BY DEF ServingEntry, Log
<1> QED BY <1>1, <1>2 DEF doneBar

LEMMA PurposeUnchanged ==
    ASSUME DOMAIN tokens' = DOMAIN tokens,
           \A t \in DOMAIN tokens :
             tokens'[t].user = tokens[t].user /\ tokens'[t].kind = tokens[t].kind
    PROVE  purposeBar' = purposeBar
  BY DEF purposeBar

(* A session or TOTP endpoint is invisible to the tokens, but the death of *)
(* a worker may drop the last request that held one.                       *)
LEMMA SystemDrops ==
    ASSUME AccountInv, [SystemNext]_vars
    PROVE  OneTime!Drop
<1>0. TypeOK
  BY DEF AccountInv, AccountTypeOK
<1>1. UNCHANGED tokens
  BY SystemKeepsAccounts
<1>2. \A t \in DOMAIN tokens : InUse(t)' => InUse(t)
  BY <1>0, SystemKeepsRequests DEF InUse, Serving, AccountOps
<1>3. liveBar' \subseteq liveBar
  BY <1>1, <1>2 DEF liveBar
<1>4. purposeBar' = purposeBar
  BY <1>1 DEF purposeBar
<1>5. doneBar' = doneBar
  BY AuditGrows, SystemServesNoToken, DoneUnchanged
<1> QED BY <1>3, <1>4, <1>5 DEF OneTime!Drop

(* A request that did not begin with this step held its token before; one  *)
(* that did has read an unused token.                                      *)
LEMMA AccountLive ==
    ASSUME AccountInv, NEW p \in Procs, Account(p), NEW t \in DOMAIN tokens,
           t \in liveBar'
    PROVE  t \in liveBar
<1>0. AccountTypeOK /\ OnlyRegistered
  BY DEF AccountInv
<1>1. CASE ~tokens'[t].used
  BY <1>0, <1>1, AccountTokensKept DEF liveBar
<1>2. CASE InUse(t)'
  <2>1. PICK q \in Procs :
          Serving(q, {"email_verify", "password_reset"})' /\ req'[q].token = t
    BY <1>2 DEF InUse
  <2>2. CASE req'[q] = req[q]
    BY <2>1, <2>2 DEF liveBar, InUse, Serving
  <2>3. CASE req'[q] # req[q]
    <3>1. ~tokens[t].used
      BY <1>0, <2>1, <2>3, AccountRequests DEF Serving, ReadsToken
    <3> QED BY <3>1 DEF liveBar
  <2> QED BY <2>2, <2>3
<1> QED BY <1>1, <1>2 DEF liveBar

LEMMA IssueIsIssue ==
    ASSUME AccountInv, NEW p \in Procs, CommitIssue(p)
    PROVE  \E t \in Tokens : OneTime!Issue(t)
<1>0. AccountTypeOK /\ OnlyRegistered /\ Account(p)
  BY DEF AccountInv, Account
<1>1. PICK n \in Tokens \ DOMAIN tokens :
        /\ DOMAIN tokens' = DOMAIN tokens \cup {n}
        /\ \A o \in DOMAIN tokens : tokens'[o] = Invalidated(req[p].user, req[p].kind)[o]
        /\ audit' = audit \cup {Log(IssuedAction(req[p].kind), req[p].user)}
  BY <1>0, TokenIssued
<1>2. n \in Tokens \ DOMAIN purposeBar /\ DOMAIN purposeBar' = DOMAIN purposeBar \cup {n}
  BY <1>1 DEF purposeBar
<1>3. \A o \in DOMAIN purposeBar : purposeBar'[o] = purposeBar[o]
  BY <1>0, <1>1, AccountTokensKept DEF purposeBar
<1>4. liveBar' \subseteq liveBar \cup {n}
  <2>1. liveBar' \subseteq DOMAIN tokens \cup {n}
    BY <1>1 DEF liveBar
  <2> QED BY <1>0, <2>1, AccountLive
<1>5. doneBar' = doneBar
  <2>1. ~ServingEntry(Log(IssuedAction(req[p].kind), req[p].user))
    BY DEF ServingEntry, Log, IssuedAction
  <2> QED BY <1>1, <2>1, DoneUnchanged
<1> QED BY <1>2, <1>3, <1>4, <1>5 DEF OneTime!Issue

(* Verification and reset take effect through the token they hold, which   *)
(* they mark as used.                                                      *)
LEMMA ServingIsUse ==
    ASSUME AccountInv, NEW p \in Procs, CommitVerify(p) \/ CommitReset(p)
    PROVE  /\ req[p].token \in Tokens /\ OneTime!OverlappingUse(req[p].token)
           /\ tokens'[req[p].token].used /\ Finish(p)
<1> DEFINE r == req[p]
           kind == IF CommitVerify(p) THEN "email_verification" ELSE "password_reset"
<1>0. AccountTypeOK /\ OnlyRegistered /\ TokensInUse /\ Account(p) /\ ~CommitIssue(p)
  BY DEF AccountInv, Account, CommitVerify, CommitReset, CommitIssue, Serving
<1>1. r.token \in DOMAIN tokens /\ r.token \in Tokens /\ r.token \in liveBar
  <2>1. Serving(p, {"email_verify", "password_reset"})
    BY DEF CommitVerify, CommitReset, Serving
  <2>2. r.token \in DOMAIN tokens
    BY <1>0, <2>1 DEF AccountTypeOK
  <2> QED BY <1>0, <2>1, <2>2, TokensTyped DEF liveBar, InUse
<1>2. /\ tokens[r.token].user = r.user /\ tokens[r.token].kind = kind
      /\ r.user \in Users /\ kind \in TokenKinds
  <2>1. tokens[r.token].user = r.user /\ tokens[r.token].kind = kind
    BY <1>0 DEF TokensInUse, CommitVerify, CommitReset, Serving
  <2> QED BY <1>0, <1>1, <2>1, TokensTyped
<1>3. purposeBar' = purposeBar /\ purposeBar[r.token] = [user |-> r.user, kind |-> kind]
  <2>1. purposeBar' = purposeBar
    BY <1>0, AccountTokensKept, PurposeUnchanged
  <2> QED BY <1>1, <1>2, <2>1 DEF purposeBar
<1>4. liveBar' \subseteq liveBar
  <2>1. liveBar' \subseteq DOMAIN tokens
    BY <1>0, AccountTokensKept DEF liveBar
  <2> QED BY <1>0, <2>1, AccountLive
<1>5. doneBar' = doneBar \cup {[user |-> r.user, kind |-> kind]}
  <2>1. ASSUME NEW u \in Users, NEW k \in TokenKinds
        PROVE  Served(u, k)' <=> Served(u, k) \/ (u = r.user /\ k = kind)
    <3>1. audit' = audit \cup {Log(IF CommitVerify(p) THEN "auth.email_verified"
                                   ELSE "auth.password_reset.completed", r.user)}
      BY DEF CommitVerify, CommitReset
    <3>2. \A a, b : Log(a, u) = Log(b, r.user) <=> a = b /\ u = r.user
      BY DEF Log
    <3> QED BY <3>1, <3>2 DEF Served, TokenKinds
  <2>2. [user |-> r.user, kind |-> kind] \in [user : Users, kind : TokenKinds]
    BY <1>2
  <2>3. \A e \in [user : Users, kind : TokenKinds] :
          e = [user |-> r.user, kind |-> kind] <=> e.user = r.user /\ e.kind = kind
    OBVIOUS
  <2>4. \A e \in [user : Users, kind : TokenKinds] :
          e \in doneBar' <=> e \in doneBar \/ e = [user |-> r.user, kind |-> kind]
    <3>1. \A e \in [user : Users, kind : TokenKinds] :
            e \in doneBar' <=> Served(e.user, e.kind)'
      BY DEF doneBar, Served, TokenKinds
    <3> HIDE DEF kind
    <3> QED BY <2>1, <2>3, <3>1, DoneBar
  <2>5. /\ doneBar \subseteq [user : Users, kind : TokenKinds]
        /\ doneBar' \subseteq [user : Users, kind : TokenKinds]
    BY DEF doneBar, TokenKinds
  <2> QED BY <2>2, <2>4, <2>5
<1>6. tokens'[r.token].used /\ Finish(p)
  <2>1. tokens' = [tokens EXCEPT ![r.token].used = TRUE] /\ Finish(p)
    BY DEF CommitVerify, CommitReset
  <2>2. tokens[r.token] \in TokenRow
    BY <1>0, <1>1 DEF AccountTypeOK
  <2> QED BY <1>1, <2>1, <2>2 DEF TokenRow
<1>7. OneTime!OverlappingUse(r.token)
  BY <1>1, <1>3, <1>4, <1>5 DEF OneTime!OverlappingUse
<1> QED BY <1>1, <1>6, <1>7

(* The other account endpoints, and their first steps, are invisible to    *)
(* the tokens.                                                             *)
LEMMA AccountDrops ==
    ASSUME AccountInv, NEW p \in Procs, Account(p),
           ~CommitIssue(p), ~CommitVerify(p), ~CommitReset(p)
    PROVE  OneTime!Drop
<1>1. UNCHANGED tokens
  BY DEF Account, BeginRegister, CommitRegister, BeginResend, BeginForgot,
         BeginVerify, BeginReset, accountVars
<1>2. audit' = audit \/ audit' = audit \cup {Log("auth.register", req[p].user)}
  BY DEF Account, BeginRegister, CommitRegister, BeginResend, BeginForgot,
         BeginVerify, BeginReset
<1>3. ~ServingEntry(Log("auth.register", req[p].user))
  BY DEF ServingEntry, Log
<1>4. doneBar' = doneBar
  BY <1>2, <1>3, DoneUnchanged
<1>5. liveBar' \subseteq DOMAIN tokens
  BY <1>1 DEF liveBar
<1>6. liveBar' \subseteq liveBar
  BY <1>5, AccountLive
<1>7. purposeBar' = purposeBar
  BY <1>1 DEF purposeBar
<1> QED BY <1>4, <1>6, <1>7 DEF OneTime!Drop

LEMMA OneTimeInit == Init => OneTime!TokensInit
<1> SUFFICES ASSUME Init PROVE OneTime!TokensInit
  OBVIOUS
<1>1. DOMAIN tokens = {} /\ audit = {}
  BY DEF Init
<1>2. purposeBar = [t \in {} |-> t]
  BY <1>1 DEF purposeBar
<1>3. liveBar = {} /\ doneBar = {}
  BY <1>1 DEF liveBar, doneBar
<1> QED BY <1>2, <1>3 DEF OneTime!TokensInit

LEMMA OverlappingStep ==
    AccountInv /\ [AccountNext]_vars
        => [OneTime!OverlappingNext]_<<purposeBar, liveBar, doneBar>>
<1> SUFFICES ASSUME AccountInv, [AccountNext]_vars PROVE OneTime!OverlappingNext
  OBVIOUS
<1>1. CASE [SystemNext]_vars
  BY <1>1, SystemDrops DEF OneTime!OverlappingNext
<1>2. ASSUME NEW p \in Procs, CommitIssue(p) \/ CommitVerify(p) \/ CommitReset(p)
      PROVE  OneTime!OverlappingNext
  BY <1>2, IssueIsIssue, ServingIsUse DEF OneTime!OverlappingNext
<1>3. ASSUME NEW p \in Procs, Account(p),
             ~CommitIssue(p), ~CommitVerify(p), ~CommitReset(p)
      PROVE  OneTime!OverlappingNext
  BY <1>3, AccountDrops DEF OneTime!OverlappingNext
<1> QED BY <1>1, <1>2, <1>3 DEF AccountNext

(* Whatever requests race, no account is verified or reset but by a token  *)
(* that was mailed to it for that purpose, and a token is dead for good    *)
(* after the last request that read it unused.                             *)
THEOREM TokensDieForGood == AccountSpec => ImplementsOverlappingUses
<1> QED BY OneTimeInit, OverlappingStep, AccountInvariant, PTL
        DEF AccountSpec, ImplementsOverlappingUses, OneTime!OverlappingSpec
-----------------------------------------------------------------------------
(* Passwords.                                                              *)

(* What a flush may put in force as the password. *)
LEMMA FlushedPassword ==
    ASSUME NEW c, NEW l, NEW a, FlushUser(c, l, a).hash.password # c.hash.password
    PROVE  a.hash # l.hash /\ FlushUser(c, l, a).hash = a.hash
<1>1. FlushUser(c, l, a).hash = Column(c.hash, l.hash, a.hash)
  BY DEF FlushUser
<1> QED BY <1>1 DEF Column

LEMMA FlushedUser ==
    ASSUME TypeOK, NEW o \in Users, NEW l, NEW a, NEW u \in Users,
           users' = [users EXCEPT ![o] = FlushUser(@, l, a)],
           users'[u].hash.password # users[u].hash.password
    PROVE  u = o /\ users'[u] = FlushUser(users[u], l, a)
  BY DEF TypeOK

(* A session or TOTP endpoint changes the password in force only where a   *)
(* sign-in renews the outdated hash that it has read.                      *)
LEMMA SystemPasswords ==
    ASSUME TypeOK, [SystemNext]_vars,
           NEW u \in Users, users'[u].hash.password # users[u].hash.password
    PROVE  \E p \in Procs :
              /\ CommitLoginSuccess(p) /\ req[p].row.hash.stale
              /\ req[p].user = u
              /\ users'[u].hash.password = req[p].password
<1> DEFINE Goal == \E p \in Procs :
                      /\ CommitLoginSuccess(p) /\ req[p].row.hash.stale
                      /\ req[p].user = u
                      /\ users'[u].hash.password = req[p].password
<1>1. ASSUME UNCHANGED users PROVE FALSE
  BY <1>1
<1>2. ASSUME NEW p \in Procs, CommitLoginFailure(p) PROVE FALSE
  <2>1. req[p] \in LoginRequest
    BY <1>2, RequestKinds DEF TypeOK, CommitLoginFailure, Serving
  <2>2. req[p].row \in UserRow /\ req[p].user \in Users
    BY <2>1 DEF LoginRequest
  <2>3. AfterFailure(req[p]) \in UserRow /\ AfterFailure(req[p]).hash = req[p].row.hash
    BY <2>1, <2>2, AfterFailureType DEF AfterFailure, UserRow
  <2>4. users' = [users EXCEPT ![req[p].user] =
                    FlushUser(@, req[p].row, AfterFailure(req[p]))]
    BY <1>2 DEF CommitLoginFailure
  <2>5. users'[u] = FlushUser(users[u], req[p].row, AfterFailure(req[p]))
    BY <2>2, <2>4, FlushedUser
  <2> QED BY <2>3, <2>5, FlushedPassword
<1>3. ASSUME NEW p \in Procs, CommitLoginSuccess(p) PROVE Goal
  <2>1. req[p] \in LoginRequest
    BY <1>3, RequestKinds DEF TypeOK, CommitLoginSuccess, Serving
  <2>2. req[p].row \in UserRow /\ req[p].user \in Users /\ req[p].row.hash \in Hash
    BY <2>1 DEF LoginRequest, UserRow
  <2>3. AfterSuccess(req[p]) \in UserRow
    BY <2>1, AfterSuccessType
  <2>4. AfterSuccess(req[p]).hash = [req[p].row.hash EXCEPT !.stale = FALSE]
    BY <2>2 DEF AfterSuccess, UserRow
  <2>5. users' = [users EXCEPT ![req[p].user] =
                    FlushUser(@, req[p].row, AfterSuccess(req[p]))]
    BY <1>3 DEF CommitLoginSuccess
  <2>6. /\ u = req[p].user
        /\ AfterSuccess(req[p]).hash # req[p].row.hash
        /\ users'[u].hash = AfterSuccess(req[p]).hash
    <3>1. u = req[p].user /\ users'[u] = FlushUser(users[u], req[p].row, AfterSuccess(req[p]))
      BY <2>2, <2>5, FlushedUser
    <3> QED BY <3>1, FlushedPassword
  <2>7. req[p].row.hash.stale
    BY <2>2, <2>4, <2>6 DEF Hash
  <2>8. users'[u].hash.password = req[p].password
    BY <1>3, <2>2, <2>4, <2>6 DEF Hash, CommitLoginSuccess, PasswordVerifies
  <2> QED BY <1>3, <2>6, <2>7, <2>8
<1>4. ASSUME NEW p \in Procs, Totp(p) PROVE FALSE
  <2>1. CASE BeginTotpSetup(p) \/ BeginTotpConfirm(p) \/ BeginTotpDisable(p)
    BY <1>1, <2>1 DEF BeginTotpSetup, BeginTotpConfirm, BeginTotpDisable, StartTotp
  <2>2. CASE CommitTotpSetup(p) \/ CommitTotpConfirm(p) \/ CommitTotpDisable(p)
    <3>1. req[p] \in TotpRequest
      BY <2>2, RequestKinds DEF TypeOK, CommitTotpSetup, CommitTotpConfirm,
                                CommitTotpDisable, Serving, TotpEndpoints
    <3>2. req[p].row \in UserRow /\ req[p].user \in Users /\ req[p].secret \in Secrets \cup {None}
      BY <3>1 DEF TotpRequest
    <3>3. \A x, y \in Secrets \cup {None} :
            LET row == req[p].row IN
            /\ [row EXCEPT !.pending = x] \in UserRow
            /\ [row EXCEPT !.pending = x].hash = row.hash
            /\ [row EXCEPT !.totp = x, !.pending = y] \in UserRow
            /\ [row EXCEPT !.totp = x, !.pending = y].hash = row.hash
      BY <3>2 DEF UserRow
    <3>4. \E a \in UserRow :
            /\ a.hash = req[p].row.hash
            /\ users' = [users EXCEPT ![req[p].user] = FlushUser(@, req[p].row, a)]
      <4>1. CASE CommitTotpSetup(p)
        BY <3>2, <3>3, <4>1 DEF CommitTotpSetup
      <4>2. CASE CommitTotpConfirm(p)
        BY <3>2, <3>3, <4>2 DEF CommitTotpConfirm
      <4>3. CASE CommitTotpDisable(p)
        BY <3>2, <3>3, <4>3 DEF CommitTotpDisable
      <4> QED BY <2>2, <4>1, <4>2, <4>3
    <3>5. PICK a \in UserRow :
            /\ a.hash = req[p].row.hash
            /\ users' = [users EXCEPT ![req[p].user] = FlushUser(@, req[p].row, a)]
      BY <3>4
    <3>6. users'[u] = FlushUser(users[u], req[p].row, a)
      BY <3>2, <3>5, FlushedUser
    <3> QED BY <3>5, <3>6, FlushedPassword
  <2> QED BY <1>4, <2>1, <2>2 DEF Totp
<1> HIDE DEF Goal
<1>5. Goal
  BY <1>1, <1>2, <1>3, <1>4
     DEF SystemNext, Login, BeginLogin, Refresh, BeginRefresh, CommitReuse, CommitExpired,
         CommitRotation, Logout, BeginFamilyRevoke, CommitFamilyRevoke, BeginLogoutAll,
         CommitLogoutAll, BeginBrowserLogout, CommitBrowserLogout, Crash, Tick, vars
<1> QED BY <1>5 DEF Goal

(* An account endpoint changes the password of a registered account only   *)
(* by a reset, to the password chosen there.                               *)
LEMMA AccountPasswords ==
    ASSUME AccountTypeOK, NEW p \in Procs, Account(p), NEW u \in registered,
           users'[u].hash.password # users[u].hash.password
    PROVE  /\ CommitReset(p)
           /\ req[p].user = u
           /\ users'[u].hash.password = req[p].password
<1>0. TypeOK /\ u \in Users
  BY DEF AccountTypeOK
<1>1. CASE CommitReset(p)
  <2> DEFINE r == req[p]
             row == [FlushUser(users[r.user], r.row, AfterReset(r))
                        EXCEPT !.hash = FreshHash(r.password)]
  <2>1. r.user \in Users
    BY <1>0, <1>1, RequestKinds DEF TypeOK, CommitReset, Serving, ResetRequest
  <2>2. row.hash.password = r.password
    BY DEF FlushUser, FreshHash
  <2>3. users' = [users EXCEPT ![r.user] = row]
    BY <1>0, <1>1, <2>1 DEF CommitReset, TypeOK
  <2> HIDE DEF row
  <2> QED BY <1>0, <1>1, <2>1, <2>2, <2>3 DEF TypeOK
<1>2. CASE CommitRegister(p)
  <2>1. users'[u] = users[u]
    BY <1>0, <1>2 DEF CommitRegister, TypeOK
  <2> QED BY <2>1
<1> QED BY <1>1, <1>2 DEF Account, BeginRegister, BeginResend, BeginForgot, CommitIssue,
                          BeginVerify, CommitVerify, BeginReset

LEMMA PasswordStep ==
    ASSUME AccountInv, [AccountNext]_vars, NEW u \in registered,
           users'[u].hash.password # users[u].hash.password
    PROVE  \E p \in Procs :
              /\ \/ CommitReset(p)
                 \/ CommitLoginSuccess(p) /\ req[p].row.hash.stale
              /\ req[p].user = u
              /\ users'[u].hash.password = req[p].password
<1>1. AccountTypeOK /\ TypeOK /\ u \in Users
  BY DEF AccountInv, AccountTypeOK
<1>2. CASE [SystemNext]_vars
  BY <1>1, <1>2, SystemPasswords
<1>3. ASSUME NEW p \in Procs, Account(p)
      PROVE  /\ CommitReset(p) /\ req[p].user = u
             /\ users'[u].hash.password = req[p].password
  BY <1>1, <1>3, AccountPasswords
<1> QED BY <1>2, <1>3 DEF AccountNext

(* The password of an account is the one it was registered with, the one   *)
(* of its last reset, or the one that a sign-in read together with an      *)
(* outdated hash; nothing else brings a password into force.               *)
THEOREM PasswordsByResetOrRenewal == AccountSpec => PasswordHistory
<1>1. AccountInv /\ [AccountNext]_vars =>
        [\A u \in registered :
            users'[u].hash.password # users[u].hash.password =>
              \E p \in Procs :
                  /\ \/ CommitReset(p)
                     \/ CommitLoginSuccess(p) /\ req[p].row.hash.stale
                  /\ req[p].user = u
                  /\ users'[u].hash.password = req[p].password]_vars
  BY PasswordStep
<1> QED BY <1>1, AccountInvariant, PTL DEF AccountSpec, PasswordHistory
=============================================================================
