--------------------------- MODULE AuthSystemProofs ---------------------------
(***************************************************************************)
(* What TLAPS proves about AuthSystem for every set of accounts, rows,     *)
(* families and workers, and any bounds.                                   *)
(***************************************************************************)
EXTENDS AuthSystem, TLAPS

-----------------------------------------------------------------------------
(* Data.                                                                   *)

(* The endpoint of a request determines the shape of its record. *)
LEMMA RequestKinds ==
    ASSUME NEW r \in Request
    PROVE  /\ r.op \in {"login", "admin_login"} => r \in LoginRequest
           /\ r.op = "refresh" => r \in RefreshRequest
           /\ r.op \in {"logout", "user_revoked", "admin_role_rejected",
                        "web_logout", "admin_logout"} => r \in FamilyRequest
           /\ r.op = "logout_all" => r \in AccountRequest
           /\ r.op \in TotpEndpoints => r \in TotpRequest
           /\ r.op = "register" => r \in RegisterRequest
           /\ r.op = "issue" => r \in IssueRequest
           /\ r.op = "email_verify" => r \in VerifyRequest
           /\ r.op = "password_reset" => r \in ResetRequest
  BY DEF Request, LoginRequest, RefreshRequest, FamilyRequest, AccountRequest,
         TotpRequest, TotpEndpoints, RegisterRequest, IssueRequest, VerifyRequest,
         ResetRequest

(* A flush of well-typed rows is a well-typed row, in the role of before. *)
LEMMA FlushType ==
    ASSUME NEW c \in UserRow, NEW l \in UserRow, NEW a \in UserRow
    PROVE  FlushUser(c, l, a) \in UserRow
  BY DEF FlushUser, Column, UserRow

LEMMA RowAssignments ==
    ASSUME NEW row \in UserRow, NEW n \in Nat, NEW t \in Nat
    PROVE  /\ [row EXCEPT !.fails = n] \in UserRow
           /\ [row EXCEPT !.fails = n, !.lockedUntil = t, !.status = "locked"] \in UserRow
<1>1. [row EXCEPT !.fails = n] \in UserRow
  BY DEF UserRow
<1>2. [row EXCEPT !.fails = n, !.lockedUntil = t] \in UserRow
  BY DEF UserRow
<1>3. [row EXCEPT !.fails = n, !.lockedUntil = t, !.status = "locked"] \in UserRow
  BY DEF UserRow
<1> QED BY <1>1, <1>3

LEMMA AfterFailureType ==
    ASSUME NEW r \in LoginRequest
    PROVE  AfterFailure(r) \in UserRow
<1>1. r.row \in UserRow /\ r.at \in Nat
  BY DEF LoginRequest, Time
<1>2. r.row.fails + 1 \in Nat
  BY <1>1 DEF UserRow
<1>3. r.at + LockTtl \in Nat
  BY <1>1, ConstantsAssumption DEF ConstantsAssumption
<1> QED BY <1>1, <1>2, <1>3, RowAssignments DEF AfterFailure

LEMMA RowRenewal ==
    ASSUME NEW row \in UserRow
    PROVE  [row EXCEPT !.status = IF @ = "locked" THEN "active" ELSE @,
                       !.fails = 0, !.lockedUntil = None, !.hash.stale = FALSE] \in UserRow
<1>1. [row EXCEPT !.status = IF @ = "locked" THEN "active" ELSE @] \in UserRow
  BY DEF UserRow
<1>2. \A x \in UserRow : [x EXCEPT !.fails = 0] \in UserRow
  BY DEF UserRow
<1>3. \A x \in UserRow : [x EXCEPT !.lockedUntil = None] \in UserRow
  BY DEF UserRow
<1>4. \A x \in UserRow : [x EXCEPT !.hash.stale = FALSE] \in UserRow
  BY DEF UserRow, Hash
<1> QED BY <1>1, <1>2, <1>3, <1>4

LEMMA AfterSuccessType ==
    ASSUME NEW r \in LoginRequest
    PROVE  AfterSuccess(r) \in UserRow
<1>1. r.row \in UserRow
  BY DEF LoginRequest
<1> QED BY <1>1, RowRenewal DEF AfterSuccess

LEMMA RevokeType ==
    ASSUME TypeOK, NEW rows, NEW reason \in RevokeReasons
    PROVE  /\ DOMAIN Revoke(rows, reason) = DOMAIN sessions
           /\ Revoke(rows, reason) \in [DOMAIN sessions -> SessionRow]
<1>1. \A row \in SessionRow : [row EXCEPT !.revoked = reason] \in SessionRow
  BY DEF SessionRow
<1> QED BY <1>1 DEF Revoke, TypeOK

LEMMA InsertType ==
    ASSUME NEW D, NEW table \in [D -> SessionRow], NEW id, NEW row \in SessionRow
    PROVE  /\ DOMAIN Insert(table, id, row) = D \cup {id}
           /\ Insert(table, id, row) \in [D \cup {id} -> SessionRow]
  BY DEF Insert

(* What a worker's bookkeeping does to the requests in flight. *)
LEMMA FinishType ==
    ASSUME TypeOK, NEW p \in Procs, Finish(p), DOMAIN sessions \subseteq DOMAIN sessions'
    PROVE  /\ req' \in [Procs -> Request \cup {None}]
           /\ \A q \in Procs : req'[q] # None /\ req'[q].op = "refresh"
                                   => req'[q].sid \in DOMAIN sessions'
  BY DEF TypeOK, Finish

LEMMA StartType ==
    ASSUME TypeOK, NEW p \in Procs, NEW r \in Request, Start(p, r),
           r.op = "refresh" => r.sid \in DOMAIN sessions',
           DOMAIN sessions \subseteq DOMAIN sessions'
    PROVE  /\ req' \in [Procs -> Request \cup {None}]
           /\ \A q \in Procs : req'[q] # None /\ req'[q].op = "refresh"
                                   => req'[q].sid \in DOMAIN sessions'
  BY DEF TypeOK, Start

LEMMA FlushesUser ==
    ASSUME TypeOK, NEW u \in Users, NEW l \in UserRow, NEW a \in UserRow,
           users' = [users EXCEPT ![u] = FlushUser(@, l, a)]
    PROVE  users' \in [Users -> UserRow]
<1>1. FlushUser(users[u], l, a) \in UserRow
  BY FlushType DEF TypeOK
<1> QED BY <1>1 DEF TypeOK

LEMMA AuditType ==
    ASSUME TypeOK, NEW a \in AuditActions, NEW t \in Users \cup Families,
           audit' = audit \cup {Log(a, t)}
    PROVE  audit' \subseteq AuditEntry
  BY DEF TypeOK, Log, AuditEntry

LEMMA RespondType ==
    ASSUME TypeOK, NEW s \in DOMAIN sessions', NEW m \in BOOLEAN, Respond(s, m),
           DOMAIN sessions \subseteq DOMAIN sessions'
    PROVE  held' \subseteq [sid : DOMAIN sessions', mfa : BOOLEAN]
  BY DEF TypeOK, Respond
-----------------------------------------------------------------------------
(* Type correctness, one lemma per action that writes a table.             *)

LEMMA InitType == Init => TypeOK
<1> SUFFICES ASSUME Init PROVE TypeOK
  OBVIOUS
<1>1. RegisteredRow \subseteq UserRow
  BY DEF RegisteredRow, UserRow
<1>2. users \in [Users -> UserRow]
  BY <1>1, ConstantsAssumption DEF Init, ConstantsAssumption
<1>3. now \in Time
  BY ConstantsAssumption DEF Init, Time, ConstantsAssumption
<1> QED BY <1>2, <1>3 DEF Init, TypeOK

LEMMA BeginLoginType ==
    ASSUME TypeOK, NEW p \in Procs, BeginLogin(p)
    PROVE  TypeOK'
<1>1. PICK e \in Endpoints \cap {"login", "admin_login"}, u \in Users, pw \in Passwords :
          Start(p, [op |-> e, user |-> u, row |-> users[u], password |-> pw, at |-> now])
  BY DEF BeginLogin
<1> DEFINE r == [op |-> e, user |-> u, row |-> users[u], password |-> pw, at |-> now]
<1>2. r \in Request /\ r.op # "refresh"
  BY DEF TypeOK, Request, LoginRequest
<1> HIDE DEF r
<1>3. /\ req' \in [Procs -> Request \cup {None}]
      /\ \A q \in Procs : req'[q] # None /\ req'[q].op = "refresh"
                              => req'[q].sid \in DOMAIN sessions'
  BY <1>1, <1>2, StartType DEF BeginLogin, r
<1> QED BY <1>3 DEF TypeOK, BeginLogin

LEMMA CommitLoginFailureType ==
    ASSUME TypeOK, NEW p \in Procs, CommitLoginFailure(p)
    PROVE  TypeOK'
<1> DEFINE r == req[p]
<1>1. r \in LoginRequest
  BY RequestKinds DEF TypeOK, CommitLoginFailure, Serving
<1>2. r.user \in Users /\ r.row \in UserRow
  BY <1>1 DEF LoginRequest
<1>3. users' = [users EXCEPT ![r.user] = FlushUser(@, r.row, AfterFailure(r))]
  BY DEF CommitLoginFailure
<1>4. audit' = audit \cup {Log("auth.login.failure", r.user)}
  BY DEF CommitLoginFailure
<1>5. AfterFailure(r) \in UserRow
  BY <1>1, AfterFailureType
<1>6. users' \in [Users -> UserRow]
  BY <1>2, <1>3, <1>5, FlushesUser
<1>7. audit' \subseteq AuditEntry
  BY <1>2, <1>4, AuditType DEF AuditActions
<1> QED BY <1>6, <1>7, FinishType DEF CommitLoginFailure, TypeOK

LEMMA CommitLoginSuccessType ==
    ASSUME TypeOK, NEW p \in Procs, CommitLoginSuccess(p)
    PROVE  TypeOK'
<1> DEFINE r == req[p]
<1>1. r \in LoginRequest
  BY RequestKinds DEF TypeOK, CommitLoginSuccess, Serving
<1>2. r.user \in Users /\ r.row \in UserRow /\ r.at \in Nat
  BY <1>1 DEF LoginRequest, Time
<1>3. PICK s \in Sids \ DOMAIN sessions, f \in Families \ UsedFamilies :
        /\ users' = [users EXCEPT ![r.user] = FlushUser(@, r.row, AfterSuccess(r))]
        /\ sessions' = Insert(sessions, s, RootSession(r, f))
        /\ audit' = audit \cup {Log("auth.login", f)}
        /\ \/ /\ Start(p, [op |-> "admin_role_rejected", user |-> r.user, family |-> f])
              /\ UNCHANGED held
           \/ Finish(p) /\ Respond(s, r.row.totp # None)
  BY DEF CommitLoginSuccess
<1>4. users' \in [Users -> UserRow]
  BY <1>1, <1>2, <1>3, AfterSuccessType, FlushesUser
<1>5. RootSession(r, f) \in SessionRow
  <2>1. r.at + RefreshTtl \in Nat
    BY <1>2, ConstantsAssumption DEF ConstantsAssumption
  <2> QED BY <1>2, <2>1 DEF RootSession, SessionRow
<1>6. /\ DOMAIN sessions' = DOMAIN sessions \cup {s}
      /\ sessions' \in [DOMAIN sessions' -> SessionRow]
  <2>1. sessions \in [DOMAIN sessions -> SessionRow]
    BY DEF TypeOK
  <2>2. /\ DOMAIN Insert(sessions, s, RootSession(r, f)) = DOMAIN sessions \cup {s}
        /\ Insert(sessions, s, RootSession(r, f)) \in [DOMAIN sessions \cup {s} -> SessionRow]
    BY <1>5, <2>1, InsertType
  <2> QED BY <1>3, <2>2
<1>7. audit' \subseteq AuditEntry
  BY <1>3, AuditType DEF AuditActions
<1>8. /\ req' \in [Procs -> Request \cup {None}]
      /\ \A q \in Procs : req'[q] # None /\ req'[q].op = "refresh"
                              => req'[q].sid \in DOMAIN sessions'
  <2>1. CASE Finish(p)
    BY <1>6, <2>1, FinishType
  <2>2. CASE Start(p, [op |-> "admin_role_rejected", user |-> r.user, family |-> f])
    <3> DEFINE n == [op |-> "admin_role_rejected", user |-> r.user, family |-> f]
    <3>1. n \in Request /\ n.op # "refresh"
      BY <1>2 DEF Request, FamilyRequest
    <3> QED BY <1>6, <2>2, <3>1, StartType
  <2> QED BY <1>3, <2>1, <2>2
<1>9. held' \subseteq [sid : DOMAIN sessions', mfa : BOOLEAN]
  <2>1. CASE Respond(s, r.row.totp # None)
    <3>1. (r.row.totp # None) \in BOOLEAN
      OBVIOUS
    <3> QED BY <1>6, <2>1, <3>1, RespondType
  <2>2. CASE UNCHANGED held
    BY <1>6, <2>2 DEF TypeOK
  <2> QED BY <1>3, <2>1, <2>2
<1>10. DOMAIN sessions' \subseteq Sids /\ now' \in Time
  BY <1>6 DEF TypeOK, CommitLoginSuccess
<1> QED BY <1>4, <1>6, <1>7, <1>8, <1>9, <1>10 DEF TypeOK

LEMMA BeginRefreshType ==
    ASSUME TypeOK, NEW p \in Procs, BeginRefresh(p)
    PROVE  TypeOK'
<1>1. PICK t \in held :
          Start(p, [op |-> "refresh", sid |-> t.sid, row |-> sessions[t.sid], at |-> now])
  BY DEF BeginRefresh
<1> DEFINE r == [op |-> "refresh", sid |-> t.sid, row |-> sessions[t.sid], at |-> now]
<1>2. t.sid \in DOMAIN sessions
  BY DEF TypeOK
<1>3. r \in Request /\ r.sid \in DOMAIN sessions
  BY <1>2 DEF TypeOK, Request, RefreshRequest
<1>4. /\ req' \in [Procs -> Request \cup {None}]
      /\ \A q \in Procs : req'[q] # None /\ req'[q].op = "refresh"
                              => req'[q].sid \in DOMAIN sessions'
  <2> HIDE DEF r
  <2> QED BY <1>1, <1>3, StartType DEF BeginRefresh, r
<1> QED BY <1>4 DEF TypeOK, BeginRefresh

(* The four bulk revocations share a shape. *)
LEMMA RevokingStepType ==
    ASSUME TypeOK, NEW p \in Procs, NEW rows, NEW reason \in RevokeReasons,
           NEW a \in AuditActions, NEW t \in Users \cup Families,
           sessions' = Revoke(rows, reason), audit' = audit \cup {Log(a, t)},
           Finish(p), UNCHANGED <<users, held, now>>
    PROVE  TypeOK'
<1>1. /\ DOMAIN sessions' = DOMAIN sessions
      /\ sessions' \in [DOMAIN sessions' -> SessionRow]
  BY RevokeType
<1>2. audit' \subseteq AuditEntry
  BY AuditType
<1> QED BY <1>1, <1>2, FinishType DEF TypeOK

LEMMA CommitReuseType ==
    ASSUME TypeOK, NEW p \in Procs, CommitReuse(p)
    PROVE  TypeOK'
<1>1. req[p] \in RefreshRequest
  BY RequestKinds DEF TypeOK, CommitReuse, Serving
<1>2. req[p].row.family \in Families
  BY <1>1 DEF RefreshRequest, SessionRow
<1>3. sessions' = Revoke(FamilyRows(req[p].row.family), "refresh_token_reuse")
  BY DEF CommitReuse
<1>4. audit' = audit \cup {Log("auth.refresh_reuse_detected", req[p].row.family)}
  BY DEF CommitReuse
<1>5. "refresh_token_reuse" \in RevokeReasons /\ "auth.refresh_reuse_detected" \in AuditActions
  BY DEF RevokeReasons, AuditActions
<1> QED BY <1>2, <1>3, <1>4, <1>5, RevokingStepType DEF CommitReuse

LEMMA CommitExpiredType ==
    ASSUME TypeOK, NEW p \in Procs, CommitExpired(p)
    PROVE  TypeOK'
<1>1. req[p].sid \in DOMAIN sessions
  BY DEF TypeOK, CommitExpired, Serving
<1>2. [sessions[req[p].sid] EXCEPT !.revoked = "expired"] \in SessionRow
  BY <1>1 DEF TypeOK, SessionRow, RevokeReasons
<1>3. /\ DOMAIN sessions' = DOMAIN sessions
      /\ sessions' \in [DOMAIN sessions' -> SessionRow]
  BY <1>1, <1>2 DEF TypeOK, CommitExpired
<1> QED BY <1>3, FinishType DEF CommitExpired, TypeOK

LEMMA CommitRotationType ==
    ASSUME TypeOK, NEW p \in Procs, CommitRotation(p)
    PROVE  TypeOK'
<1> DEFINE r == req[p]
           old == [sessions EXCEPT ![r.sid].revoked = "rotated"]
<1>1. PICK s \in Sids \ DOMAIN sessions :
        /\ sessions' = Insert(old, s, Successor(r))
        /\ audit' = audit \cup {Log("auth.refresh", r.row.family)}
        /\ Respond(s, r.row.mfa)
  BY DEF CommitRotation
<1>2. r \in RefreshRequest /\ r.sid \in DOMAIN sessions
  BY RequestKinds DEF TypeOK, CommitRotation, Serving
<1>3. r.row \in SessionRow /\ r.at \in Nat /\ r.sid \in Sids
  BY <1>2 DEF RefreshRequest, Time
<1>4. old \in [DOMAIN sessions -> SessionRow]
  <2>1. [sessions[r.sid] EXCEPT !.revoked = "rotated"] \in SessionRow
    BY <1>2 DEF TypeOK, SessionRow, RevokeReasons
  <2> QED BY <1>2, <2>1 DEF TypeOK
<1>5. Successor(r) \in SessionRow
  <2>1. r.at + RefreshTtl \in Nat
    BY <1>3, ConstantsAssumption DEF ConstantsAssumption
  <2> QED BY <1>3, <2>1 DEF Successor, SessionRow
<1> HIDE DEF old
<1>6. /\ DOMAIN sessions' = DOMAIN sessions \cup {s}
      /\ sessions' \in [DOMAIN sessions' -> SessionRow]
  <2>1. /\ DOMAIN Insert(old, s, Successor(r)) = DOMAIN sessions \cup {s}
        /\ Insert(old, s, Successor(r)) \in [DOMAIN sessions \cup {s} -> SessionRow]
    BY <1>4, <1>5, InsertType
  <2> QED BY <1>1, <2>1
<1>7. audit' \subseteq AuditEntry
  <2>1. r.row.family \in Families
    BY <1>3 DEF SessionRow
  <2> QED BY <1>1, <2>1, AuditType DEF AuditActions
<1>8. held' \subseteq [sid : DOMAIN sessions', mfa : BOOLEAN]
  <2>1. r.row.mfa \in BOOLEAN
    BY <1>3 DEF SessionRow
  <2> QED BY <1>1, <1>6, <2>1, RespondType
<1>9. DOMAIN sessions' \subseteq Sids
  BY <1>6 DEF TypeOK
<1>10. /\ req' \in [Procs -> Request \cup {None}]
       /\ \A q \in Procs : req'[q] # None /\ req'[q].op = "refresh"
                               => req'[q].sid \in DOMAIN sessions'
  BY <1>6, FinishType DEF CommitRotation
<1> QED BY <1>6, <1>7, <1>8, <1>9, <1>10 DEF TypeOK, CommitRotation

LEMMA BeginLogoutType ==
    ASSUME TypeOK, NEW p \in Procs,
           BeginFamilyRevoke(p) \/ BeginLogoutAll(p) \/ BeginBrowserLogout(p)
    PROVE  TypeOK'
<1>1. \A t \in held : t.sid \in DOMAIN sessions /\ sessions[t.sid] \in SessionRow
  BY DEF TypeOK
<1>2. UsedFamilies \subseteq Families
  BY DEF TypeOK, UsedFamilies, SessionRow
<1>3. \E r \in Request : Start(p, r) /\ r.op # "refresh"
  <2>1. CASE BeginFamilyRevoke(p)
    <3>1. PICK e \in {"logout", "user_revoked"}, t \in held, f \in UsedFamilies :
            Start(p, [op |-> e, user |-> sessions[t.sid].user, family |-> f])
      BY <2>1 DEF BeginFamilyRevoke
    <3>2. [op |-> e, user |-> sessions[t.sid].user, family |-> f] \in Request
      BY <1>1, <1>2 DEF Request, FamilyRequest, SessionRow
    <3> QED BY <3>1, <3>2
  <2>2. CASE BeginLogoutAll(p)
    <3>1. PICK t \in held : Start(p, [op |-> "logout_all", user |-> sessions[t.sid].user])
      BY <2>2 DEF BeginLogoutAll
    <3>2. [op |-> "logout_all", user |-> sessions[t.sid].user] \in Request
      BY <1>1 DEF Request, AccountRequest, SessionRow
    <3> QED BY <3>1, <3>2
  <2>3. CASE BeginBrowserLogout(p)
    <3>1. PICK e \in {"web_logout", "admin_logout"}, t \in held :
            Start(p, [op |-> e, user |-> sessions[t.sid].user,
                      family |-> sessions[t.sid].family])
      BY <2>3 DEF BeginBrowserLogout
    <3>2. [op |-> e, user |-> sessions[t.sid].user, family |-> sessions[t.sid].family]
            \in Request
      BY <1>1 DEF Request, FamilyRequest, SessionRow
    <3> QED BY <3>1, <3>2
  <2> QED BY <2>1, <2>2, <2>3
<1>4. UNCHANGED <<users, sessions, audit, held, now>>
  BY DEF BeginFamilyRevoke, BeginLogoutAll, BeginBrowserLogout
<1>5. /\ req' \in [Procs -> Request \cup {None}]
      /\ \A q \in Procs : req'[q] # None /\ req'[q].op = "refresh"
                              => req'[q].sid \in DOMAIN sessions'
  BY <1>3, <1>4, StartType
<1> QED BY <1>4, <1>5 DEF TypeOK

LEMMA CommitLogoutType ==
    ASSUME TypeOK, NEW p \in Procs,
           CommitFamilyRevoke(p) \/ CommitLogoutAll(p) \/ CommitBrowserLogout(p)
    PROVE  TypeOK'
<1>1. CASE CommitFamilyRevoke(p)
  <2>1. req[p] \in FamilyRequest /\ req[p].op \in {"logout", "user_revoked", "admin_role_rejected"}
    BY <1>1, RequestKinds DEF TypeOK, CommitFamilyRevoke, Serving
  <2>2. req[p].op \in RevokeReasons /\ req[p].family \in Families
    BY <2>1 DEF RevokeReasons, FamilyRequest
  <2>3. CASE UNCHANGED <<sessions, audit>>
    BY <1>1, <2>3, FinishType DEF CommitFamilyRevoke, TypeOK
  <2>4. CASE /\ sessions' = Revoke(Revocable(req[p]), req[p].op)
             /\ audit' = audit \cup {Log("auth.session_revoke", req[p].family)}
    <3>1. "auth.session_revoke" \in AuditActions
      BY DEF AuditActions
    <3> QED BY <1>1, <2>2, <2>4, <3>1, RevokingStepType DEF CommitFamilyRevoke
  <2> QED BY <1>1, <2>3, <2>4 DEF CommitFamilyRevoke
<1>2. CASE CommitLogoutAll(p)
  <2>1. req[p].user \in Users
    BY <1>2, RequestKinds DEF TypeOK, CommitLogoutAll, Serving, AccountRequest
  <2>2. "logout_all" \in RevokeReasons /\ "auth.logout_all" \in AuditActions
    BY DEF RevokeReasons, AuditActions
  <2> QED BY <1>2, <2>1, <2>2, RevokingStepType DEF CommitLogoutAll
<1>3. CASE CommitBrowserLogout(p)
  <2>1. req[p] \in FamilyRequest /\ req[p].op \in {"web_logout", "admin_logout"}
    BY <1>3, RequestKinds DEF TypeOK, CommitBrowserLogout, Serving
  <2>2. req[p].op \in RevokeReasons /\ req[p].family \in Families
    BY <2>1 DEF RevokeReasons, FamilyRequest
  <2>3. "auth.browser_logout" \in AuditActions
    BY DEF AuditActions
  <2> QED BY <1>3, <2>2, <2>3, RevokingStepType DEF CommitBrowserLogout
<1> QED BY <1>1, <1>2, <1>3

LEMMA StartTotpType ==
    ASSUME TypeOK, NEW p \in Procs, NEW op \in TotpEndpoints, NEW t \in held,
           NEW secret \in Secrets \cup {None}, StartTotp(p, op, t, secret)
    PROVE  TypeOK'
<1> DEFINE user == sessions[t.sid].user
           r == [op |-> op, user |-> user, row |-> users[user],
                 family |-> sessions[t.sid].family, secret |-> secret]
<1>1. sessions[t.sid] \in SessionRow
  BY DEF TypeOK
<1>2. r \in Request /\ r.op # "refresh"
  BY <1>1 DEF TypeOK, Request, TotpRequest, TotpEndpoints, SessionRow
<1>3. Start(p, r) /\ UNCHANGED <<users, sessions, audit, held, now>>
  BY DEF StartTotp
<1> HIDE DEF r
<1>4. /\ req' \in [Procs -> Request \cup {None}]
      /\ \A q \in Procs : req'[q] # None /\ req'[q].op = "refresh"
                              => req'[q].sid \in DOMAIN sessions'
  BY <1>2, <1>3, StartType
<1> QED BY <1>3, <1>4 DEF TypeOK

LEMMA CommitTotpType ==
    ASSUME TypeOK, NEW p \in Procs,
           CommitTotpSetup(p) \/ CommitTotpConfirm(p) \/ CommitTotpDisable(p)
    PROVE  TypeOK'
<1> DEFINE r == req[p]
<1>1. r \in TotpRequest
  BY RequestKinds DEF TypeOK, CommitTotpSetup, CommitTotpConfirm, CommitTotpDisable,
                      Serving, TotpEndpoints
<1>2. r.user \in Users /\ r.row \in UserRow /\ r.secret \in Secrets \cup {None}
  BY <1>1 DEF TotpRequest
<1>3. \A row \in UserRow, x \in Secrets \cup {None} :
        [row EXCEPT !.pending = x] \in UserRow /\ [row EXCEPT !.totp = x] \in UserRow
  BY DEF UserRow
<1>4. \A row \in UserRow, x \in Secrets \cup {None} :
        [row EXCEPT !.totp = x, !.pending = None] \in UserRow
  BY <1>3 DEF UserRow
<1>5. \A a \in UserRow : users' = [users EXCEPT ![r.user] = FlushUser(@, r.row, a)]
                            => users' \in [Users -> UserRow]
  BY <1>2, FlushesUser
<1>6. users' \in [Users -> UserRow]
  <2>1. CASE CommitTotpSetup(p)
    BY <1>2, <1>3, <1>5, <2>1 DEF CommitTotpSetup
  <2>2. CASE CommitTotpConfirm(p)
    BY <1>2, <1>4, <1>5, <2>2 DEF CommitTotpConfirm
  <2>3. CASE CommitTotpDisable(p)
    BY <1>2, <1>4, <1>5, <2>3 DEF CommitTotpDisable
  <2> QED BY <2>1, <2>2, <2>3
<1>7. audit' \subseteq AuditEntry
  BY <1>2, AuditType DEF CommitTotpSetup, CommitTotpConfirm, CommitTotpDisable, AuditActions
<1>8. /\ DOMAIN sessions' = DOMAIN sessions
      /\ sessions' \in [DOMAIN sessions' -> SessionRow]
  <2>1. \A row \in SessionRow : [row EXCEPT !.mfa = TRUE] \in SessionRow
    BY DEF SessionRow
  <2>2. CASE CommitTotpConfirm(p)
    BY <2>1, <2>2 DEF TypeOK, CommitTotpConfirm
  <2> QED BY <2>2 DEF TypeOK, CommitTotpSetup, CommitTotpDisable
<1>9. Finish(p) /\ UNCHANGED <<held, now>>
  BY DEF CommitTotpSetup, CommitTotpConfirm, CommitTotpDisable
<1> QED BY <1>6, <1>7, <1>8, <1>9, FinishType DEF TypeOK

(* The state is always well-typed: in particular a refresh in flight and a *)
(* token in a client's hands always have their row in the table.           *)
LEMMA TypeStep == TypeOK /\ [SystemNext]_vars => TypeOK'
<1> SUFFICES ASSUME TypeOK, [SystemNext]_vars PROVE TypeOK'
  OBVIOUS
<1>1. ASSUME NEW p \in Procs, Login(p) PROVE TypeOK'
  BY <1>1, BeginLoginType, CommitLoginFailureType, CommitLoginSuccessType DEF Login
<1>2. ASSUME NEW p \in Procs, Refresh(p) PROVE TypeOK'
  BY <1>2, BeginRefreshType, CommitReuseType, CommitExpiredType, CommitRotationType DEF Refresh
<1>3. ASSUME NEW p \in Procs, Logout(p) PROVE TypeOK'
  BY <1>3, BeginLogoutType, CommitLogoutType DEF Logout
<1>4. ASSUME NEW p \in Procs, Totp(p) PROVE TypeOK'
  <2>1. CASE BeginTotpSetup(p)
    BY <2>1, StartTotpType DEF BeginTotpSetup, TotpEndpoints
  <2>2. CASE BeginTotpConfirm(p)
    <3>1. PICK t \in held :
            StartTotp(p, "totp_confirm", t, users[sessions[t.sid].user].pending)
      BY <2>2 DEF BeginTotpConfirm
    <3>2. users[sessions[t.sid].user].pending \in Secrets \cup {None}
      BY DEF TypeOK, SessionRow, UserRow
    <3> QED BY <3>1, <3>2, StartTotpType DEF TotpEndpoints
  <2>3. CASE BeginTotpDisable(p)
    BY <2>3, StartTotpType DEF BeginTotpDisable, TotpEndpoints
  <2> QED BY <1>4, <2>1, <2>2, <2>3, CommitTotpType DEF Totp
<1>5. ASSUME NEW p \in Procs, Crash(p) PROVE TypeOK'
  BY <1>5, FinishType DEF Crash, TypeOK
<1>6. CASE Tick
  BY <1>6, ConstantsAssumption DEF Tick, TypeOK, Time, ConstantsAssumption
<1>7. CASE UNCHANGED vars
  BY <1>7 DEF vars, TypeOK
<1> QED BY <1>1, <1>2, <1>3, <1>4, <1>5, <1>6, <1>7 DEF SystemNext

(* Type correctness of the session and TOTP endpoints together.            *)
THEOREM SystemTypeOK == SystemSpec => []TypeOK
<1> QED BY InitType, TypeStep, PTL DEF SystemSpec
-----------------------------------------------------------------------------
(* What no step ever does to the tables.                                   *)

(* A row keeps its identity, its place in the family and its term, and a   *)
(* revoked row stays revoked.                                              *)
RowKept(s) ==
    /\ s \in DOMAIN sessions'
    /\ sessions'[s].user = sessions[s].user
    /\ sessions'[s].family = sessions[s].family
    /\ sessions'[s].parent = sessions[s].parent
    /\ sessions'[s].expires = sessions[s].expires
    /\ sessions[s].revoked # None => sessions'[s].revoked # None

LEMMA RevokeKeeps ==
    ASSUME TypeOK, NEW rows, NEW reason \in RevokeReasons,
           sessions' = Revoke(rows, reason), NEW s \in DOMAIN sessions
    PROVE  RowKept(s) /\ DOMAIN sessions' = DOMAIN sessions
<1>1. \A row \in SessionRow :
        LET revoked == [row EXCEPT !.revoked = reason] IN
        /\ revoked.user = row.user /\ revoked.family = row.family
        /\ revoked.parent = row.parent /\ revoked.expires = row.expires
        /\ revoked.revoked # None
  BY NoneAssumption DEF SessionRow, NoneAssumption
<1>2. sessions[s] \in SessionRow
  BY DEF TypeOK
<1> QED BY <1>1, <1>2 DEF Revoke, RowKept

(* Steps other than a sign-in and a rotation add no row. *)
AddsRows(p) == CommitLoginSuccess(p) \/ CommitRotation(p)

LEMMA RowsKeptInPlace ==
    ASSUME TypeOK, [SystemNext]_vars, \A p \in Procs : ~AddsRows(p)
    PROVE  /\ DOMAIN sessions' = DOMAIN sessions
           /\ \A s \in DOMAIN sessions : RowKept(s)
<1> DEFINE Goal == /\ DOMAIN sessions' = DOMAIN sessions
                   /\ \A s \in DOMAIN sessions : RowKept(s)
<1>1. ASSUME UNCHANGED sessions PROVE Goal
  BY <1>1 DEF RowKept
<1>2. ASSUME NEW rows, NEW reason \in RevokeReasons, sessions' = Revoke(rows, reason)
      PROVE  Goal
  BY <1>2, RevokeKeeps DEF Revoke
<1>3. ASSUME NEW p \in Procs, CommitExpired(p) PROVE Goal
  <2>1. req[p].sid \in DOMAIN sessions
    BY <1>3 DEF TypeOK, CommitExpired, Serving
  <2>2. sessions[req[p].sid] \in SessionRow
    BY <2>1 DEF TypeOK
  <2>3. sessions' = [sessions EXCEPT ![req[p].sid].revoked = "expired"]
    BY <1>3 DEF CommitExpired
  <2>4. "expired" # None
    BY NoneAssumption DEF NoneAssumption, RevokeReasons
  <2> QED BY <2>1, <2>2, <2>3, <2>4 DEF RowKept, SessionRow, TypeOK
<1>4. ASSUME NEW p \in Procs, CommitTotpConfirm(p) PROVE Goal
  <2>1. \A row \in SessionRow :
          LET confirmed == [row EXCEPT !.mfa = TRUE] IN
          /\ confirmed.user = row.user /\ confirmed.family = row.family
          /\ confirmed.parent = row.parent /\ confirmed.expires = row.expires
          /\ confirmed.revoked = row.revoked
    BY DEF SessionRow
  <2>2. DOMAIN sessions' = DOMAIN sessions
    BY <1>4 DEF CommitTotpConfirm
  <2>3. ASSUME NEW s \in DOMAIN sessions PROVE RowKept(s)
    <3>1. sessions[s] \in SessionRow
      BY DEF TypeOK
    <3>2. sessions'[s] \in {sessions[s], [sessions[s] EXCEPT !.mfa = TRUE]}
      BY <1>4 DEF CommitTotpConfirm
    <3> QED BY <2>1, <2>2, <3>1, <3>2 DEF RowKept
  <2> QED BY <2>2, <2>3
<1>5. ASSUME NEW p \in Procs, CommitReuse(p) PROVE Goal
  BY <1>2, <1>5 DEF CommitReuse, RevokeReasons
<1>6. ASSUME NEW p \in Procs, CommitFamilyRevoke(p) PROVE Goal
  <2>1. req[p].op \in RevokeReasons
    BY <1>6 DEF CommitFamilyRevoke, Serving, RevokeReasons
  <2> QED BY <1>1, <1>2, <1>6, <2>1 DEF CommitFamilyRevoke
<1>7. ASSUME NEW p \in Procs, CommitLogoutAll(p) PROVE Goal
  BY <1>2, <1>7 DEF CommitLogoutAll, RevokeReasons
<1>8. ASSUME NEW p \in Procs, CommitBrowserLogout(p) PROVE Goal
  <2>1. req[p].op \in RevokeReasons
    BY <1>8 DEF CommitBrowserLogout, Serving, RevokeReasons
  <2> QED BY <1>2, <1>8, <2>1 DEF CommitBrowserLogout
<1>9. ASSUME NEW p \in Procs, Login(p) PROVE Goal
  BY <1>1, <1>9 DEF Login, BeginLogin, CommitLoginFailure, AddsRows
<1>10. ASSUME NEW p \in Procs, Refresh(p) PROVE Goal
  BY <1>1, <1>3, <1>5, <1>10 DEF Refresh, BeginRefresh, AddsRows
<1>11. ASSUME NEW p \in Procs, Logout(p) PROVE Goal
  BY <1>1, <1>6, <1>7, <1>8, <1>11
     DEF Logout, BeginFamilyRevoke, BeginLogoutAll, BeginBrowserLogout
<1>12. ASSUME NEW p \in Procs, Totp(p) PROVE Goal
  BY <1>1, <1>4, <1>12 DEF Totp, BeginTotpSetup, BeginTotpConfirm, BeginTotpDisable, StartTotp,
                           CommitTotpSetup, CommitTotpDisable
<1>13. ASSUME NEW p \in Procs, Crash(p) PROVE Goal
  BY <1>1, <1>13 DEF Crash
<1>14. ASSUME Tick PROVE Goal
  BY <1>1, <1>14 DEF Tick
<1>15. ASSUME UNCHANGED vars PROVE Goal
  BY <1>1, <1>15 DEF vars
<1> HIDE DEF Goal
<1>16. Goal
  BY <1>9, <1>10, <1>11, <1>12, <1>13, <1>14, <1>15 DEF SystemNext
<1> QED BY <1>16 DEF Goal
-----------------------------------------------------------------------------
(* Refreshes in flight.                                                    *)

(* The snapshot of a refresh in flight agrees with the table on what never *)
(* changes; its other columns may be out of date.                          *)
SnapshotInv ==
    \A p \in Procs : Serving(p, {"refresh"}) =>
        /\ req[p].sid \in DOMAIN sessions
        /\ req[p].row.user = sessions[req[p].sid].user
        /\ req[p].row.family = sessions[req[p].sid].family
        /\ req[p].row.expires = sessions[req[p].sid].expires

Refreshing(t) == [op |-> "refresh", sid |-> t.sid, row |-> sessions[t.sid], at |-> now]

(* A refresh is in flight only since its own Begin. *)
LEMMA RefreshOrigin ==
    ASSUME TypeOK, [SystemNext]_vars, NEW q \in Procs, Serving(q, {"refresh"})'
    PROVE  \/ req'[q] = req[q] /\ Serving(q, {"refresh"})
           \/ \E t \in held : UNCHANGED sessions /\ req'[q] = Refreshing(t)
<1> DEFINE Goal == \/ req'[q] = req[q]
                   \/ \E t \in held : UNCHANGED sessions /\ req'[q] = Refreshing(t)
<1>1. ASSUME NEW p \in Procs, Finish(p) PROVE Goal
  BY <1>1 DEF Finish, TypeOK, Serving
<1>2. ASSUME NEW p \in Procs, NEW r, Start(p, r), r.op # "refresh" PROVE Goal
  BY <1>2 DEF Start, TypeOK, Serving
<1>3. ASSUME UNCHANGED req PROVE Goal
  BY <1>3
<1>4. ASSUME NEW p \in Procs, BeginRefresh(p) PROVE Goal
  <2>1. PICK t \in held : Start(p, Refreshing(t))
    BY <1>4 DEF BeginRefresh, Refreshing
  <2> QED BY <1>4, <2>1 DEF BeginRefresh, Start, TypeOK
<1>5. ASSUME NEW p \in Procs, Login(p) PROVE Goal
  <2>1. CASE BeginLogin(p)
    <3>1. PICK e \in {"login", "admin_login"}, u \in Users, pw \in Passwords :
            Start(p, [op |-> e, user |-> u, row |-> users[u], password |-> pw, at |-> now])
      BY <2>1 DEF BeginLogin
    <3>2. [op |-> e, user |-> u, row |-> users[u], password |-> pw, at |-> now].op # "refresh"
      OBVIOUS
    <3> QED BY <1>2, <3>1, <3>2
  <2>2. CASE CommitLoginFailure(p)
    BY <1>1, <2>2 DEF CommitLoginFailure
  <2>3. CASE CommitLoginSuccess(p)
    <3>1. \/ Finish(p)
          \/ \E f \in Families :
               Start(p, [op |-> "admin_role_rejected", user |-> req[p].user, family |-> f])
      BY <2>3 DEF CommitLoginSuccess
    <3>2. \A f \in Families :
            [op |-> "admin_role_rejected", user |-> req[p].user, family |-> f].op # "refresh"
      OBVIOUS
    <3> QED BY <1>1, <1>2, <3>1, <3>2
  <2> QED BY <1>5, <2>1, <2>2, <2>3 DEF Login
<1>6. ASSUME NEW p \in Procs, Refresh(p) PROVE Goal
  BY <1>1, <1>4, <1>6 DEF Refresh, CommitReuse, CommitExpired, CommitRotation
<1>7. ASSUME NEW p \in Procs, Logout(p) PROVE Goal
  <2>1. CASE BeginFamilyRevoke(p)
    <3>1. PICK e \in {"logout", "user_revoked"}, t \in held, f \in UsedFamilies :
            Start(p, [op |-> e, user |-> sessions[t.sid].user, family |-> f])
      BY <2>1 DEF BeginFamilyRevoke
    <3>2. [op |-> e, user |-> sessions[t.sid].user, family |-> f].op # "refresh"
      OBVIOUS
    <3> QED BY <1>2, <3>1, <3>2
  <2>2. CASE BeginLogoutAll(p)
    <3>1. PICK t \in held : Start(p, [op |-> "logout_all", user |-> sessions[t.sid].user])
      BY <2>2 DEF BeginLogoutAll
    <3>2. [op |-> "logout_all", user |-> sessions[t.sid].user].op # "refresh"
      OBVIOUS
    <3> QED BY <1>2, <3>1, <3>2
  <2>3. CASE BeginBrowserLogout(p)
    <3>1. PICK e \in {"web_logout", "admin_logout"}, t \in held :
            Start(p, [op |-> e, user |-> sessions[t.sid].user,
                      family |-> sessions[t.sid].family])
      BY <2>3 DEF BeginBrowserLogout
    <3>2. [op |-> e, user |-> sessions[t.sid].user,
           family |-> sessions[t.sid].family].op # "refresh"
      OBVIOUS
    <3> QED BY <1>2, <3>1, <3>2
  <2>4. CASE CommitFamilyRevoke(p) \/ CommitLogoutAll(p) \/ CommitBrowserLogout(p)
    BY <1>1, <2>4 DEF CommitFamilyRevoke, CommitLogoutAll, CommitBrowserLogout
  <2> QED BY <1>7, <2>1, <2>2, <2>3, <2>4 DEF Logout
<1>8. ASSUME NEW p \in Procs, Totp(p) PROVE Goal
  <2>1. ASSUME NEW op \in TotpEndpoints, NEW t, NEW secret, StartTotp(p, op, t, secret)
        PROVE  Goal
    <3> DEFINE user == sessions[t.sid].user
               r == [op |-> op, user |-> user, row |-> users[user],
                     family |-> sessions[t.sid].family, secret |-> secret]
    <3>1. r.op # "refresh"
      BY DEF TotpEndpoints
    <3>2. Start(p, r)
      BY <2>1 DEF StartTotp
    <3> QED BY <1>2, <3>1, <3>2
  <2>2. CASE BeginTotpSetup(p) \/ BeginTotpConfirm(p) \/ BeginTotpDisable(p)
    BY <2>1, <2>2 DEF BeginTotpSetup, BeginTotpConfirm, BeginTotpDisable, TotpEndpoints
  <2>3. CASE CommitTotpSetup(p) \/ CommitTotpConfirm(p) \/ CommitTotpDisable(p)
    BY <1>1, <2>3 DEF CommitTotpSetup, CommitTotpConfirm, CommitTotpDisable
  <2> QED BY <1>8, <2>2, <2>3 DEF Totp
<1>9. ASSUME NEW p \in Procs, Crash(p) PROVE Goal
  BY <1>1, <1>9 DEF Crash
<1>10. ASSUME Tick PROVE Goal
  BY <1>3, <1>10 DEF Tick
<1>11. ASSUME UNCHANGED vars PROVE Goal
  BY <1>3, <1>11 DEF vars
<1>12. Goal
  <2> HIDE DEF Goal
  <2> QED BY <1>5, <1>6, <1>7, <1>8, <1>9, <1>10, <1>11 DEF SystemNext
<1> QED BY <1>12 DEF Serving

(* The two steps that add a row keep every other one. *)
LEMMA SignInEffect ==
    ASSUME TypeOK, NEW p \in Procs, CommitLoginSuccess(p)
    PROVE  \E s \in Sids \ DOMAIN sessions, f \in Families \ UsedFamilies :
              /\ DOMAIN sessions' = DOMAIN sessions \cup {s}
              /\ sessions'[s] = RootSession(req[p], f)
              /\ sessions'[s].family = f /\ sessions'[s].revoked = None
              /\ \A t \in DOMAIN sessions : sessions'[t] = sessions[t]
<1>1. PICK s \in Sids \ DOMAIN sessions, f \in Families \ UsedFamilies :
          sessions' = Insert(sessions, s, RootSession(req[p], f))
  BY DEF CommitLoginSuccess
<1>2. DOMAIN sessions' = DOMAIN sessions \cup {s}
  BY <1>1 DEF Insert
<1>3. sessions'[s] = RootSession(req[p], f)
  BY <1>1 DEF Insert
<1>4. \A t \in DOMAIN sessions : sessions'[t] = sessions[t]
  BY <1>1 DEF Insert
<1> QED BY <1>2, <1>3, <1>4 DEF RootSession

LEMMA RotationEffect ==
    ASSUME TypeOK, NEW p \in Procs, CommitRotation(p)
    PROVE  \E s \in Sids \ DOMAIN sessions :
              /\ DOMAIN sessions' = DOMAIN sessions \cup {s}
              /\ sessions'[s] = Successor(req[p])
              /\ req[p].sid \in DOMAIN sessions
              /\ sessions'[req[p].sid] = [sessions[req[p].sid] EXCEPT !.revoked = "rotated"]
              /\ \A t \in DOMAIN sessions \ {req[p].sid} : sessions'[t] = sessions[t]
<1> DEFINE old == [sessions EXCEPT ![req[p].sid].revoked = "rotated"]
<1>1. PICK s \in Sids \ DOMAIN sessions : sessions' = Insert(old, s, Successor(req[p]))
  BY DEF CommitRotation
<1>2. req[p].sid \in DOMAIN sessions
  BY DEF TypeOK, CommitRotation, Serving
<1>3. /\ DOMAIN old = DOMAIN sessions
      /\ old[req[p].sid] = [sessions[req[p].sid] EXCEPT !.revoked = "rotated"]
      /\ \A t \in DOMAIN sessions \ {req[p].sid} : old[t] = sessions[t]
  BY <1>2
<1> HIDE DEF old
<1>4. /\ DOMAIN sessions' = DOMAIN sessions \cup {s}
      /\ sessions'[s] = Successor(req[p])
  BY <1>1, <1>3 DEF Insert
<1>5. \A t \in DOMAIN sessions : sessions'[t] = old[t]
  BY <1>1, <1>3 DEF Insert
<1> QED BY <1>2, <1>3, <1>4, <1>5

(* No step takes a row away, or gives it another owner or family, or       *)
(* revives it.                                                             *)
LEMMA RowsKept ==
    ASSUME TypeOK, [SystemNext]_vars, NEW s \in DOMAIN sessions
    PROVE  RowKept(s)
<1>1. CASE \A p \in Procs : ~AddsRows(p)
  BY <1>1, RowsKeptInPlace
<1>2. ASSUME NEW p \in Procs, CommitLoginSuccess(p) PROVE RowKept(s)
  <2>1. s \in DOMAIN sessions' /\ sessions'[s] = sessions[s]
    BY <1>2, SignInEffect
  <2> QED BY <2>1 DEF RowKept
<1>3. ASSUME NEW p \in Procs, CommitRotation(p) PROVE RowKept(s)
  <2>1. /\ s \in DOMAIN sessions'
        /\ \/ sessions'[s] = sessions[s]
           \/ sessions'[s] = [sessions[s] EXCEPT !.revoked = "rotated"]
    BY <1>3, RotationEffect
  <2>2. sessions[s] \in SessionRow /\ "rotated" # None
    BY NoneAssumption DEF TypeOK, NoneAssumption, RevokeReasons
  <2> QED BY <2>1, <2>2 DEF RowKept, SessionRow
<1> QED BY <1>1, <1>2, <1>3 DEF AddsRows

LEMMA SnapshotStep == TypeOK /\ SnapshotInv /\ [SystemNext]_vars => SnapshotInv'
<1> SUFFICES ASSUME TypeOK, SnapshotInv, [SystemNext]_vars,
                    NEW q \in Procs, Serving(q, {"refresh"})'
             PROVE  /\ req'[q].sid \in DOMAIN sessions'
                    /\ req'[q].row.user = sessions'[req'[q].sid].user
                    /\ req'[q].row.family = sessions'[req'[q].sid].family
                    /\ req'[q].row.expires = sessions'[req'[q].sid].expires
  BY DEF SnapshotInv
<1>1. CASE req'[q] = req[q] /\ Serving(q, {"refresh"})
  <2>1. /\ req[q].sid \in DOMAIN sessions
        /\ req[q].row.user = sessions[req[q].sid].user
        /\ req[q].row.family = sessions[req[q].sid].family
        /\ req[q].row.expires = sessions[req[q].sid].expires
    BY <1>1 DEF SnapshotInv
  <2>2. RowKept(req[q].sid)
    BY <2>1, RowsKept
  <2> QED BY <1>1, <2>1, <2>2 DEF RowKept
<1>2. CASE \E t \in held : UNCHANGED sessions /\ req'[q] = Refreshing(t)
  <2>1. PICK t \in held : UNCHANGED sessions /\ req'[q] = Refreshing(t)
    BY <1>2
  <2>2. t.sid \in DOMAIN sessions
    BY DEF TypeOK
  <2> QED BY <2>1, <2>2 DEF Refreshing
<1> QED BY <1>1, <1>2, RefreshOrigin

(* The snapshot invariant holds under every interleaving.                  *)
THEOREM SystemSnapshots == SystemSpec => []SnapshotInv
<1>1. Init => SnapshotInv
  BY DEF Init, SnapshotInv, Serving
<1> QED BY <1>1, SnapshotStep, SystemTypeOK, PTL DEF SystemSpec
-----------------------------------------------------------------------------
(* A session family ends for good.                                         *)

LEMMA PhaseBar ==
    /\ phaseBar \in [Families -> {"unused", "live", "ended"}]
    /\ \A f \in Families :
         /\ phaseBar[f] = "unused" <=> FamilyRows(f) = {}
         /\ phaseBar[f] = "ended"  <=>
              FamilyRows(f) # {} /\ ActiveRows(f) = {} /\ ~RotationInFlight(f)
  BY DEF phaseBar, ActiveRows

(* A refresh that rotates was in flight before, or read an active row. *)
LEMMA RotationOrigin ==
    ASSUME TypeOK, [SystemNext]_vars, NEW f \in Families, RotationInFlight(f)'
    PROVE  RotationInFlight(f) \/ ActiveRows(f) # {}
<1>1. PICK q \in Procs :
        Serving(q, {"refresh"})' /\ Rotates(req'[q]) /\ req'[q].row.family = f
  BY DEF RotationInFlight, Rotates, Reused, Expired
<1>2. CASE req'[q] = req[q] /\ Serving(q, {"refresh"})
  BY <1>1, <1>2 DEF RotationInFlight
<1>3. CASE \E t \in held : UNCHANGED sessions /\ req'[q] = Refreshing(t)
  <2>1. PICK t \in held : req'[q] = Refreshing(t)
    BY <1>3
  <2>2. t.sid \in DOMAIN sessions
    BY DEF TypeOK
  <2>3. sessions[t.sid].family = f /\ sessions[t.sid].revoked = None
    BY <1>1, <2>1 DEF Refreshing, Rotates, Reused
  <2> QED BY <2>2, <2>3 DEF ActiveRows, FamilyRows
<1> QED BY <1>1, <1>2, <1>3, RefreshOrigin

(* A step that neither adds nor revives a row ends the families it leaves  *)
(* without a working token, possibly none.                                 *)
LEMMA InPlaceStepEnds ==
    ASSUME DOMAIN sessions' = DOMAIN sessions, \A s \in DOMAIN sessions : RowKept(s),
           \A f \in Families : RotationInFlight(f)' => RotationInFlight(f) \/ ActiveRows(f) # {}
    PROVE  Family!FamiliesNext
<1> DEFINE S == {f \in Families : phaseBar[f] = "live" /\ phaseBar'[f] = "ended"}
<1>1. ASSUME NEW f \in Families
      PROVE  phaseBar'[f] = IF f \in S THEN "ended" ELSE phaseBar[f]
  <2>1. FamilyRows(f)' = FamilyRows(f)
    BY DEF FamilyRows, RowKept
  <2>2. ActiveRows(f)' \subseteq ActiveRows(f)
    BY <2>1 DEF ActiveRows, FamilyRows, RowKept
  <2> QED BY <2>1, <2>2, PhaseBar, PhaseBar' DEF phaseBar
<1>2. phaseBar' = [f \in Families |-> IF f \in S THEN "ended" ELSE phaseBar[f]]
  <2>1. phaseBar' = [f \in Families |-> phaseBar'[f]]
    BY DEF phaseBar
  <2> QED BY <1>1, <2>1
<1>3. Family!End(S)
  BY <1>2 DEF Family!End
<1> QED BY <1>3 DEF Family!FamiliesNext

LEMMA SignInOpens ==
    ASSUME TypeOK, [SystemNext]_vars, NEW p \in Procs, CommitLoginSuccess(p)
    PROVE  Family!FamiliesNext
<1>1. PICK s \in Sids \ DOMAIN sessions, f0 \in Families \ UsedFamilies :
        /\ DOMAIN sessions' = DOMAIN sessions \cup {s}
        /\ sessions'[s].family = f0 /\ sessions'[s].revoked = None
        /\ \A t \in DOMAIN sessions : sessions'[t] = sessions[t]
  BY SignInEffect
<1>2. phaseBar[f0] = "unused"
  BY PhaseBar DEF UsedFamilies, FamilyRows
<1>3. phaseBar'[f0] = "live"
  <2>1. s \in ActiveRows(f0)'
    BY <1>1 DEF ActiveRows, FamilyRows
  <2> QED BY <2>1 DEF phaseBar, ActiveRows
<1>4. ASSUME NEW f \in Families, f # f0 PROVE phaseBar'[f] = phaseBar[f]
  <2>1. FamilyRows(f)' = FamilyRows(f) /\ ActiveRows(f)' = ActiveRows(f)
    BY <1>1, <1>4 DEF FamilyRows, ActiveRows
  <2>2. RotationInFlight(f)' = RotationInFlight(f)
    <3>1. ~Serving(p, {"refresh"}) /\ \A q \in Procs \ {p} : req'[q] = req[q]
      BY DEF CommitLoginSuccess, Serving, Finish, Start, TypeOK
    <3>2. ~Serving(p, {"refresh"})'
      BY DEF CommitLoginSuccess, Serving, Finish, Start, TypeOK
    <3> QED BY <3>1, <3>2 DEF RotationInFlight, Serving, Rotates, Reused, Expired
  <2> QED BY <2>1, <2>2 DEF phaseBar
<1>5. phaseBar' = [phaseBar EXCEPT ![f0] = "live"]
  BY <1>3, <1>4 DEF phaseBar
<1> QED BY <1>2, <1>5 DEF Family!FamiliesNext, Family!Open

LEMMA RotationStutters ==
    ASSUME TypeOK, SnapshotInv, NEW p \in Procs, CommitRotation(p)
    PROVE  phaseBar' = phaseBar
<1> DEFINE f0 == req[p].row.family
<1>1. PICK s \in Sids \ DOMAIN sessions :
        /\ DOMAIN sessions' = DOMAIN sessions \cup {s}
        /\ sessions'[s] = Successor(req[p])
        /\ req[p].sid \in DOMAIN sessions
        /\ sessions'[req[p].sid] = [sessions[req[p].sid] EXCEPT !.revoked = "rotated"]
        /\ \A t \in DOMAIN sessions \ {req[p].sid} : sessions'[t] = sessions[t]
  BY RotationEffect
<1>2. sessions[req[p].sid].family = f0 /\ sessions'[req[p].sid].family = f0
  <2>1. sessions[req[p].sid] \in SessionRow
    BY <1>1 DEF TypeOK
  <2>2. sessions[req[p].sid].family = f0
    BY DEF SnapshotInv, CommitRotation
  <2> QED BY <1>1, <2>1, <2>2 DEF SessionRow
<1>3. sessions'[s].family = f0 /\ sessions'[s].revoked = None
  BY <1>1 DEF Successor
<1>4. ASSUME NEW f \in Families PROVE phaseBar'[f] = phaseBar[f]
  <2>1. CASE f = f0
    <3>1. FamilyRows(f) # {} /\ RotationInFlight(f)
      BY <1>1, <1>2, <2>1 DEF FamilyRows, CommitRotation, RotationInFlight
    <3>2. phaseBar[f] = "live"
      BY <3>1 DEF phaseBar
    <3>3. s \in ActiveRows(f)'
      BY <1>1, <1>3, <2>1 DEF ActiveRows, FamilyRows
    <3>4. phaseBar'[f] = "live"
      BY <3>3 DEF phaseBar, ActiveRows
    <3> QED BY <3>2, <3>4
  <2>2. CASE f # f0
    <3>1. FamilyRows(f)' = FamilyRows(f) /\ ActiveRows(f)' = ActiveRows(f)
      <4>1. \A t \in DOMAIN sessions' :
              sessions'[t].family = f <=> t \in DOMAIN sessions /\ sessions[t].family = f
        BY <1>1, <1>2, <1>3, <2>2
      <4>2. FamilyRows(f)' = FamilyRows(f)
        BY <1>1, <4>1 DEF FamilyRows
      <4>3. \A t \in FamilyRows(f) : sessions'[t] = sessions[t]
        BY <1>1, <1>2, <2>2 DEF FamilyRows
      <4> QED BY <4>2, <4>3 DEF ActiveRows
    <3>2. RotationInFlight(f)' = RotationInFlight(f)
      <4>1. /\ \A q \in Procs \ {p} : req'[q] = req[q]
            /\ ~Serving(p, {"refresh"})'
        BY DEF CommitRotation, Finish, TypeOK, Serving
      <4> QED BY <2>2, <4>1 DEF RotationInFlight, Serving, Rotates, Reused, Expired
    <3> QED BY <3>1, <3>2 DEF phaseBar
  <2> QED BY <2>1, <2>2
<1> QED BY <1>4 DEF phaseBar

LEMMA FamiliesStep ==
    TypeOK /\ SnapshotInv /\ [SystemNext]_vars => [Family!FamiliesNext]_phaseBar
<1> SUFFICES ASSUME TypeOK, SnapshotInv, [SystemNext]_vars
             PROVE  Family!FamiliesNext \/ phaseBar' = phaseBar
  OBVIOUS
<1>1. CASE \A p \in Procs : ~AddsRows(p)
  BY <1>1, RowsKeptInPlace, RotationOrigin, InPlaceStepEnds
<1> QED BY <1>1, SignInOpens, RotationStutters DEF AddsRows

(* AuthSystem implements SessionFamilies: with any number of workers, rows *)
(* and families, whatever requests race and whichever workers die, a       *)
(* family is opened by one sign-in and, once it has ended, never has a     *)
(* working refresh token again.                                            *)
THEOREM SystemImplementsFamilies == SystemSpec => ImplementsFamilies
<1>1. Init => Family!FamiliesInit
  BY DEF Init, Family!FamiliesInit, phaseBar, FamilyRows
<1> QED BY <1>1, FamiliesStep, SystemTypeOK, SystemSnapshots, PTL
        DEF SystemSpec, ImplementsFamilies, Family!FamiliesSpec
-----------------------------------------------------------------------------
(* The audit log, and sign-ins in flight.                                  *)

(* Entries stay. *)
LEMMA AuditGrows ==
    ASSUME [SystemNext]_vars
    PROVE  audit \subseteq audit'
<1>1. ASSUME NEW p \in Procs, Login(p) PROVE audit \subseteq audit'
  BY <1>1 DEF Login, BeginLogin, CommitLoginFailure, CommitLoginSuccess
<1>2. ASSUME NEW p \in Procs, Refresh(p) PROVE audit \subseteq audit'
  BY <1>2 DEF Refresh, BeginRefresh, CommitReuse, CommitExpired, CommitRotation
<1>3. ASSUME NEW p \in Procs, Logout(p) PROVE audit \subseteq audit'
  BY <1>3 DEF Logout, BeginFamilyRevoke, CommitFamilyRevoke, BeginLogoutAll,
              CommitLogoutAll, BeginBrowserLogout, CommitBrowserLogout
<1>4. ASSUME NEW p \in Procs, Totp(p) PROVE audit \subseteq audit'
  BY <1>4 DEF Totp, BeginTotpSetup, BeginTotpConfirm, BeginTotpDisable, StartTotp,
              CommitTotpSetup, CommitTotpConfirm, CommitTotpDisable
<1>5. ASSUME NEW p \in Procs, Crash(p) PROVE audit \subseteq audit'
  BY <1>5 DEF Crash
<1> QED BY <1>1, <1>2, <1>3, <1>4, <1>5 DEF SystemNext, Tick, vars

(* A sign-in in flight was in flight before, or has just read its account. *)
LEMMA LoginOrigin ==
    ASSUME TypeOK, [SystemNext]_vars, NEW q \in Procs,
           Serving(q, {"login", "admin_login"})'
    PROVE  \/ req'[q] = req[q] /\ Serving(q, {"login", "admin_login"})
           \/ /\ req'[q].user \in Users /\ req'[q].user \in registered
              /\ req'[q].row = users[req'[q].user] /\ UNCHANGED users
              /\ req'[q].at = now
<1> DEFINE Ops == {"login", "admin_login"}
           Goal == \/ req'[q] = req[q]
                   \/ /\ req'[q].user \in Users /\ req'[q].user \in registered
                      /\ req'[q].row = users[req'[q].user] /\ UNCHANGED users
                      /\ req'[q].at = now
<1>1. ASSUME NEW p \in Procs, Finish(p) PROVE Goal
  BY <1>1 DEF Finish, TypeOK, Serving
<1>2. ASSUME NEW p \in Procs, NEW r, Start(p, r), r.op \notin Ops PROVE Goal
  BY <1>2 DEF Start, TypeOK, Serving
<1>3. ASSUME UNCHANGED req PROVE Goal
  BY <1>3
<1>4. ASSUME NEW p \in Procs, BeginLogin(p) PROVE Goal
  BY <1>4 DEF BeginLogin, Start, TypeOK
<1>5. ASSUME NEW p \in Procs, CommitLoginSuccess(p) PROVE Goal
  <2>1. \/ Finish(p)
        \/ \E f \in Families :
             Start(p, [op |-> "admin_role_rejected", user |-> req[p].user, family |-> f])
    BY <1>5 DEF CommitLoginSuccess
  <2>2. \A f \in Families :
          [op |-> "admin_role_rejected", user |-> req[p].user, family |-> f].op \notin Ops
    OBVIOUS
  <2> QED BY <1>1, <1>2, <2>1, <2>2
<1>6. ASSUME NEW p \in Procs, Login(p) PROVE Goal
  BY <1>1, <1>4, <1>5, <1>6 DEF Login, CommitLoginFailure
<1>7. ASSUME NEW p \in Procs, Refresh(p) PROVE Goal
  <2>1. CASE BeginRefresh(p)
    <3>1. \E t \in held : Start(p, Refreshing(t))
      BY <2>1 DEF BeginRefresh, Refreshing
    <3>2. \A t \in held : Refreshing(t).op \notin Ops
      BY DEF Refreshing
    <3> QED BY <1>2, <3>1, <3>2
  <2> QED BY <1>1, <1>7, <2>1 DEF Refresh, CommitReuse, CommitExpired, CommitRotation
<1>8. ASSUME NEW p \in Procs, Logout(p) PROVE Goal
  <2>1. CASE BeginFamilyRevoke(p)
    <3>1. PICK e \in {"logout", "user_revoked"}, t \in held, f \in UsedFamilies :
            Start(p, [op |-> e, user |-> sessions[t.sid].user, family |-> f])
      BY <2>1 DEF BeginFamilyRevoke
    <3>2. [op |-> e, user |-> sessions[t.sid].user, family |-> f].op \notin Ops
      OBVIOUS
    <3> QED BY <1>2, <3>1, <3>2
  <2>2. CASE BeginLogoutAll(p)
    <3>1. PICK t \in held : Start(p, [op |-> "logout_all", user |-> sessions[t.sid].user])
      BY <2>2 DEF BeginLogoutAll
    <3>2. [op |-> "logout_all", user |-> sessions[t.sid].user].op \notin Ops
      OBVIOUS
    <3> QED BY <1>2, <3>1, <3>2
  <2>3. CASE BeginBrowserLogout(p)
    <3>1. PICK e \in {"web_logout", "admin_logout"}, t \in held :
            Start(p, [op |-> e, user |-> sessions[t.sid].user,
                      family |-> sessions[t.sid].family])
      BY <2>3 DEF BeginBrowserLogout
    <3>2. [op |-> e, user |-> sessions[t.sid].user,
           family |-> sessions[t.sid].family].op \notin Ops
      OBVIOUS
    <3> QED BY <1>2, <3>1, <3>2
  <2>4. CASE CommitFamilyRevoke(p) \/ CommitLogoutAll(p) \/ CommitBrowserLogout(p)
    BY <1>1, <2>4 DEF CommitFamilyRevoke, CommitLogoutAll, CommitBrowserLogout
  <2> QED BY <1>8, <2>1, <2>2, <2>3, <2>4 DEF Logout
<1>9. ASSUME NEW p \in Procs, Totp(p) PROVE Goal
  <2>1. ASSUME NEW op \in TotpEndpoints, NEW t, NEW secret, StartTotp(p, op, t, secret)
        PROVE  Goal
    <3> DEFINE user == sessions[t.sid].user
               r == [op |-> op, user |-> user, row |-> users[user],
                     family |-> sessions[t.sid].family, secret |-> secret]
    <3>1. r.op \notin Ops
      BY DEF TotpEndpoints
    <3>2. Start(p, r)
      BY <2>1 DEF StartTotp
    <3> QED BY <1>2, <3>1, <3>2
  <2>2. CASE BeginTotpSetup(p) \/ BeginTotpConfirm(p) \/ BeginTotpDisable(p)
    BY <2>1, <2>2 DEF BeginTotpSetup, BeginTotpConfirm, BeginTotpDisable, TotpEndpoints
  <2>3. CASE CommitTotpSetup(p) \/ CommitTotpConfirm(p) \/ CommitTotpDisable(p)
    BY <1>1, <2>3 DEF CommitTotpSetup, CommitTotpConfirm, CommitTotpDisable
  <2> QED BY <1>9, <2>2, <2>3 DEF Totp
<1>10. Goal
  <2> HIDE DEF Goal
  <2> QED BY <1>1, <1>3, <1>6, <1>7, <1>8, <1>9 DEF SystemNext, Crash, Tick, vars
<1> QED BY <1>10 DEF Serving
=============================================================================
