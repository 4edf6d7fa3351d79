----------------------------- MODULE HistoryProofs -----------------------------
(***************************************************************************)
(* What TLAPS proves about the traces that AccountSystem leaves: how the   *)
(* rows of a family descend from each other, what the audit log says of    *)
(* them, and where MFA comes from.                                         *)
(***************************************************************************)
EXTENDS AccountProofs

-----------------------------------------------------------------------------
(* Steps of the whole system.                                              *)

LEMMA RowsOfAccounts ==
    ASSUME AccountInv, [AccountNext]_vars, NEW s \in DOMAIN sessions
    PROVE  RowKept(s)
<1>0. TypeOK
  BY DEF AccountInv, AccountTypeOK
<1> QED BY <1>0, RowsKept, AccountRows DEF AccountNext

(* A row comes into being alone, by a sign-in or by a rotation. *)
LEMMA NewRow ==
    ASSUME AccountInv, [AccountNext]_vars,
           NEW s \in DOMAIN sessions', s \notin DOMAIN sessions
    PROVE  /\ s \in Sids
           /\ DOMAIN sessions' = DOMAIN sessions \cup {s}
           /\ \/ \E p \in Procs, f \in Families \ UsedFamilies :
                   CommitLoginSuccess(p) /\ sessions'[s] = RootSession(req[p], f)
              \/ \E p \in Procs :
                   /\ CommitRotation(p) /\ sessions'[s] = Successor(req[p])
                   /\ req[p].sid \in DOMAIN sessions
                   /\ sessions'[req[p].sid] = [sessions[req[p].sid] EXCEPT !.revoked = "rotated"]
<1>0. TypeOK
  BY DEF AccountInv, AccountTypeOK
<1>1. [SystemNext]_vars
  BY <1>0, AccountRows DEF AccountNext
<1>2. PICK p \in Procs : AddsRows(p)
  BY <1>0, <1>1, RowsKeptInPlace
<1>3. CASE CommitLoginSuccess(p)
  <2>1. PICK n \in Sids \ DOMAIN sessions, f \in Families \ UsedFamilies :
          /\ DOMAIN sessions' = DOMAIN sessions \cup {n}
          /\ sessions'[n] = RootSession(req[p], f)
    BY <1>0, <1>3, SignInEffect
  <2> QED BY <1>3, <2>1
<1>4. CASE CommitRotation(p)
  <2>1. PICK n \in Sids \ DOMAIN sessions :
          /\ DOMAIN sessions' = DOMAIN sessions \cup {n}
          /\ sessions'[n] = Successor(req[p])
          /\ req[p].sid \in DOMAIN sessions
          /\ sessions'[req[p].sid] = [sessions[req[p].sid] EXCEPT !.revoked = "rotated"]
    BY <1>0, <1>4, RotationEffect
  <2> QED BY <1>4, <2>1
<1> QED BY <1>2, <1>3, <1>4 DEF AddsRows

(* A refresh in flight was so before, or has just read its row. *)
LEMMA RefreshBegins ==
    ASSUME AccountInv, [AccountNext]_vars, NEW q \in Procs, Serving(q, {"refresh"})'
    PROVE  \/ req'[q] = req[q] /\ Serving(q, {"refresh"})
           \/ \E t \in held : UNCHANGED sessions /\ req'[q] = Refreshing(t)
<1>0. AccountTypeOK /\ TypeOK /\ OnlyRegistered
  BY DEF AccountInv, AccountTypeOK
<1>1. CASE [SystemNext]_vars
  BY <1>0, <1>1, RefreshOrigin
<1>2. ASSUME NEW p \in Procs, Account(p)
      PROVE  req'[q] = req[q] /\ Serving(q, {"refresh"})
  BY <1>0, <1>2, AccountRefreshes DEF Serving
<1> QED BY <1>1, <1>2 DEF AccountNext

(* A sign-in in flight was so before, or has just read its account. *)
LEMMA LoginBegins ==
    ASSUME AccountInv, [AccountNext]_vars, NEW q \in Procs,
           Serving(q, {"login", "admin_login"})'
    PROVE  \/ req'[q] = req[q] /\ Serving(q, {"login", "admin_login"})
           \/ /\ req'[q].user \in Users
              /\ req'[q].row = users[req'[q].user] /\ UNCHANGED users
              /\ req'[q].at = now
<1>0. AccountTypeOK /\ TypeOK /\ OnlyRegistered
  BY DEF AccountInv, AccountTypeOK
<1>1. CASE [SystemNext]_vars
  BY <1>0, <1>1, LoginOrigin
<1>2. ASSUME NEW p \in Procs, Account(p)
      PROVE  req'[q] = req[q] /\ Serving(q, {"login", "admin_login"})
  BY <1>0, <1>2, AccountRequests DEF Serving
<1> QED BY <1>1, <1>2 DEF AccountNext

(* Time does not go back. *)
LEMMA ClockForward ==
    ASSUME AccountInv, [AccountNext]_vars
    PROVE  now \in Nat /\ now' \in Nat /\ now <= now'
<1>0. TypeOK /\ now \in Nat
  BY DEF AccountInv, AccountTypeOK, TypeOK, Time
<1>1. now' = now \/ now' = now + 1
  <2>1. CASE [SystemNext]_vars
    BY <2>1 DEF SystemNext, Login, BeginLogin, CommitLoginFailure, CommitLoginSuccess,
         Refresh, BeginRefresh, CommitReuse, CommitExpired, CommitRotation,
         Logout, BeginFamilyRevoke, CommitFamilyRevoke, BeginLogoutAll, CommitLogoutAll,
         BeginBrowserLogout, CommitBrowserLogout,
         Totp, BeginTotpSetup, BeginTotpConfirm, BeginTotpDisable, StartTotp,
         CommitTotpSetup, CommitTotpConfirm, CommitTotpDisable, Crash, Tick, vars
  <2>2. ASSUME NEW p \in Procs, Account(p) PROVE now' = now
    BY <1>0, <2>2, AccountRows
  <2> QED BY <2>1, <2>2 DEF AccountNext
<1> QED BY <1>0, <1>1

(* Entries stay in the audit log. *)
LEMMA AuditOfAccounts ==
    ASSUME AccountInv, [AccountNext]_vars
    PROVE  audit \subseteq audit'
<1>1. ASSUME NEW p \in Procs, Account(p) PROVE audit \subseteq audit'
  BY <1>1 DEF Account, BeginRegister, CommitRegister, BeginResend, BeginForgot, CommitIssue,
              BeginVerify, CommitVerify, BeginReset, CommitReset
<1> QED BY <1>1, AuditGrows DEF AccountNext
-----------------------------------------------------------------------------
(* Lineage.                                                                *)

(* FamilyLineage needs to know why the term of a new row is not shorter    *)
(* than that of the row it replaces: a term is counted from a moment that  *)
(* has passed, by the row and by the request that read it.                 *)
TermsCounted ==
    /\ \A s \in DOMAIN sessions : sessions[s].expires <= now + RefreshTtl
    /\ \A q \in Procs : Serving(q, {"login", "admin_login"}) => req[q].at <= now
    /\ \A q \in Procs : Serving(q, {"refresh"}) =>
          /\ req[q].at <= now
          /\ req[q].row.expires <= req[q].at + RefreshTtl

LEMMA NewRowTerm ==
    ASSUME AccountInv, TermsCounted, [AccountNext]_vars,
           NEW s \in DOMAIN sessions', s \notin DOMAIN sessions
    PROVE  sessions'[s].expires <= now + RefreshTtl
<1>0. TypeOK /\ now \in Nat /\ RefreshTtl \in Nat
  BY ConstantsAssumption DEF AccountInv, AccountTypeOK, TypeOK, Time, ConstantsAssumption
<1>1. PICK p \in Procs :
        /\ Serving(p, {"login", "admin_login", "refresh"})
        /\ sessions'[s].expires = req[p].at + RefreshTtl
  <2>1. ASSUME NEW p \in Procs, NEW f \in Families,
               CommitLoginSuccess(p), sessions'[s] = RootSession(req[p], f)
        PROVE  /\ Serving(p, {"login", "admin_login", "refresh"})
               /\ sessions'[s].expires = req[p].at + RefreshTtl
    BY <2>1 DEF CommitLoginSuccess, Serving, RootSession
  <2>2. ASSUME NEW p \in Procs, CommitRotation(p), sessions'[s] = Successor(req[p])
        PROVE  /\ Serving(p, {"login", "admin_login", "refresh"})
               /\ sessions'[s].expires = req[p].at + RefreshTtl
    BY <2>2 DEF CommitRotation, Serving, Successor
  <2> QED BY <2>1, <2>2, NewRow
<1>2. req[p].at \in Nat /\ req[p].at <= now
  BY <1>0, <1>1, RequestKinds DEF TypeOK, Serving, LoginRequest, RefreshRequest, Time,
                                  TermsCounted
<1> QED BY <1>0, <1>1, <1>2

LEMMA TermsStep == AccountInv /\ TermsCounted /\ [AccountNext]_vars => TermsCounted'
<1> SUFFICES ASSUME AccountInv, TermsCounted, [AccountNext]_vars PROVE TermsCounted'
  OBVIOUS
<1>0. /\ TypeOK /\ TypeOK' /\ RefreshTtl \in Nat
      /\ now \in Nat /\ now' \in Nat /\ now <= now'
  BY AccountInvStep, ClockForward, ConstantsAssumption
     DEF AccountInv, AccountTypeOK, ConstantsAssumption
<1>1. ASSUME NEW s \in DOMAIN sessions' PROVE sessions'[s].expires <= now' + RefreshTtl
  <2>1. sessions'[s].expires <= now + RefreshTtl
    <3>1. CASE s \in DOMAIN sessions
      BY <3>1, RowsOfAccounts DEF RowKept, TermsCounted
    <3> QED BY <1>1, <3>1, NewRowTerm
  <2>2. sessions'[s].expires \in Nat
    BY <1>0, <1>1 DEF TypeOK, SessionRow
  <2> QED BY <1>0, <2>1, <2>2
<1>2. ASSUME NEW q \in Procs, Serving(q, {"login", "admin_login"})' PROVE req'[q].at <= now'
  <2>1. req'[q].at <= now
    BY <1>0, <1>2, LoginBegins DEF TermsCounted
  <2>2. req'[q].at \in Nat
    <3>1. req'[q] \in Request
      BY <1>0, <1>2 DEF TypeOK, Serving
    <3> QED BY <1>2, <3>1, RequestKinds DEF Serving, LoginRequest, Time
  <2> QED BY <1>0, <2>1, <2>2
<1>3. ASSUME NEW q \in Procs, Serving(q, {"refresh"})'
      PROVE  req'[q].at <= now' /\ req'[q].row.expires <= req'[q].at + RefreshTtl
  <2>1. req'[q].at <= now /\ req'[q].row.expires <= req'[q].at + RefreshTtl
    <3>1. CASE req'[q] = req[q] /\ Serving(q, {"refresh"})
      BY <3>1 DEF TermsCounted
    <3>2. CASE \E t \in held : req'[q] = Refreshing(t)
      <4>1. PICK t \in held : req'[q] = Refreshing(t)
        BY <3>2
      <4>2. t.sid \in DOMAIN sessions
        BY <1>0 DEF TypeOK
      <4> QED BY <1>0, <4>1, <4>2 DEF Refreshing, TermsCounted
    <3> QED BY <1>3, <3>1, <3>2, RefreshBegins
  <2>2. req'[q].at \in Nat
    <3>1. req'[q] \in Request
      BY <1>0, <1>3 DEF TypeOK, Serving
    <3> QED BY <1>3, <3>1, RequestKinds DEF Serving, RefreshRequest, Time
  <2> QED BY <1>0, <2>1, <2>2
<1> QED BY <1>1, <1>2, <1>3 DEF TermsCounted

(* What FamilyLineage says of one row. *)
RowLineage(s) ==
    LET row == sessions[s]  parent == sessions[row.parent] IN
    IF row.parent = None
    THEN \A t \in DOMAIN sessions :
            sessions[t].family = row.family /\ sessions[t].parent = None => t = s
    ELSE /\ row.parent \in DOMAIN sessions
         /\ parent.user = row.user /\ parent.family = row.family
         /\ parent.revoked # None
         /\ parent.expires <= row.expires
         /\ row.expires < parent.expires + RefreshTtl

(* The row that a sign-in inserts is the root of its family. *)
LEMMA RootLineage ==
    ASSUME AccountInv, [AccountNext]_vars,
           NEW s \in DOMAIN sessions', s \notin DOMAIN sessions,
           NEW p, NEW f \in Families \ UsedFamilies, sessions'[s] = RootSession(req[p], f)
    PROVE  RowLineage(s)'
<1>1. sessions'[s].parent = None /\ sessions'[s].family = f
  BY DEF RootSession
<1>2. ASSUME NEW t \in DOMAIN sessions', sessions'[t].family = f PROVE t = s
  <2>1. t \in DOMAIN sessions => sessions[t].family = f
    BY <1>2, RowsOfAccounts DEF RowKept
  <2>2. t \notin DOMAIN sessions
    BY <2>1 DEF UsedFamilies
  <2> QED BY <2>2, NewRow
<1> QED BY <1>1, <1>2 DEF RowLineage

(* The row that a rotation inserts descends from the row that was read. *)
LEMMA SuccessorLineage ==
    ASSUME AccountInv, TermsCounted, [AccountNext]_vars,
           NEW s \in DOMAIN sessions', s \notin DOMAIN sessions,
           NEW p \in Procs, CommitRotation(p), sessions'[s] = Successor(req[p])
    PROVE  RowLineage(s)'
<1> DEFINE r == req[p]
           old == sessions[r.sid]
<1>0. TypeOK /\ SnapshotInv /\ RefreshTtl \in Nat
  BY ConstantsAssumption DEF AccountInv, AccountTypeOK, ConstantsAssumption
<1>1. Serving(p, {"refresh"}) /\ r \in RefreshRequest /\ Rotates(r)
  BY <1>0, RequestKinds DEF TypeOK, CommitRotation, Serving
<1>2. r.sid \in DOMAIN sessions /\ r.sid \in Sids /\ r.sid # None
  BY <1>0, <1>1, NoneAssumption DEF SnapshotInv, TypeOK, NoneAssumption
<1>3. /\ r.row.user = old.user /\ r.row.family = old.family
      /\ r.row.expires = old.expires
  BY <1>0, <1>1 DEF SnapshotInv
<1>4. /\ sessions'[s].parent = r.sid
      /\ sessions'[s].user = old.user /\ sessions'[s].family = old.family
      /\ sessions'[s].expires = r.at + RefreshTtl
  BY <1>3 DEF Successor
<1>5. /\ r.sid \in DOMAIN sessions'
      /\ sessions'[r.sid].user = old.user /\ sessions'[r.sid].family = old.family
      /\ sessions'[r.sid].expires = old.expires
  BY <1>2, RowsOfAccounts DEF RowKept
<1>6. sessions'[r.sid].revoked # None
  <2>1. sessions'[r.sid] = [old EXCEPT !.revoked = "rotated"]
    BY <1>0, RotationEffect
  <2>2. old \in SessionRow /\ "rotated" # None
    BY <1>0, <1>2, NoneAssumption DEF TypeOK, NoneAssumption, RevokeReasons
  <2> QED BY <2>1, <2>2 DEF SessionRow
<1>7. r.at \in Nat /\ old.expires \in Nat /\ r.at < old.expires
  <2>1. r.at \in Nat /\ old.expires \in Nat
    BY <1>0, <1>1, <1>2 DEF RefreshRequest, Time, TypeOK, SessionRow
  <2>2. ~(r.row.expires <= r.at)
    BY <1>1 DEF Rotates, Expired
  <2> QED BY <1>3, <2>1, <2>2
<1>8. old.expires <= r.at + RefreshTtl
  BY <1>1, <1>3 DEF TermsCounted
<1> HIDE DEF old, r
<1> QED BY <1>0, <1>2, <1>4, <1>5, <1>6, <1>7, <1>8 DEF RowLineage

(* A row that was there keeps its place: its parent stays revoked, and no  *)
(* second root joins its family.                                           *)
LEMMA LineageKept ==
    ASSUME AccountInv, FamilyLineage, [AccountNext]_vars, NEW s \in DOMAIN sessions
    PROVE  RowLineage(s)'
<1>0. TypeOK /\ TypeOK' /\ SnapshotInv
  BY AccountInvStep DEF AccountInv, AccountTypeOK
<1>1. RowLineage(s)
  BY DEF FamilyLineage, RowLineage, FamilyRows
<1>2. RowKept(s)
  BY RowsOfAccounts
<1>3. CASE sessions[s].parent = None
  <2>1. ASSUME NEW t \in DOMAIN sessions', sessions'[t].family = sessions'[s].family,
               sessions'[t].parent = None
        PROVE  t = s
    <3>1. sessions'[t].family = sessions[s].family
      BY <1>2, <2>1 DEF RowKept
    <3>2. CASE t \in DOMAIN sessions
      <4>1. sessions[t].family = sessions[s].family /\ sessions[t].parent = None
        BY <2>1, <3>1, <3>2, RowsOfAccounts DEF RowKept
      <4> QED BY <1>1, <1>3, <3>2, <4>1 DEF RowLineage
    <3>3. CASE t \notin DOMAIN sessions
      <4>1. ASSUME NEW p, NEW f \in Families \ UsedFamilies,
                   sessions'[t] = RootSession(req[p], f)
            PROVE  FALSE
        BY <3>1, <4>1 DEF RootSession, UsedFamilies
      <4>2. ASSUME NEW p \in Procs, req[p].sid \in DOMAIN sessions,
                   sessions'[t] = Successor(req[p])
            PROVE  FALSE
        <5>1. sessions'[t].parent = req[p].sid /\ req[p].sid \in Sids
          BY <1>0, <4>2 DEF Successor, TypeOK
        <5> QED BY <2>1, <5>1, NoneAssumption DEF NoneAssumption
      <4> QED BY <3>1, <3>3, <4>1, <4>2, NewRow
    <3> QED BY <3>2, <3>3
  <2> QED BY <1>2, <1>3, <2>1 DEF RowLineage, RowKept
<1>4. CASE sessions[s].parent # None
  <2> DEFINE o == sessions[s].parent
  <2>1. /\ o \in DOMAIN sessions
        /\ sessions[o].user = sessions[s].user /\ sessions[o].family = sessions[s].family
        /\ sessions[o].revoked # None
        /\ sessions[o].expires <= sessions[s].expires
        /\ sessions[s].expires < sessions[o].expires + RefreshTtl
    BY <1>1, <1>4 DEF RowLineage
  <2>2. RowKept(o)
    BY <2>1, RowsOfAccounts
  <2>3. sessions'[s].parent = o
    BY <1>2 DEF RowKept
  <2> HIDE DEF o
  <2>4. o # None
    BY <1>4 DEF o
  <2> QED BY <1>2, <2>1, <2>2, <2>3, <2>4 DEF RowLineage, RowKept
<1> QED BY <1>3, <1>4

LEMMA LineageStep ==
    AccountInv /\ TermsCounted /\ FamilyLineage /\ [AccountNext]_vars => FamilyLineage'
<1> SUFFICES ASSUME AccountInv, TermsCounted, FamilyLineage, [AccountNext]_vars,
                    NEW s \in DOMAIN sessions'
             PROVE  RowLineage(s)'
  BY DEF FamilyLineage, RowLineage, FamilyRows
<1>1. CASE s \in DOMAIN sessions
  BY <1>1, LineageKept
<1>2. CASE s \notin DOMAIN sessions
  BY <1>2, NewRow, RootLineage, SuccessorLineage
<1> QED BY <1>1, <1>2

(* Rotation builds one chain per sign-in, whatever races: a family has one *)
(* root, and every other row descends from a revoked row of the same       *)
(* account and family that had not expired when it was replaced.           *)
THEOREM RotationsKeepLineage == AccountSpec => []FamilyLineage
<1>1. Init => FamilyLineage /\ TermsCounted
  BY DEF Init, FamilyLineage, TermsCounted, Serving
<1> QED BY <1>1, LineageStep, TermsStep, AccountInvariant, PTL DEF AccountSpec
-----------------------------------------------------------------------------
(* The audit trail.                                                        *)

(* The entry that explains a row in a state that is somebody's decision:   *)
(* what it is about is the family, or the account of the row.              *)
EntryOf(reason) ==
    CASE reason = "rotated" -> "auth.refresh"
      [] reason = "refresh_token_reuse" -> "auth.refresh_reuse_detected"
      [] reason \in {"web_logout", "admin_logout"} -> "auth.browser_logout"
      [] reason = "logout_all" -> "auth.logout_all"
      [] reason = "password_reset" -> "auth.password_reset.completed"
      [] OTHER -> "auth.session_revoke"

OfAccount(reason) == reason \in {"logout_all", "password_reset"}

RowExplained(s) ==
    LET row == sessions[s] IN
    \/ row.revoked \in {None, "expired"}
    \/ Log(EntryOf(row.revoked), IF OfAccount(row.revoked) THEN row.user ELSE row.family)
          \in audit

TrailInv ==
    \A s \in DOMAIN sessions :
        Log("auth.login", sessions[s].family) \in audit /\ RowExplained(s)

LEMMA TrailMeans == TypeOK /\ TrailInv => AuditTrail
<1> SUFFICES ASSUME TypeOK, TrailInv, NEW s \in DOMAIN sessions
             PROVE  Explained(sessions[s]) /\ Log("auth.login", sessions[s].family) \in audit
  BY DEF AuditTrail
<1>1. sessions[s].revoked \in RevokeReasons \cup {None}
  BY DEF TypeOK, SessionRow
<1>2. None \notin RevokeReasons
  BY NoneAssumption DEF NoneAssumption
<1> QED BY <1>1, <1>2 DEF TrailInv, RowExplained, Explained, EntryOf, OfAccount, RevokeReasons

(* A bulk revocation explains the rows it revokes by one entry. *)
LEMMA RevokeExplains ==
    ASSUME TypeOK, NEW rows, NEW reason \in RevokeReasons, sessions' = Revoke(rows, reason),
           NEW x, Log(EntryOf(reason), x) \in audit',
           NEW s \in DOMAIN sessions,
           s \in rows => x = IF OfAccount(reason) THEN sessions[s].user ELSE sessions[s].family
    PROVE  sessions'[s].revoked = sessions[s].revoked \/ RowExplained(s)'
<1>1. sessions[s] \in SessionRow
  BY DEF TypeOK
<1>2. CASE sessions'[s] = sessions[s]
  BY <1>2
<1>3. CASE s \in rows /\ sessions'[s] = [sessions[s] EXCEPT !.revoked = reason]
  <2>1. /\ sessions'[s].revoked = reason
        /\ sessions'[s].user = sessions[s].user
        /\ sessions'[s].family = sessions[s].family
    BY <1>1, <1>3 DEF SessionRow
  <2> QED BY <1>3, <2>1 DEF RowExplained
<1> QED BY <1>2, <1>3 DEF Revoke

(* A row changes its state together with the entry that explains it. *)
LEMMA RevocationLogged ==
    ASSUME AccountInv, [AccountNext]_vars, NEW s \in DOMAIN sessions
    PROVE  sessions'[s].revoked = sessions[s].revoked \/ RowExplained(s)'
<1> DEFINE Goal == sessions'[s].revoked = sessions[s].revoked \/ RowExplained(s)'
<1>0. TypeOK /\ SnapshotInv /\ sessions[s] \in SessionRow
  BY DEF AccountInv, AccountTypeOK, TypeOK
<1>1. ASSUME UNCHANGED sessions PROVE Goal
  BY <1>1
<1>2. ASSUME NEW p \in Procs, CommitLoginSuccess(p) PROVE Goal
  BY <1>0, <1>2, SignInEffect
<1>3. ASSUME NEW p \in Procs, CommitReuse(p) PROVE Goal
  <2> DEFINE f == req[p].row.family
  <2>1. /\ sessions' = Revoke(FamilyRows(f), "refresh_token_reuse")
        /\ Log("auth.refresh_reuse_detected", f) \in audit'
    BY <1>3 DEF CommitReuse
  <2>2. s \in FamilyRows(f) => f = sessions[s].family
    BY DEF FamilyRows
  <2> QED BY <1>0, <2>1, <2>2, RevokeExplains DEF EntryOf, OfAccount, RevokeReasons
<1>4. ASSUME NEW p \in Procs, CommitExpired(p) PROVE Goal
  <2>1. sessions' = [sessions EXCEPT ![req[p].sid].revoked = "expired"]
    BY <1>4 DEF CommitExpired
  <2> QED BY <1>0, <2>1 DEF RowExplained, SessionRow
<1>5. ASSUME NEW p \in Procs, CommitRotation(p) PROVE Goal
  <2>1. \/ s # req[p].sid /\ sessions'[s] = sessions[s]
        \/ s = req[p].sid /\ sessions'[s] = [sessions[s] EXCEPT !.revoked = "rotated"]
    BY <1>0, <1>5, RotationEffect
  <2>2. CASE s = req[p].sid /\ sessions'[s] = [sessions[s] EXCEPT !.revoked = "rotated"]
    <3>1. req[p].row.family = sessions[s].family
      BY <1>0, <1>5, <2>2 DEF SnapshotInv, CommitRotation
    <3>2. sessions'[s].revoked = "rotated" /\ sessions'[s].family = sessions[s].family
      BY <1>0, <2>2 DEF SessionRow
    <3>3. Log("auth.refresh", req[p].row.family) \in audit'
      BY <1>5 DEF CommitRotation
    <3> QED BY <3>1, <3>2, <3>3 DEF RowExplained, EntryOf, OfAccount
  <2> QED BY <2>1, <2>2
<1>6. ASSUME NEW p \in Procs, CommitFamilyRevoke(p) PROVE Goal
  <2> DEFINE r == req[p]
  <2>1. r.op \in {"logout", "user_revoked", "admin_role_rejected"}
    BY <1>6 DEF CommitFamilyRevoke, Serving
  <2>2. /\ r.op \in RevokeReasons
        /\ EntryOf(r.op) = "auth.session_revoke" /\ ~OfAccount(r.op)
    BY <2>1 DEF RevokeReasons, EntryOf, OfAccount
  <2>3. CASE /\ sessions' = Revoke(Revocable(r), r.op)
             /\ audit' = audit \cup {Log("auth.session_revoke", r.family)}
    <3>1. s \in Revocable(r) => r.family = sessions[s].family
      BY DEF Revocable, ActiveRows, FamilyRows
    <3>2. Log(EntryOf(r.op), r.family) \in audit'
      BY <2>2, <2>3
    <3> QED BY <1>0, <2>2, <2>3, <3>1, <3>2, RevokeExplains
  <2> QED BY <1>1, <1>6, <2>3 DEF CommitFamilyRevoke
<1>7. ASSUME NEW p \in Procs, CommitLogoutAll(p) PROVE Goal
  <2>1. /\ sessions' = Revoke(UserRows(req[p].user), "logout_all")
        /\ Log("auth.logout_all", req[p].user) \in audit'
    BY <1>7 DEF CommitLogoutAll
  <2>2. s \in UserRows(req[p].user) => req[p].user = sessions[s].user
    BY DEF UserRows
  <2> QED BY <1>0, <2>1, <2>2, RevokeExplains DEF EntryOf, OfAccount, RevokeReasons
<1>8. ASSUME NEW p \in Procs, CommitBrowserLogout(p) PROVE Goal
  <2> DEFINE r == req[p]
  <2>1. r.op \in {"web_logout", "admin_logout"}
    BY <1>8 DEF CommitBrowserLogout, Serving
  <2>2. /\ r.op \in RevokeReasons
        /\ EntryOf(r.op) = "auth.browser_logout" /\ ~OfAccount(r.op)
    BY <2>1 DEF RevokeReasons, EntryOf, OfAccount
  <2>3. /\ sessions' = Revoke(FamilyRows(r.family), r.op)
        /\ Log(EntryOf(r.op), r.family) \in audit'
    BY <1>8, <2>2 DEF CommitBrowserLogout
  <2>4. s \in FamilyRows(r.family) => r.family = sessions[s].family
    BY DEF FamilyRows
  <2> QED BY <1>0, <2>2, <2>3, <2>4, RevokeExplains
<1>9. ASSUME NEW p \in Procs, CommitTotpConfirm(p) PROVE Goal
  <2>1. sessions'[s] \in {sessions[s], [sessions[s] EXCEPT !.mfa = TRUE]}
    BY <1>9 DEF CommitTotpConfirm
  <2> QED BY <1>0, <2>1 DEF SessionRow
<1>10. ASSUME NEW p \in Procs, CommitReset(p) PROVE Goal
  <2>1. /\ sessions' = Revoke(UserRows(req[p].user), "password_reset")
        /\ Log("auth.password_reset.completed", req[p].user) \in audit'
    BY <1>10 DEF CommitReset
  <2>2. s \in UserRows(req[p].user) => req[p].user = sessions[s].user
    BY DEF UserRows
  <2> QED BY <1>0, <2>1, <2>2, RevokeExplains DEF EntryOf, OfAccount, RevokeReasons
<1> HIDE DEF Goal
<1>11. ASSUME NEW p \in Procs, Account(p) PROVE Goal
  BY <1>0, <1>1, <1>10, <1>11, AccountRows
<1>12. ASSUME [SystemNext]_vars PROVE Goal
  BY <1>1, <1>2, <1>3, <1>4, <1>5, <1>6, <1>7, <1>8, <1>9, <1>12
     DEF SystemNext, Login, BeginLogin, CommitLoginFailure, Refresh, BeginRefresh,
         Logout, BeginFamilyRevoke, BeginLogoutAll, BeginBrowserLogout,
         Totp, BeginTotpSetup, BeginTotpConfirm, BeginTotpDisable, StartTotp,
         CommitTotpSetup, CommitTotpDisable, Crash, Tick, vars
<1>13. Goal
  BY <1>11, <1>12 DEF AccountNext
<1> QED BY <1>13 DEF Goal

LEMMA TrailStep == AccountInv /\ TrailInv /\ [AccountNext]_vars => TrailInv'
<1> SUFFICES ASSUME AccountInv, TrailInv, [AccountNext]_vars, NEW s \in DOMAIN sessions'
             PROVE  Log("auth.login", sessions'[s].family) \in audit' /\ RowExplained(s)'
  BY DEF TrailInv
<1>0. SnapshotInv /\ audit \subseteq audit'
  BY AuditOfAccounts DEF AccountInv
<1>1. CASE s \in DOMAIN sessions
  <2>1. RowKept(s) /\ Log("auth.login", sessions[s].family) \in audit /\ RowExplained(s)
    BY <1>1, RowsOfAccounts DEF TrailInv
  <2>2. CASE sessions'[s].revoked = sessions[s].revoked
    BY <1>0, <2>1, <2>2 DEF RowKept, RowExplained
  <2>3. RowExplained(s)'
    BY <1>1, <2>2, RevocationLogged
  <2> QED BY <1>0, <2>1, <2>3 DEF RowKept
<1>2. CASE s \notin DOMAIN sessions
  <2>1. ASSUME NEW p \in Procs, NEW f \in Families,
               CommitLoginSuccess(p), sessions'[s] = RootSession(req[p], f)
        PROVE  /\ sessions'[s].revoked = None
               /\ Log("auth.login", sessions'[s].family) \in audit'
    <3>1. PICK n \in Sids \ DOMAIN sessions, g \in Families :
            /\ sessions' = Insert(sessions, n, RootSession(req[p], g))
            /\ Log("auth.login", g) \in audit'
      BY <2>1 DEF CommitLoginSuccess
    <3>2. DOMAIN sessions' = DOMAIN sessions \cup {n} /\ sessions'[n] = RootSession(req[p], g)
      BY <3>1 DEF Insert
    <3>3. /\ RootSession(req[p], g).family = g /\ RootSession(req[p], f).family = f
          /\ RootSession(req[p], f).revoked = None
      BY DEF RootSession
    <3> QED BY <1>2, <2>1, <3>1, <3>2, <3>3
  <2>2. ASSUME NEW p \in Procs, CommitRotation(p), sessions'[s] = Successor(req[p])
        PROVE  /\ sessions'[s].revoked = None
               /\ Log("auth.login", sessions'[s].family) \in audit'
    <3>1. /\ req[p].sid \in DOMAIN sessions
          /\ sessions'[s].family = sessions[req[p].sid].family
      BY <1>0, <2>2 DEF SnapshotInv, CommitRotation, Successor
    <3>2. Log("auth.login", sessions[req[p].sid].family) \in audit'
      BY <1>0, <3>1 DEF TrailInv
    <3>3. sessions'[s].revoked = None
      BY <2>2 DEF Successor
    <3> QED BY <3>1, <3>2, <3>3
  <2>3. /\ sessions'[s].revoked = None
        /\ Log("auth.login", sessions'[s].family) \in audit'
    BY <1>2, <2>1, <2>2, NewRow
  <2> QED BY <2>3 DEF RowExplained
<1> QED BY <1>1, <1>2

(* The audit log and the session table never disagree: every session has   *)
(* the entry of its sign-in and every decision to revoke has its own,      *)
(* although a rotation overwrites the reason that another handler set.     *)
THEOREM RevocationsAreAudited == AccountSpec => []AuditTrail
<1>1. Init => TrailInv
  BY DEF Init, TrailInv
<1>2. AccountInv /\ TrailInv => AuditTrail
  BY TrailMeans DEF AccountInv, AccountTypeOK
<1> QED BY <1>1, <1>2, TrailStep, AccountInvariant, PTL DEF AccountSpec
-----------------------------------------------------------------------------
(* MFA.                                                                    *)

Enrolment(u) == Log("auth.totp.enabled", u)

(* MfaNeedsEnrolment is not inductive: what a sign-in or a rotation in     *)
(* flight has read becomes a session later on.                             *)
MfaInv ==
    /\ MfaNeedsEnrolment
    /\ \A p \in Procs :
          Serving(p, {"login", "admin_login"}) /\ req[p].row.totp # None
              => Enrolment(req[p].user) \in audit
    /\ \A p \in Procs :
          Serving(p, {"refresh"}) /\ req[p].row.mfa => sessions[req[p].sid].mfa
-----------------------------------------------------------------------------
(* What a step does to the accounts and the sessions.                      *)

(* A flush that does not assign a secret puts none in force. *)
LEMMA FlushNoSecret ==
    ASSUME TypeOK, NEW u \in Users, NEW l, NEW a,
           users' = [users EXCEPT ![u] = FlushUser(@, l, a)],
           a.totp \in {l.totp, None}, NEW v \in Users, users'[v].totp # None
    PROVE  users[v].totp # None
<1>1. CASE v # u
  BY <1>1 DEF TypeOK
<1>2. CASE v = u
  <2>1. users'[u] = FlushUser(users[u], l, a)
    BY DEF TypeOK
  <2>2. users'[u].totp = Column(users[u].totp, l.totp, a.totp)
    BY <2>1 DEF FlushUser
  <2> QED BY <1>2, <2>2 DEF Column
<1> QED BY <1>1, <1>2

(* Only a confirmed enrolment puts a secret in force.                      *)
LEMMA SecretsEnrolled ==
    ASSUME TypeOK, MfaInv, [SystemNext]_vars, NEW u \in Users, users'[u].totp # None
    PROVE  Enrolment(u) \in audit'
<1>1. users[u].totp # None => Enrolment(u) \in audit'
  BY AuditGrows DEF MfaInv, MfaNeedsEnrolment, Enrolment
<1>2. CASE UNCHANGED users
  BY <1>1, <1>2
<1>3. ASSUME NEW p \in Procs, CommitLoginFailure(p) PROVE Enrolment(u) \in audit'
  <2>1. req[p] \in LoginRequest
    BY <1>3, RequestKinds DEF TypeOK, CommitLoginFailure, Serving
  <2>2. req[p].row \in UserRow /\ req[p].user \in Users
    BY <2>1 DEF LoginRequest
  <2>3. AfterFailure(req[p]).totp = req[p].row.totp
    BY <2>2 DEF AfterFailure, UserRow
  <2>4. users' = [users EXCEPT ![req[p].user] =
                    FlushUser(@, req[p].row, AfterFailure(req[p]))]
    BY <1>3 DEF CommitLoginFailure
  <2> QED BY <1>1, <2>2, <2>3, <2>4, FlushNoSecret
<1>4. ASSUME NEW p \in Procs, CommitLoginSuccess(p) PROVE Enrolment(u) \in audit'
  <2>1. req[p] \in LoginRequest
    BY <1>4, RequestKinds DEF TypeOK, CommitLoginSuccess, Serving
  <2>2. req[p].row \in UserRow /\ req[p].user \in Users
    BY <2>1 DEF LoginRequest
  <2>3. AfterSuccess(req[p]).totp = req[p].row.totp
    BY <2>2 DEF AfterSuccess, UserRow
  <2>4. users' = [users EXCEPT ![req[p].user] =
                    FlushUser(@, req[p].row, AfterSuccess(req[p]))]
    BY <1>4 DEF CommitLoginSuccess
  <2> QED BY <1>1, <2>2, <2>3, <2>4, FlushNoSecret
<1>5. ASSUME NEW p \in Procs, Totp(p) PROVE Enrolment(u) \in audit'
  <2>1. CASE BeginTotpSetup(p) \/ BeginTotpConfirm(p) \/ BeginTotpDisable(p)
    BY <1>2, <2>1 DEF BeginTotpSetup, BeginTotpConfirm, BeginTotpDisable, StartTotp
  <2>2. CASE ~(BeginTotpSetup(p) \/ BeginTotpConfirm(p) \/ BeginTotpDisable(p))
    <3>1. req[p] \in TotpRequest
      BY <1>5, <2>2, RequestKinds DEF TypeOK, Totp, CommitTotpSetup, CommitTotpConfirm,
                                      CommitTotpDisable, Serving, TotpEndpoints
    <3>2. req[p].row \in UserRow /\ req[p].user \in Users
      BY <3>1 DEF TotpRequest
    <3>3. CASE CommitTotpSetup(p)
      <4>1. [req[p].row EXCEPT !.pending = req[p].secret].totp = req[p].row.totp
        BY <3>2 DEF UserRow
      <4>2. users' = [users EXCEPT ![req[p].user] =
                        FlushUser(@, req[p].row, [req[p].row EXCEPT !.pending = req[p].secret])]
        BY <3>3 DEF CommitTotpSetup
      <4> QED BY <1>1, <3>2, <4>1, <4>2, FlushNoSecret
    <3>4. CASE CommitTotpDisable(p)
      <4>1. [req[p].row EXCEPT !.totp = None, !.pending = None].totp = None
        BY <3>2 DEF UserRow
      <4>2. users' = [users EXCEPT ![req[p].user] =
                        FlushUser(@, req[p].row,
                                  [req[p].row EXCEPT !.totp = None, !.pending = None])]
        BY <3>4 DEF CommitTotpDisable
      <4> QED BY <1>1, <3>2, <4>1, <4>2, FlushNoSecret
    <3>5. CASE CommitTotpConfirm(p)
      <4>1. \A v \in Users \ {req[p].user} : users'[v] = users[v]
        BY <3>2, <3>5 DEF CommitTotpConfirm, TypeOK
      <4> QED
        <5>1. CASE u = req[p].user
          BY <3>5, <5>1 DEF CommitTotpConfirm, Enrolment
        <5>2. CASE u # req[p].user
          BY <1>1, <4>1, <5>2
        <5> QED BY <5>1, <5>2
    <3> QED BY <1>5, <2>2, <3>3, <3>4, <3>5 DEF Totp
  <2> QED BY <2>1, <2>2
<1> QED
  BY <1>2, <1>3, <1>4, <1>5
     DEF SystemNext, Login, BeginLogin, Refresh, BeginRefresh, CommitReuse, CommitExpired,
         CommitRotation, Logout, BeginFamilyRevoke, CommitFamilyRevoke, BeginLogoutAll,
         CommitLogoutAll, BeginBrowserLogout, CommitBrowserLogout, Crash, Tick, vars
-----------------------------------------------------------------------------
(* A confirmation apart, a row keeps its MFA instant, or the lack of one. *)
LEMMA MfaUntouched ==
    ASSUME TypeOK, [SystemNext]_vars, \A p \in Procs : ~CommitTotpConfirm(p),
           NEW s \in DOMAIN sessions
    PROVE  sessions'[s].mfa = sessions[s].mfa
<1> DEFINE Goal == sessions'[s].mfa = sessions[s].mfa
<1>0. sessions[s] \in SessionRow
  BY DEF TypeOK
<1>1. \A reason : [sessions[s] EXCEPT !.revoked = reason].mfa = sessions[s].mfa
  BY <1>0 DEF SessionRow
<1>2. ASSUME NEW rows, NEW reason, sessions' = Revoke(rows, reason) PROVE Goal
  BY <1>1, <1>2 DEF Revoke
<1>3. ASSUME UNCHANGED sessions PROVE Goal
  BY <1>3
<1>4. ASSUME NEW p \in Procs, CommitExpired(p) PROVE Goal
  <2>1. sessions' = [sessions EXCEPT ![req[p].sid].revoked = "expired"]
    BY <1>4 DEF CommitExpired
  <2> QED BY <1>1, <2>1
<1>5. ASSUME NEW p \in Procs, CommitRotation(p) PROVE Goal
  <2>1. \/ sessions'[s] = sessions[s]
        \/ sessions'[s] = [sessions[s] EXCEPT !.revoked = "rotated"]
    BY <1>5, RotationEffect
  <2> QED BY <1>1, <2>1
<1>6. ASSUME NEW p \in Procs, CommitLoginSuccess(p) PROVE Goal
  BY <1>6, SignInEffect
<1>7. ASSUME NEW p \in Procs, Login(p) PROVE Goal
  BY <1>3, <1>6, <1>7 DEF Login, BeginLogin, CommitLoginFailure
<1>8. ASSUME NEW p \in Procs, Refresh(p) PROVE Goal
  BY <1>2, <1>3, <1>4, <1>5, <1>8 DEF Refresh, BeginRefresh, CommitReuse
<1>9. ASSUME NEW p \in Procs, Logout(p) PROVE Goal
  BY <1>2, <1>3, <1>9 DEF Logout, BeginFamilyRevoke, CommitFamilyRevoke, BeginLogoutAll,
                          CommitLogoutAll, BeginBrowserLogout, CommitBrowserLogout
<1>10. ASSUME NEW p \in Procs, Totp(p) PROVE Goal
  BY <1>3, <1>10 DEF Totp, BeginTotpSetup, BeginTotpConfirm, BeginTotpDisable, StartTotp,
                     CommitTotpSetup, CommitTotpDisable
<1> HIDE DEF Goal
<1>11. Goal
  BY <1>3, <1>7, <1>8, <1>9, <1>10 DEF SystemNext, Crash, Tick, vars
<1> QED BY <1>11 DEF Goal

(* A confirmation verifies rows of the account it enrols, and no other.    *)
LEMMA ConfirmationMfa ==
    ASSUME TypeOK, NEW p \in Procs, CommitTotpConfirm(p), NEW s \in DOMAIN sessions
    PROVE  /\ DOMAIN sessions' = DOMAIN sessions
           /\ sessions[s].mfa => sessions'[s].mfa
           /\ sessions'[s].mfa => sessions[s].mfa \/ Enrolment(sessions'[s].user) \in audit'
<1>1. sessions[s] \in SessionRow
  BY DEF TypeOK
<1>2. DOMAIN sessions' = DOMAIN sessions
  BY DEF CommitTotpConfirm
<1>3. CASE sessions'[s] = sessions[s]
  BY <1>2, <1>3
<1>4. CASE /\ sessions[s].user = req[p].user
           /\ sessions'[s] = [sessions[s] EXCEPT !.mfa = TRUE]
  <2>1. sessions'[s].mfa /\ sessions'[s].user = req[p].user
    BY <1>1, <1>4 DEF SessionRow
  <2>2. Log("auth.totp.enabled", req[p].user) \in audit'
    BY DEF CommitTotpConfirm
  <2> QED BY <1>2, <2>1, <2>2 DEF Enrolment
<1> QED BY <1>3, <1>4 DEF CommitTotpConfirm

(* No session loses its MFA instant, and none gets one but by enrolment of *)
(* its account.                                                            *)
LEMMA SessionsEnrolled ==
    ASSUME TypeOK, SnapshotInv, MfaInv, [SystemNext]_vars
    PROVE  /\ \A s \in DOMAIN sessions : sessions[s].mfa => sessions'[s].mfa
           /\ \A s \in DOMAIN sessions' :
                 sessions'[s].mfa => Enrolment(sessions'[s].user) \in audit'
<1>1. \A s \in DOMAIN sessions : sessions[s].mfa => sessions'[s].mfa
  BY MfaUntouched, ConfirmationMfa
<1>2. ASSUME NEW s \in DOMAIN sessions, sessions'[s].mfa
      PROVE  Enrolment(sessions'[s].user) \in audit'
  <2>1. sessions[s].mfa \/ Enrolment(sessions'[s].user) \in audit'
    BY <1>2, MfaUntouched, ConfirmationMfa
  <2>2. sessions'[s].user = sessions[s].user
    BY RowsKept DEF RowKept
  <2>3. sessions[s].mfa => Enrolment(sessions'[s].user) \in audit'
    BY <2>2, AuditGrows DEF MfaInv, MfaNeedsEnrolment, Enrolment
  <2> QED BY <2>1, <2>3
<1>3. ASSUME NEW p \in Procs, CommitLoginSuccess(p),
             NEW s \in DOMAIN sessions' \ DOMAIN sessions, sessions'[s].mfa
      PROVE  Enrolment(sessions'[s].user) \in audit'
  <2>1. \E f \in Families : sessions'[s] = RootSession(req[p], f)
    BY <1>3 DEF CommitLoginSuccess, Insert
  <2>2. sessions'[s].user = req[p].user /\ sessions'[s].mfa = (req[p].row.totp # None)
    BY <2>1 DEF RootSession
  <2>3. Enrolment(req[p].user) \in audit
    BY <1>3, <2>2 DEF MfaInv, CommitLoginSuccess, Serving
  <2> QED BY <2>2, <2>3, AuditGrows DEF Enrolment
<1>4. ASSUME NEW p \in Procs, CommitRotation(p),
             NEW s \in DOMAIN sessions' \ DOMAIN sessions, sessions'[s].mfa
      PROVE  Enrolment(sessions'[s].user) \in audit'
  <2>1. sessions'[s] = Successor(req[p]) /\ req[p].sid \in DOMAIN sessions
    BY <1>4, RotationEffect
  <2>2. sessions'[s].user = req[p].row.user /\ req[p].row.mfa
    BY <1>4, <2>1 DEF Successor
  <2>3. sessions[req[p].sid].mfa /\ sessions[req[p].sid].user = req[p].row.user
    BY <1>4, <2>2 DEF MfaInv, SnapshotInv, CommitRotation
  <2>4. Enrolment(req[p].row.user) \in audit
    BY <2>1, <2>3 DEF MfaInv, MfaNeedsEnrolment, Enrolment
  <2> QED BY <2>2, <2>4, AuditGrows DEF Enrolment
<1>5. ASSUME \A p \in Procs : ~AddsRows(p)
      PROVE  DOMAIN sessions' = DOMAIN sessions
  BY <1>5, RowsKeptInPlace
<1> QED BY <1>1, <1>2, <1>3, <1>4, <1>5 DEF AddsRows
-----------------------------------------------------------------------------
(* Claims and requests in flight.                                          *)

LEMMA ClaimsKept ==
    ASSUME TypeOK, SnapshotInv, MfaInv, [SystemNext]_vars, NEW t \in held', t.mfa
    PROVE  sessions'[t.sid].mfa
<1>1. CASE t \in held
  <2>1. t.sid \in DOMAIN sessions /\ sessions[t.sid].mfa
    BY <1>1 DEF TypeOK, MfaInv, MfaNeedsEnrolment
  <2> QED BY <2>1, SessionsEnrolled
<1>2. ASSUME NEW p \in Procs, CommitLoginSuccess(p), t \notin held
      PROVE  sessions'[t.sid].mfa
  <2>1. PICK s \in Sids \ DOMAIN sessions, f \in Families :
          /\ sessions' = Insert(sessions, s, RootSession(req[p], f))
          /\ Respond(s, req[p].row.totp # None) \/ UNCHANGED held
    BY <1>2 DEF CommitLoginSuccess
  <2>2. t = [sid |-> s, mfa |-> req[p].row.totp # None]
    BY <1>2, <2>1 DEF Respond
  <2>3. sessions'[s] = RootSession(req[p], f)
    BY <2>1 DEF Insert
  <2> QED BY <2>2, <2>3 DEF RootSession
<1>3. ASSUME NEW p \in Procs, CommitRotation(p), t \notin held
      PROVE  sessions'[t.sid].mfa
  <2>1. PICK s \in Sids \ DOMAIN sessions :
          /\ sessions' = Insert([sessions EXCEPT ![req[p].sid].revoked = "rotated"],
                                s, Successor(req[p]))
          /\ Respond(s, req[p].row.mfa)
    BY <1>3 DEF CommitRotation
  <2>2. t = [sid |-> s, mfa |-> req[p].row.mfa]
    BY <1>3, <2>1 DEF Respond
  <2>3. sessions'[s] = Successor(req[p])
    BY <2>1 DEF Insert
  <2> QED BY <2>2, <2>3 DEF Successor
<1>4. ASSUME \A p \in Procs : ~AddsRows(p)
      PROVE  held' = held
  BY <1>4 DEF SystemNext, Login, BeginLogin, CommitLoginFailure, Refresh, BeginRefresh,
         CommitReuse, CommitExpired, AddsRows, Logout, BeginFamilyRevoke, CommitFamilyRevoke,
         BeginLogoutAll, CommitLogoutAll, BeginBrowserLogout, CommitBrowserLogout,
         Totp, BeginTotpSetup, BeginTotpConfirm, BeginTotpDisable, StartTotp,
         CommitTotpSetup, CommitTotpConfirm, CommitTotpDisable, Crash, Tick, vars
<1> QED BY <1>1, <1>2, <1>3, <1>4 DEF AddsRows

LEMMA RequestsEnrolled ==
    ASSUME TypeOK, SnapshotInv, MfaInv, [SystemNext]_vars, NEW q \in Procs
    PROVE  /\ Serving(q, {"login", "admin_login"})' /\ req'[q].row.totp # None
                 => Enrolment(req'[q].user) \in audit'
           /\ Serving(q, {"refresh"})' /\ req'[q].row.mfa => sessions'[req'[q].sid].mfa
<1>1. ASSUME Serving(q, {"login", "admin_login"})', req'[q].row.totp # None
      PROVE  Enrolment(req'[q].user) \in audit'
  <2>1. CASE req'[q] = req[q] /\ Serving(q, {"login", "admin_login"})
    BY <1>1, <2>1, AuditGrows DEF MfaInv, Enrolment
  <2>2. CASE /\ req'[q].user \in Users
             /\ req'[q].row = users[req'[q].user] /\ UNCHANGED users
    <3>1. users[req'[q].user].totp # None
      BY <1>1, <2>2
    <3> QED BY <2>2, <3>1, AuditGrows DEF MfaInv, MfaNeedsEnrolment, Enrolment
  <2> QED BY <1>1, <2>1, <2>2, LoginOrigin
<1>2. ASSUME Serving(q, {"refresh"})', req'[q].row.mfa
      PROVE  sessions'[req'[q].sid].mfa
  <2>1. CASE req'[q] = req[q] /\ Serving(q, {"refresh"})
    <3>1. req[q].sid \in DOMAIN sessions /\ sessions[req[q].sid].mfa
      BY <1>2, <2>1 DEF MfaInv, SnapshotInv
    <3> QED BY <2>1, <3>1, SessionsEnrolled
  <2>2. CASE \E t \in held : UNCHANGED sessions /\ req'[q] = Refreshing(t)
    BY <1>2, <2>2 DEF Refreshing
  <2> QED BY <1>2, <2>1, <2>2, RefreshOrigin
<1> QED BY <1>1, <1>2

LEMMA MfaStep == TypeOK /\ SnapshotInv /\ MfaInv /\ [SystemNext]_vars => MfaInv'
<1> SUFFICES ASSUME TypeOK, SnapshotInv, MfaInv, [SystemNext]_vars PROVE MfaInv'
  OBVIOUS
<1>1. MfaNeedsEnrolment'
  BY SessionsEnrolled, SecretsEnrolled, ClaimsKept DEF MfaNeedsEnrolment, Enrolment
<1> QED BY <1>1, RequestsEnrolled DEF MfaInv
-----------------------------------------------------------------------------
(* No interleaving of sign-ins, rotations, enrolments and removals, and no *)
(* dying worker, makes a session or an access token count as MFA-verified  *)
(* for an account that never confirmed TOTP.  The assumption is that no    *)
(* account has TOTP when the database is set up.                           *)
THEOREM SystemMfaNeedsEnrolment == SystemSpec => []MfaNeedsEnrolment
<1>1. Init => MfaInv
  <2> SUFFICES ASSUME Init PROVE MfaInv
    OBVIOUS
  <2>1. \A u \in Users : users[u].totp = None
    BY ConstantsAssumption DEF Init, ConstantsAssumption, RegisteredRow
  <2> QED BY <2>1 DEF Init, MfaInv, MfaNeedsEnrolment, Serving
<1>2. MfaInv => MfaNeedsEnrolment
  BY DEF MfaInv
<1> QED BY <1>1, <1>2, MfaStep, SystemTypeOK, SystemSnapshots, PTL DEF SystemSpec
-----------------------------------------------------------------------------
(* MFA beside the account endpoints.                                       *)

(* No account endpoint enrols an account, and none of them leaves a secret *)
(* where there was no enrolment: a new account has none, and a reset keeps *)
(* what the table holds.                                                   *)
LEMMA AccountSecrets ==
    ASSUME AccountInv, MfaInv, NEW p \in Procs, Account(p),
           NEW u \in Users, users'[u].totp # None
    PROVE  Enrolment(u) \in audit'
<1>0. TypeOK /\ audit \subseteq audit'
  BY AuditOfAccounts DEF AccountInv, AccountTypeOK, AccountNext
<1>1. users[u].totp # None => Enrolment(u) \in audit'
  BY <1>0 DEF MfaInv, MfaNeedsEnrolment, Enrolment
<1>2. CASE UNCHANGED users
  BY <1>1, <1>2
<1>3. CASE CommitRegister(p)
  <2>1. \/ UNCHANGED users
        \/ users' = [users EXCEPT ![req[p].user] = FreshRow(req[p].password)]
    BY <1>3 DEF CommitRegister
  <2>2. FreshRow(req[p].password).totp = None
    BY DEF FreshRow
  <2> QED BY <1>0, <1>1, <2>1, <2>2 DEF TypeOK
<1>4. CASE CommitReset(p)
  <2> DEFINE r == req[p]
             flushed == FlushUser(users[r.user], r.row, AfterReset(r))
  <2>1. r \in ResetRequest
    BY <1>0, <1>4, RequestKinds DEF TypeOK, CommitReset, Serving
  <2>2. r.user \in Users /\ r.row \in UserRow /\ AfterReset(r).totp = r.row.totp
    BY <2>1 DEF ResetRequest, AfterReset, UserRow
  <2>3. users' = [users EXCEPT ![r.user] = [flushed EXCEPT !.hash = FreshHash(r.password)]]
    BY <1>4 DEF CommitReset
  <2>4. flushed.totp = users[r.user].totp
    BY <2>2 DEF FlushUser, Column
  <2>5. [flushed EXCEPT !.hash = FreshHash(r.password)].totp = users[r.user].totp
    BY <2>4 DEF FlushUser
  <2>6. users'[u].totp = users[u].totp
    <3> HIDE DEF flushed, r
    <3> QED BY <1>0, <2>2, <2>3, <2>5 DEF TypeOK
  <2> QED BY <1>1, <2>6
<1> QED BY <1>2, <1>3, <1>4 DEF Account, BeginRegister, BeginResend, BeginForgot,
                                CommitIssue, BeginVerify, CommitVerify, BeginReset

(* Nor do they touch the MFA instant of a session.                         *)
LEMMA AccountRowsMfa ==
    ASSUME TypeOK, NEW p \in Procs, Account(p), NEW s \in DOMAIN sessions
    PROVE  sessions'[s].mfa = sessions[s].mfa
<1>1. CASE UNCHANGED sessions
  BY <1>1
<1>2. CASE CommitReset(p)
  <2>1. sessions' = Revoke(UserRows(req[p].user), "password_reset")
    BY <1>2 DEF CommitReset
  <2>2. sessions[s] \in SessionRow
    BY DEF TypeOK
  <2> QED BY <2>1, <2>2 DEF Revoke, SessionRow
<1> QED BY <1>1, <1>2, AccountRows

LEMMA AccountMfaStep ==
    ASSUME AccountInv, MfaInv, NEW p \in Procs, Account(p)
    PROVE  MfaInv'
<1>0. AccountTypeOK /\ TypeOK /\ OnlyRegistered /\ audit \subseteq audit' /\ UNCHANGED held
  BY AuditOfAccounts, AccountRows DEF AccountInv, AccountTypeOK, AccountNext
<1>1. ASSUME NEW s \in DOMAIN sessions PROVE sessions'[s].mfa = sessions[s].mfa
  BY <1>0, <1>1, AccountRowsMfa
<1>2. DOMAIN sessions' = DOMAIN sessions /\ \A s \in DOMAIN sessions : RowKept(s)
  BY <1>0, AccountRows
<1>3. ASSUME NEW s \in DOMAIN sessions', sessions'[s].mfa
      PROVE  Enrolment(sessions'[s].user) \in audit'
  BY <1>0, <1>1, <1>2, <1>3 DEF RowKept, MfaInv, MfaNeedsEnrolment, Enrolment
<1>4. ASSUME NEW t \in held', t.mfa PROVE sessions'[t.sid].mfa
  BY <1>0, <1>1, <1>4 DEF TypeOK, MfaInv, MfaNeedsEnrolment
<1>5. MfaNeedsEnrolment'
  BY <1>3, <1>4, AccountSecrets DEF MfaNeedsEnrolment, Enrolment
<1>6. ASSUME NEW q \in Procs, Serving(q, {"login", "admin_login"})', req'[q].row.totp # None
      PROVE  Enrolment(req'[q].user) \in audit'
  <2>1. req'[q] = req[q] /\ Serving(q, {"login", "admin_login"})
    BY <1>0, <1>6, AccountRequests DEF Serving
  <2> QED BY <1>0, <1>6, <2>1 DEF MfaInv, Enrolment
<1>7. ASSUME NEW q \in Procs, Serving(q, {"refresh"})', req'[q].row.mfa
      PROVE  sessions'[req'[q].sid].mfa
  <2>1. req'[q] = req[q] /\ Serving(q, {"refresh"})
    BY <1>0, <1>7, AccountRefreshes DEF Serving
  <2>2. req[q].sid \in DOMAIN sessions
    BY <1>0, <2>1 DEF TypeOK, Serving
  <2> QED BY <1>1, <1>7, <2>1, <2>2 DEF MfaInv
<1> QED BY <1>5, <1>6, <1>7 DEF MfaInv

(* MFA only by enrolment, with the account endpoints beside the others: a  *)
(* reset keeps the second factor and the MFA instants, and an account that *)
(* registers starts without one.                                           *)
THEOREM MfaOnlyByEnrolment == AccountSpec => []MfaNeedsEnrolment
<1>1. Init => MfaInv
  <2> SUFFICES ASSUME Init PROVE MfaInv
    OBVIOUS
  <2>1. \A u \in Users : users[u].totp = None
    BY ConstantsAssumption DEF Init, ConstantsAssumption, RegisteredRow
  <2> QED BY <2>1 DEF Init, MfaInv, MfaNeedsEnrolment, Serving
<1>2. AccountInv /\ MfaInv /\ [AccountNext]_vars => MfaInv'
  BY MfaStep, AccountMfaStep DEF AccountNext, AccountInv, AccountTypeOK
<1>3. MfaInv => MfaNeedsEnrolment
  BY DEF MfaInv
<1> QED BY <1>1, <1>2, <1>3, AccountInvariant, PTL DEF AccountSpec

(* The system of sign-ins, rotations, revocations and TOTP alone is the    *)
(* account system in which nobody calls an account endpoint, so what holds *)
(* of that one holds of it: descent and audit, for every interleaving.     *)
COROLLARY SystemHistory == SystemSpec => []FamilyLineage /\ []AuditTrail
<1>1. [SystemNext]_vars => [AccountNext]_vars
  BY DEF AccountNext
<1>2. SystemSpec => AccountSpec
  BY <1>1, PTL DEF SystemSpec, AccountSpec
<1> QED BY <1>2, RotationsKeepLineage, RevocationsAreAudited, PTL
=============================================================================
