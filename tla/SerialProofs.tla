------------------------------ MODULE SerialProofs ------------------------------
(***************************************************************************)
(* What TLAPS proves about AccountSystem when one worker serves one        *)
(* request at a time, which is the case the documents and the tests of     *)
(* the repository describe: a request still dies anywhere and the clock    *)
(* still moves, but what a handler has read is what it writes to.          *)
(***************************************************************************)
EXTENDS HistoryProofs

OneWorker == \A p, q \in Procs : p = q

-----------------------------------------------------------------------------
(* What one worker gains.                                                  *)

(* While a request is in flight nothing else writes: a request that a step *)
(* leaves in flight has seen nothing change.                               *)
LEMMA NobodyElse ==
    ASSUME AccountInv, OneWorker, [AccountNext]_vars,
           NEW q \in Procs, req'[q] = req[q], req[q] # None
    PROVE  UNCHANGED <<users, sessions, audit>>
<1> DEFINE Goal == UNCHANGED <<users, sessions, audit>>
<1>0. req \in [Procs -> Request \cup {None}]
  BY DEF AccountInv, AccountTypeOK, TypeOK
<1>1. ASSUME NEW p \in Procs, Idle(p) \/ Finish(p) PROVE Goal
  <2>1. p = q
    BY DEF OneWorker
  <2> QED BY <1>0, <1>1, <2>1 DEF Idle, Finish
<1>2. ASSUME NEW p \in Procs, NEW r, Start(p, r), r.op # req[p].op PROVE Goal
  <2>1. p = q /\ req'[p] = r
    BY <1>0, <1>2 DEF OneWorker, Start
  <2> QED BY <1>2, <2>1
<1>3. ASSUME NEW p \in Procs, CommitLoginSuccess(p) PROVE Goal
  <2>1. \/ Finish(p)
        \/ \E f \in Families :
             Start(p, [op |-> "admin_role_rejected", user |-> req[p].user, family |-> f])
    BY <1>3 DEF CommitLoginSuccess
  <2>2. req[p].op \in {"login", "admin_login"}
    BY <1>3 DEF CommitLoginSuccess, Serving
  <2>3. ASSUME NEW f \in Families,
               Start(p, [op |-> "admin_role_rejected", user |-> req[p].user, family |-> f])
        PROVE  Goal
    <3>1. [op |-> "admin_role_rejected", user |-> req[p].user, family |-> f].op # req[p].op
      BY <2>2
    <3> QED BY <1>2, <2>3, <3>1
  <2> QED BY <1>1, <2>1, <2>3
<1>4. ASSUME NEW p \in Procs, CommitRegister(p) PROVE Goal
  <2>1. Finish(p) \/ Start(p, Issuing(req[p].user, "email_verification"))
    BY <1>4 DEF CommitRegister
  <2>2. Issuing(req[p].user, "email_verification").op # req[p].op
    BY <1>4 DEF CommitRegister, Serving, Issuing
  <2> QED BY <1>1, <1>2, <2>1, <2>2
<1> HIDE DEF Goal
<1>5. ASSUME NEW p \in Procs, Login(p) PROVE Goal
  BY <1>1, <1>3, <1>5 DEF Login, BeginLogin, CommitLoginFailure
<1>6. ASSUME NEW p \in Procs, Refresh(p) PROVE Goal
  BY <1>1, <1>6 DEF Refresh, BeginRefresh, CommitReuse, CommitExpired, CommitRotation
<1>7. ASSUME NEW p \in Procs, Logout(p) PROVE Goal
  BY <1>1, <1>7 DEF Logout, BeginFamilyRevoke, CommitFamilyRevoke, BeginLogoutAll,
                    CommitLogoutAll, BeginBrowserLogout, CommitBrowserLogout
<1>8. ASSUME NEW p \in Procs, Totp(p) PROVE Goal
  BY <1>1, <1>8 DEF Totp, BeginTotpSetup, BeginTotpConfirm, BeginTotpDisable, StartTotp,
                    CommitTotpSetup, CommitTotpConfirm, CommitTotpDisable
<1>9. ASSUME NEW p \in Procs, Account(p) PROVE Goal
  BY <1>1, <1>4, <1>9 DEF Account, BeginRegister, BeginResend, BeginForgot, CommitIssue,
                          BeginVerify, CommitVerify, BeginReset, CommitReset
<1>10. ASSUME Tick \/ UNCHANGED vars PROVE Goal
  BY <1>10 DEF Tick, vars, Goal
<1>11. ASSUME NEW p \in Procs, Crash(p) PROVE Goal
  BY <1>1, <1>11 DEF Crash
<1>12. Goal
  BY <1>5, <1>6, <1>7, <1>8, <1>9, <1>10, <1>11 DEF AccountNext, SystemNext
<1> QED BY <1>12 DEF Goal

(* A request in flight that was not there before: its worker has just      *)
(* begun it, or goes on with the second transaction of the one it served.  *)
Begins(q) ==
    \/ BeginLogin(q) \/ BeginRefresh(q)
    \/ BeginFamilyRevoke(q) \/ BeginLogoutAll(q) \/ BeginBrowserLogout(q)
    \/ BeginTotpSetup(q) \/ BeginTotpConfirm(q) \/ BeginTotpDisable(q)
    \/ BeginRegister(q) \/ BeginResend(q) \/ BeginForgot(q)
    \/ BeginVerify(q) \/ BeginReset(q)

GoesOn(q) == CommitLoginSuccess(q) \/ CommitRegister(q)

LEMMA RequestBegins ==
    ASSUME AccountInv, [AccountNext]_vars,
           NEW q \in Procs, req'[q] # req[q], req'[q] # None
    PROVE  Begins(q) \/ GoesOn(q)
<1> DEFINE Goal == Begins(q) \/ GoesOn(q)
<1>0. req \in [Procs -> Request \cup {None}]
  BY DEF AccountInv, AccountTypeOK, TypeOK
<1>1. ASSUME NEW p \in Procs, Finish(p) PROVE Goal
  BY <1>0, <1>1 DEF Finish
<1>2. ASSUME NEW p \in Procs, \E r : Start(p, r) PROVE p = q
  BY <1>0, <1>2 DEF Start
<1>3. ASSUME NEW p \in Procs, Begins(p) \/ GoesOn(p) PROVE Goal
  <2>1. Finish(p) \/ \E r : Start(p, r)
    BY <1>3 DEF Begins, GoesOn, BeginLogin, BeginRefresh, BeginFamilyRevoke,
         BeginLogoutAll, BeginBrowserLogout, BeginTotpSetup, BeginTotpConfirm,
         BeginTotpDisable, StartTotp, BeginRegister, BeginResend, BeginForgot,
         BeginVerify, BeginReset, CommitLoginSuccess, CommitRegister
  <2> QED BY <1>1, <1>2, <1>3, <2>1
<1> HIDE DEF Goal
<1>4. ASSUME NEW p \in Procs, Login(p) \/ Refresh(p) \/ Logout(p) \/ Totp(p) PROVE Goal
  BY <1>1, <1>3, <1>4
     DEF Login, Refresh, Logout, Totp, Begins, GoesOn, CommitLoginFailure,
         CommitReuse, CommitExpired, CommitRotation, CommitFamilyRevoke, CommitLogoutAll,
         CommitBrowserLogout, CommitTotpSetup, CommitTotpConfirm, CommitTotpDisable
<1>5. ASSUME NEW p \in Procs, Account(p) PROVE Goal
  BY <1>1, <1>3, <1>5 DEF Account, Begins, GoesOn, CommitIssue, CommitVerify, CommitReset
<1>6. Goal
  BY <1>1, <1>4, <1>5 DEF AccountNext, SystemNext, Crash, Tick, vars
<1> QED BY <1>6 DEF Goal

(* What the request is that a worker has just begun. *)
LEMMA RequestBegun ==
    ASSUME AccountInv, NEW q \in Procs, Begins(q) \/ GoesOn(q), req'[q] # None
    PROVE  /\ req'[q].op \in {"web_logout", "admin_logout"} => BeginBrowserLogout(q)
           /\ req'[q].op = "password_reset" => BeginReset(q)
<1> DEFINE Ops == {"web_logout", "admin_logout", "password_reset"}
<1>0. req \in [Procs -> Request \cup {None}]
  BY DEF AccountInv, AccountTypeOK, TypeOK
<1>1. BeginLogin(q) => req'[q].op \notin Ops
  BY <1>0 DEF BeginLogin, Start
<1>2. BeginRefresh(q) => req'[q].op \notin Ops
  BY <1>0 DEF BeginRefresh, Start
<1>3. BeginFamilyRevoke(q) => req'[q].op \notin Ops
  BY <1>0 DEF BeginFamilyRevoke, Start
<1>4. BeginLogoutAll(q) => req'[q].op \notin Ops
  BY <1>0 DEF BeginLogoutAll, Start
<1>5. BeginBrowserLogout(q) => req'[q].op \in {"web_logout", "admin_logout"}
  BY <1>0 DEF BeginBrowserLogout, Start
<1>6. ASSUME NEW op \in TotpEndpoints, NEW t, NEW secret, StartTotp(q, op, t, secret)
      PROVE  req'[q].op \notin Ops
  <2>1. \E r : Start(q, r) /\ r.op = op
    <3> DEFINE user == sessions[t.sid].user
               r == [op |-> op, user |-> user, row |-> users[user],
                     family |-> sessions[t.sid].family, secret |-> secret]
    <3>1. Start(q, r) /\ r.op = op
      BY <1>6 DEF StartTotp
    <3> QED BY <3>1
  <2>2. req'[q].op = op
    BY <1>0, <2>1 DEF Start
  <2> QED BY <2>2 DEF TotpEndpoints
<1>7. BeginTotpSetup(q) \/ BeginTotpConfirm(q) \/ BeginTotpDisable(q) => req'[q].op \notin Ops
  BY <1>6 DEF BeginTotpSetup, BeginTotpConfirm, BeginTotpDisable, TotpEndpoints
<1>8. BeginRegister(q) => req'[q].op \notin Ops
  BY <1>0 DEF BeginRegister, Start
<1>9. BeginResend(q) \/ BeginForgot(q) => req'[q].op \notin Ops
  BY <1>0 DEF BeginResend, BeginForgot, Start, Issuing
<1>10. BeginVerify(q) => req'[q].op \notin Ops
  BY <1>0 DEF BeginVerify, Start
<1>11. BeginReset(q) => req'[q].op = "password_reset"
  BY <1>0 DEF BeginReset, Start
<1>12. CommitLoginSuccess(q) => req'[q].op \notin Ops
  <2>1. CommitLoginSuccess(q) =>
           \/ Finish(q)
           \/ \E f \in Families :
                Start(q, [op |-> "admin_role_rejected", user |-> req[q].user, family |-> f])
    BY DEF CommitLoginSuccess
  <2> QED BY <1>0, <2>1 DEF Finish, Start
<1>13. CommitRegister(q) => req'[q].op \notin Ops
  BY <1>0 DEF CommitRegister, Finish, Start, Issuing
<1> QED BY <1>1, <1>2, <1>3, <1>4, <1>5, <1>7, <1>8, <1>9, <1>10, <1>11, <1>12, <1>13
        DEF Begins, GoesOn

(* A reset in flight was so before, or has just read its account. *)
LEMMA ResetBegins ==
    ASSUME AccountInv, [AccountNext]_vars, NEW q \in Procs, Serving(q, {"password_reset"})'
    PROVE  \/ req'[q] = req[q] /\ Serving(q, {"password_reset"})
           \/ req'[q].row = users[req'[q].user] /\ UNCHANGED users
<1>0. req \in [Procs -> Request \cup {None}]
  BY DEF AccountInv, AccountTypeOK, TypeOK
<1>1. CASE req'[q] = req[q]
  BY <1>1 DEF Serving
<1>2. CASE BeginReset(q)
  <2>1. PICK t \in mailbox, pw \in Passwords :
          Start(q, [op |-> "password_reset", user |-> tokens[t].user,
                    row |-> users[tokens[t].user], token |-> t, password |-> pw])
    BY <1>2 DEF BeginReset
  <2> QED BY <1>0, <1>2, <2>1 DEF BeginReset, Start
<1> QED BY <1>1, <1>2, RequestBegins, RequestBegun DEF Serving

(* What a handler decides on is what the tables hold. *)
FreshReads ==
    \A q \in Procs :
        /\ Serving(q, {"refresh"}) => req[q].row = sessions[req[q].sid]
        /\ Serving(q, {"login", "admin_login", "password_reset"}) =>
              req[q].row = users[req[q].user]

LEMMA FreshReadsStep == AccountInv /\ OneWorker /\ FreshReads /\ [AccountNext]_vars => FreshReads'
<1> SUFFICES ASSUME AccountInv, OneWorker, FreshReads, [AccountNext]_vars, NEW q \in Procs
             PROVE  /\ Serving(q, {"refresh"})' => req'[q].row = sessions'[req'[q].sid]
                    /\ Serving(q, {"login", "admin_login", "password_reset"})' =>
                          req'[q].row = users'[req'[q].user]
  BY DEF FreshReads
<1>1. CASE req'[q] = req[q] /\ req[q] # None
  BY <1>1, NobodyElse DEF FreshReads, Serving
<1>2. CASE ~(req'[q] = req[q] /\ req[q] # None)
  <2>1. ASSUME Serving(q, {"refresh"})' PROVE req'[q].row = sessions'[req'[q].sid]
    <3>1. PICK t \in held : UNCHANGED sessions /\ req'[q] = Refreshing(t)
      BY <1>2, <2>1, RefreshBegins DEF Serving
    <3> QED BY <3>1 DEF Refreshing
  <2>2. ASSUME Serving(q, {"login", "admin_login"})' PROVE req'[q].row = users'[req'[q].user]
    BY <1>2, <2>2, LoginBegins DEF Serving
  <2>3. ASSUME Serving(q, {"password_reset"})' PROVE req'[q].row = users'[req'[q].user]
    BY <1>2, <2>3, ResetBegins DEF Serving
  <2> QED BY <2>1, <2>2, <2>3 DEF Serving
<1> QED BY <1>1, <1>2

LEMMA SerialReads == AccountSpec /\ OneWorker => []FreshReads
<1>1. Init => FreshReads
  BY DEF Init, FreshReads, Serving
<1>2. (AccountInv /\ OneWorker) /\ FreshReads /\ [AccountNext]_vars => FreshReads'
  BY FreshReadsStep
<1>3. OneWorker => OneWorker'
  BY DEF OneWorker
<1> QED BY <1>1, <1>2, <1>3, AccountInvariant, PTL DEF AccountSpec
-----------------------------------------------------------------------------
(* Revocation is final.                                                    *)

(* The entries that say a family was revoked. *)
FamilyEntries == {"auth.session_revoke", "auth.refresh_reuse_detected", "auth.browser_logout"}

(* They name families that have been opened, and so do the requests that   *)
(* write one without looking for rows.  This needs no single worker.       *)
OnlyUsed ==
    /\ \A a \in FamilyEntries, f \in Families : Log(a, f) \in audit => f \in UsedFamilies
    /\ \A q \in Procs :
          Serving(q, {"web_logout", "admin_logout"}) => req[q].family \in UsedFamilies

LEMMA UsedStay ==
    ASSUME AccountInv, [AccountNext]_vars
    PROVE  UsedFamilies \subseteq UsedFamilies'
  BY RowsOfAccounts DEF UsedFamilies, RowKept

(* A step that adds one entry says of no family that it was revoked, or    *)
(* says it of one that was opened.                                         *)
LEMMA FamilyEntryStep ==
    ASSUME AccountInv, OnlyUsed, [AccountNext]_vars,
           NEW a \in FamilyEntries, NEW f \in Families, Log(a, f) \in audit'
    PROVE  Log(a, f) \in audit \/ f \in UsedFamilies
<1> DEFINE Goal == Log(a, f) \in audit \/ f \in UsedFamilies
<1>0. TypeOK /\ SnapshotInv
  BY DEF AccountInv, AccountTypeOK
<1>1. ASSUME UNCHANGED audit PROVE Goal
  BY <1>1
<1>2. ASSUME NEW b, NEW x, audit' = audit \cup {Log(b, x)},
             b \notin FamilyEntries \/ x \in UsedFamilies
      PROVE  Goal
  <2>1. Log(a, f) = Log(b, x) => a = b /\ f = x
    BY DEF Log
  <2> QED BY <1>2, <2>1
<1>3. ASSUME NEW p \in Procs, Login(p) PROVE Goal
  <2>1. CASE CommitLoginSuccess(p)
    <3>1. \E g : audit' = audit \cup {Log("auth.login", g)}
      BY <2>1 DEF CommitLoginSuccess
    <3> QED BY <1>2, <3>1 DEF FamilyEntries
  <2>2. CASE CommitLoginFailure(p)
    <3>1. audit' = audit \cup {Log("auth.login.failure", req[p].user)}
      BY <2>2 DEF CommitLoginFailure
    <3> QED BY <1>2, <3>1 DEF FamilyEntries
  <2> QED BY <1>1, <1>3, <2>1, <2>2 DEF Login, BeginLogin
<1>4. ASSUME NEW p \in Procs, Refresh(p) PROVE Goal
  <2>1. CASE CommitReuse(p)
    <3>1. audit' = audit \cup {Log("auth.refresh_reuse_detected", req[p].row.family)}
      BY <2>1 DEF CommitReuse
    <3>2. req[p].row.family \in UsedFamilies
      BY <1>0, <2>1 DEF SnapshotInv, CommitReuse, UsedFamilies
    <3> QED BY <1>2, <3>1, <3>2
  <2>2. CASE CommitRotation(p)
    <3>1. audit' = audit \cup {Log("auth.refresh", req[p].row.family)}
      BY <2>2 DEF CommitRotation
    <3> QED BY <1>2, <3>1 DEF FamilyEntries
  <2> QED BY <1>1, <1>4, <2>1, <2>2 DEF Refresh, BeginRefresh, CommitExpired
<1>5. ASSUME NEW p \in Procs, Logout(p) PROVE Goal
  <2>1. CASE CommitFamilyRevoke(p)
    <3>1. Revocable(req[p]) # {} => req[p].family \in UsedFamilies
      BY DEF Revocable, ActiveRows, FamilyRows, UsedFamilies
    <3>2. \/ UNCHANGED audit
          \/ /\ Revocable(req[p]) # {}
             /\ audit' = audit \cup {Log("auth.session_revoke", req[p].family)}
      BY <2>1 DEF CommitFamilyRevoke
    <3> QED BY <1>1, <1>2, <3>1, <3>2
  <2>2. CASE CommitLogoutAll(p)
    <3>1. audit' = audit \cup {Log("auth.logout_all", req[p].user)}
      BY <2>2 DEF CommitLogoutAll
    <3> QED BY <1>2, <3>1 DEF FamilyEntries
  <2>3. CASE CommitBrowserLogout(p)
    <3>1. /\ audit' = audit \cup {Log("auth.browser_logout", req[p].family)}
          /\ req[p].family \in UsedFamilies
      BY <2>3 DEF CommitBrowserLogout, OnlyUsed
    <3> QED BY <1>2, <3>1
  <2> QED BY <1>1, <1>5, <2>1, <2>2, <2>3 DEF Logout, BeginFamilyRevoke, BeginLogoutAll,
                                              BeginBrowserLogout
<1>6. ASSUME NEW p \in Procs, Totp(p) PROVE Goal
  <2>1. \/ UNCHANGED audit
        \/ \E b \in {"auth.totp.setup_started", "auth.totp.enabled", "auth.totp.disabled"} :
             audit' = audit \cup {Log(b, req[p].user)}
    BY <1>6 DEF Totp, BeginTotpSetup, BeginTotpConfirm, BeginTotpDisable, StartTotp,
                CommitTotpSetup, CommitTotpConfirm, CommitTotpDisable
  <2> QED BY <1>1, <1>2, <2>1 DEF FamilyEntries
<1>7. ASSUME NEW p \in Procs, Account(p) PROVE Goal
  <2>1. \/ UNCHANGED audit
        \/ \E b \in AuditActions \ FamilyEntries : audit' = audit \cup {Log(b, req[p].user)}
    BY <1>7 DEF Account, BeginRegister, CommitRegister, BeginResend, BeginForgot, CommitIssue,
                BeginVerify, CommitVerify, BeginReset, CommitReset, IssuedAction,
                AuditActions, FamilyEntries
  <2> QED BY <1>1, <1>2, <2>1
<1> HIDE DEF Goal
<1>8. ASSUME Tick \/ UNCHANGED vars \/ \E p \in Procs : Crash(p) PROVE Goal
  BY <1>1, <1>8 DEF Tick, vars, Crash
<1>9. Goal
  BY <1>3, <1>4, <1>5, <1>6, <1>7, <1>8 DEF AccountNext, SystemNext
<1> QED BY <1>9 DEF Goal

LEMMA OnlyUsedStep == AccountInv /\ OnlyUsed /\ [AccountNext]_vars => OnlyUsed'
<1> SUFFICES ASSUME AccountInv, OnlyUsed, [AccountNext]_vars PROVE OnlyUsed'
  OBVIOUS
<1>1. ASSUME NEW a \in FamilyEntries, NEW f \in Families, Log(a, f) \in audit'
      PROVE  f \in UsedFamilies'
  BY <1>1, FamilyEntryStep, UsedStay DEF OnlyUsed
<1>2. ASSUME NEW q \in Procs, Serving(q, {"web_logout", "admin_logout"})'
      PROVE  req'[q].family \in UsedFamilies'
  <2>1. CASE req'[q] = req[q]
    BY <1>2, <2>1, UsedStay DEF OnlyUsed, Serving
  <2>2. CASE BeginBrowserLogout(q)
    <3>1. PICK e \in {"web_logout", "admin_logout"}, t \in held :
            Start(q, [op |-> e, user |-> sessions[t.sid].user,
                      family |-> sessions[t.sid].family])
      BY <2>2 DEF BeginBrowserLogout
    <3>2. req'[q].family = sessions[t.sid].family /\ t.sid \in DOMAIN sessions
      BY <3>1 DEF Start, AccountInv, AccountTypeOK, TypeOK
    <3> QED BY <3>2, UsedStay DEF UsedFamilies
  <2> QED BY <1>2, <2>1, <2>2, RequestBegins, RequestBegun DEF Serving
<1> QED BY <1>1, <1>2 DEF OnlyUsed

Hit(f) ==
    \/ \E a \in FamilyEntries : Log(a, f) \in audit
    \/ \E s \in DOMAIN sessions :
          sessions[s].family = f /\ sessions[s].revoked \in {"logout_all", "password_reset"}

LEMMA HitMeans ==
    RevocationIsFinal <=> \A f \in Families : Hit(f) => ActiveRows(f) = {}
  BY DEF RevocationIsFinal, Hit, FamilyEntries, FamilyRows

(* The step revokes every row of the family that is still active. *)
Ends(f) ==
    \E rows : \E reason \in RevokeReasons :
        sessions' = Revoke(rows, reason) /\ ActiveRows(f) \subseteq rows

(* A step that says of a family that it was revoked, in the log or in a    *)
(* row, revokes all of it.                                                 *)
LEMMA QuietStep ==
    ASSUME AccountInv, [AccountNext]_vars, NEW f \in Families,
           \A a \in FamilyEntries : Log(a, f) \in audit' => Log(a, f) \in audit,
           \A s \in DOMAIN sessions' :
              sessions'[s].revoked \in {"logout_all", "password_reset"}
                 => s \in DOMAIN sessions /\ sessions[s].revoked = sessions'[s].revoked
    PROVE  Hit(f)' => Hit(f)
  BY RowsOfAccounts DEF Hit, RowKept

LEMMA RevokeHits ==
    ASSUME AccountInv, OneOwner, [AccountNext]_vars, NEW f \in Families,
           NEW rows, NEW reason \in RevokeReasons, NEW b, NEW x,
           sessions' = Revoke(rows, reason), audit' = audit \cup {Log(b, x)},
           b \in FamilyEntries /\ x = f => ActiveRows(f) \subseteq rows,
           reason \in {"logout_all", "password_reset"} =>
              \E u : rows = UserRows(u)
    PROVE  Hit(f)' => Hit(f) \/ Ends(f)
<1>0. TypeOK
  BY DEF AccountInv, AccountTypeOK
<1>1. CASE b \in FamilyEntries /\ x = f
  BY <1>1 DEF Ends
<1>2. CASE /\ reason \in {"logout_all", "password_reset"}
           /\ \E s \in rows \cap DOMAIN sessions : sessions[s].family = f
  <2>1. PICK u : rows = UserRows(u)
    BY <1>2
  <2>2. PICK s \in DOMAIN sessions : sessions[s].family = f /\ sessions[s].user = u
    BY <1>2, <2>1 DEF UserRows
  <2>3. \A o \in ActiveRows(f) : sessions[o].user = u
    BY <2>2 DEF OneOwner, ActiveRows, FamilyRows
  <2> QED BY <2>1, <2>3 DEF UserRows, ActiveRows, FamilyRows, Ends
<1>3. CASE /\ ~(b \in FamilyEntries /\ x = f)
           /\ ~(/\ reason \in {"logout_all", "password_reset"}
                /\ \E s \in rows \cap DOMAIN sessions : sessions[s].family = f)
  <2>1. \A a : Log(a, f) = Log(b, x) => a = b /\ f = x
    BY DEF Log
  <2>2. \A a \in FamilyEntries : Log(a, f) \in audit' => Log(a, f) \in audit
    BY <1>3, <2>1
  <2>3. ASSUME NEW s \in DOMAIN sessions', sessions'[s].family = f,
               sessions'[s].revoked \in {"logout_all", "password_reset"}
        PROVE  /\ s \in DOMAIN sessions /\ sessions[s].family = f
               /\ sessions[s].revoked \in {"logout_all", "password_reset"}
    <3>1. s \in DOMAIN sessions
      BY <2>3 DEF Revoke
    <3>2. sessions[s].family = f
      BY <2>3, <3>1, RowsOfAccounts DEF RowKept
    <3>3. \/ sessions'[s] = sessions[s]
          \/ s \in rows /\ sessions'[s] = [sessions[s] EXCEPT !.revoked = reason]
      BY <3>1 DEF Revoke
    <3>4. CASE s \in rows /\ sessions'[s] = [sessions[s] EXCEPT !.revoked = reason]
      <4>1. sessions'[s].revoked = reason
        BY <1>0, <3>1, <3>4 DEF TypeOK, SessionRow
      <4> QED BY <1>3, <2>3, <3>1, <3>2, <3>4, <4>1
    <3> QED BY <2>3, <3>1, <3>2, <3>3, <3>4
  <2> QED BY <2>2, <2>3 DEF Hit
<1> QED BY <1>1, <1>2, <1>3

LEMMA HitStep ==
    ASSUME AccountInv, OneOwner, [AccountNext]_vars, NEW f \in Families, Hit(f)'
    PROVE  Hit(f) \/ Ends(f)
<1> DEFINE Goal == Hit(f) \/ Ends(f)
           Kinds == {"logout_all", "password_reset"}
<1>0. TypeOK /\ None \notin RevokeReasons
  BY NoneAssumption DEF AccountInv, AccountTypeOK, NoneAssumption
<1>1. ASSUME NEW b, NEW x, UNCHANGED audit \/ audit' = audit \cup {Log(b, x)},
             b \notin FamilyEntries
      PROVE  \A a \in FamilyEntries : Log(a, f) \in audit' => Log(a, f) \in audit
  BY <1>1 DEF Log
<1>2. ASSUME NEW b, NEW x, UNCHANGED audit \/ audit' = audit \cup {Log(b, x)},
             b \notin FamilyEntries, UNCHANGED sessions
      PROVE  Goal
  <2>1. Hit(f)' => Hit(f)
    BY <1>1, <1>2, QuietStep
  <2> QED BY <2>1
<1>3. ASSUME UNCHANGED <<sessions, audit>> PROVE Goal
  BY <1>3 DEF Hit
<1>4. ASSUME NEW p \in Procs, CommitLoginSuccess(p) PROVE Goal
  <2>1. PICK g : audit' = audit \cup {Log("auth.login", g)}
    BY <1>4 DEF CommitLoginSuccess
  <2>2. \A s \in DOMAIN sessions' : sessions'[s].revoked \in Kinds
           => s \in DOMAIN sessions /\ sessions[s].revoked = sessions'[s].revoked
    BY <1>0, <1>4, SignInEffect DEF RevokeReasons
  <2>3. Hit(f)' => Hit(f)
    BY <1>1, <2>1, <2>2, QuietStep DEF FamilyEntries
  <2> QED BY <2>3
<1>5. ASSUME NEW p \in Procs, CommitLoginFailure(p) PROVE Goal
  <2>1. audit' = audit \cup {Log("auth.login.failure", req[p].user)} /\ UNCHANGED sessions
    BY <1>5 DEF CommitLoginFailure
  <2> QED BY <1>2, <2>1 DEF FamilyEntries
<1>6. ASSUME NEW p \in Procs, CommitReuse(p) PROVE Goal
  <2> DEFINE g == req[p].row.family
  <2>1. /\ sessions' = Revoke(FamilyRows(g), "refresh_token_reuse")
        /\ audit' = audit \cup {Log("auth.refresh_reuse_detected", g)}
    BY <1>6 DEF CommitReuse
  <2>2. g = f => ActiveRows(f) \subseteq FamilyRows(g)
    BY DEF ActiveRows
  <2> QED BY <2>1, <2>2, RevokeHits DEF RevokeReasons
<1>7. ASSUME NEW p \in Procs, CommitExpired(p) PROVE Goal
  <2>1. sessions' = [sessions EXCEPT ![req[p].sid].revoked = "expired"] /\ UNCHANGED audit
    BY <1>7 DEF CommitExpired
  <2>2. \A s \in DOMAIN sessions' : sessions'[s].revoked \in Kinds
           => s \in DOMAIN sessions /\ sessions[s].revoked = sessions'[s].revoked
    BY <1>0, <2>1 DEF TypeOK, SessionRow
  <2>3. Hit(f)' => Hit(f)
    BY <2>1, <2>2, QuietStep
  <2> QED BY <2>3
<1>8. ASSUME NEW p \in Procs, CommitRotation(p) PROVE Goal
  <2>1. audit' = audit \cup {Log("auth.refresh", req[p].row.family)}
    BY <1>8 DEF CommitRotation
  <2>2. \A row \in SessionRow : [row EXCEPT !.revoked = "rotated"].revoked = "rotated"
    BY DEF SessionRow
  <2>3. Successor(req[p]).revoked = None
    BY DEF Successor
  <2>4. \A s \in DOMAIN sessions' : sessions'[s].revoked \in Kinds
           => s \in DOMAIN sessions /\ sessions[s].revoked = sessions'[s].revoked
    <3>1. PICK n \in Sids \ DOMAIN sessions :
            /\ DOMAIN sessions' = DOMAIN sessions \cup {n}
            /\ sessions'[n] = Successor(req[p])
            /\ req[p].sid \in DOMAIN sessions
            /\ sessions'[req[p].sid] = [sessions[req[p].sid] EXCEPT !.revoked = "rotated"]
            /\ \A s \in DOMAIN sessions \ {req[p].sid} : sessions'[s] = sessions[s]
      BY <1>0, <1>8, RotationEffect
    <3>2. sessions'[req[p].sid].revoked = "rotated"
      BY <1>0, <2>2, <3>1 DEF TypeOK
    <3>3. None \notin Kinds
      BY <1>0 DEF RevokeReasons
    <3> QED BY <2>3, <3>1, <3>2, <3>3
  <2>5. Hit(f)' => Hit(f)
    BY <1>1, <2>1, <2>4, QuietStep DEF FamilyEntries
  <2> QED BY <2>5
<1>9. ASSUME NEW p \in Procs, CommitFamilyRevoke(p) PROVE Goal
  <2> DEFINE r == req[p]
  <2>1. r.op \in RevokeReasons \ Kinds
    BY <1>9 DEF CommitFamilyRevoke, Serving, RevokeReasons
  <2>2. \/ UNCHANGED <<sessions, audit>>
        \/ /\ Revocable(r) # {}
           /\ sessions' = Revoke(Revocable(r), r.op)
           /\ audit' = audit \cup {Log("auth.session_revoke", r.family)}
    BY <1>9 DEF CommitFamilyRevoke
  <2>3. Revocable(r) # {} /\ r.family = f => ActiveRows(f) \subseteq Revocable(r)
    BY DEF Revocable, ActiveRows, FamilyRows, OneOwner
  <2> HIDE DEF r
  <2> QED BY <1>3, <2>1, <2>2, <2>3, RevokeHits
<1>10. ASSUME NEW p \in Procs, CommitLogoutAll(p) PROVE Goal
  <2>1. /\ sessions' = Revoke(UserRows(req[p].user), "logout_all")
        /\ audit' = audit \cup {Log("auth.logout_all", req[p].user)}
    BY <1>10 DEF CommitLogoutAll
  <2> QED BY <2>1, RevokeHits DEF RevokeReasons, FamilyEntries
<1>11. ASSUME NEW p \in Procs, CommitBrowserLogout(p) PROVE Goal
  <2> DEFINE r == req[p]
  <2>1. r.op \in RevokeReasons \ Kinds
    BY <1>11 DEF CommitBrowserLogout, Serving, RevokeReasons
  <2>2. /\ sessions' = Revoke(FamilyRows(r.family), r.op)
        /\ audit' = audit \cup {Log("auth.browser_logout", r.family)}
    BY <1>11 DEF CommitBrowserLogout
  <2>3. r.family = f => ActiveRows(f) \subseteq FamilyRows(r.family)
    BY DEF ActiveRows
  <2> HIDE DEF r
  <2> QED BY <2>1, <2>2, <2>3, RevokeHits
<1>12. ASSUME NEW p \in Procs, CommitTotpConfirm(p) PROVE Goal
  <2>1. audit' = audit \cup {Log("auth.totp.enabled", req[p].user)}
    BY <1>12 DEF CommitTotpConfirm
  <2>2. /\ DOMAIN sessions' = DOMAIN sessions
        /\ \A s \in DOMAIN sessions :
              sessions'[s] \in {sessions[s], [sessions[s] EXCEPT !.mfa = TRUE]}
    BY <1>12 DEF CommitTotpConfirm
  <2>3. \A row \in SessionRow : [row EXCEPT !.mfa = TRUE].revoked = row.revoked
    BY DEF SessionRow
  <2>4. \A s \in DOMAIN sessions' : sessions'[s].revoked \in Kinds
           => s \in DOMAIN sessions /\ sessions[s].revoked = sessions'[s].revoked
    BY <1>0, <2>2, <2>3 DEF TypeOK
  <2>5. Hit(f)' => Hit(f)
    BY <1>1, <2>1, <2>4, QuietStep DEF FamilyEntries
  <2> QED BY <2>5
<1>13. ASSUME NEW p \in Procs, Totp(p) PROVE Goal
  <2>1. CASE CommitTotpSetup(p) \/ CommitTotpDisable(p)
    <3>1. /\ \E b \in {"auth.totp.setup_started", "auth.totp.disabled"} :
                audit' = audit \cup {Log(b, req[p].user)}
          /\ UNCHANGED sessions
      BY <2>1 DEF CommitTotpSetup, CommitTotpDisable
    <3> QED BY <1>2, <3>1 DEF FamilyEntries
  <2> QED BY <1>3, <1>12, <1>13, <2>1 DEF Totp, BeginTotpSetup, BeginTotpConfirm,
                                          BeginTotpDisable, StartTotp
<1>14. ASSUME NEW p \in Procs, CommitReset(p) PROVE Goal
  <2>1. /\ sessions' = Revoke(UserRows(req[p].user), "password_reset")
        /\ audit' = audit \cup {Log("auth.password_reset.completed", req[p].user)}
    BY <1>14 DEF CommitReset
  <2> QED BY <2>1, RevokeHits DEF RevokeReasons, FamilyEntries
<1>15. ASSUME NEW p \in Procs, Account(p), ~CommitReset(p) PROVE Goal
  <2>1. \/ UNCHANGED audit
        \/ \E b \in AuditActions \ FamilyEntries : audit' = audit \cup {Log(b, req[p].user)}
    BY <1>15 DEF Account, BeginRegister, CommitRegister, BeginResend, BeginForgot, CommitIssue,
                 BeginVerify, CommitVerify, BeginReset, IssuedAction,
                 AuditActions, FamilyEntries
  <2>2. UNCHANGED sessions
    BY <1>0, <1>15, AccountRows
  <2> QED BY <1>2, <1>3, <2>1, <2>2
<1> HIDE DEF Goal
<1>16. ASSUME NEW p \in Procs, Login(p) PROVE Goal
  BY <1>3, <1>4, <1>5, <1>16 DEF Login, BeginLogin
<1>17. ASSUME NEW p \in Procs, Refresh(p) PROVE Goal
  BY <1>3, <1>6, <1>7, <1>8, <1>17 DEF Refresh, BeginRefresh
<1>18. ASSUME NEW p \in Procs, Logout(p) PROVE Goal
  BY <1>3, <1>9, <1>10, <1>11, <1>18 DEF Logout, BeginFamilyRevoke, BeginLogoutAll,
                                         BeginBrowserLogout
<1>19. Goal
  BY <1>3, <1>13, <1>14, <1>15, <1>16, <1>17, <1>18
     DEF AccountNext, SystemNext, Crash, Tick, vars
<1> QED BY <1>19 DEF Goal

LEMMA FinalStep ==
    AccountInv /\ OneOwner /\ OnlyUsed /\ FreshReads /\ RevocationIsFinal /\ [AccountNext]_vars
        => RevocationIsFinal'
<1> SUFFICES ASSUME AccountInv, OneOwner, OnlyUsed, FreshReads, RevocationIsFinal,
                    [AccountNext]_vars, NEW f \in Families, Hit(f)',
                    NEW s \in DOMAIN sessions',
                    sessions'[s].family = f, sessions'[s].revoked = None
             PROVE  FALSE
  BY DEF RevocationIsFinal, Hit, FamilyEntries, FamilyRows, ActiveRows
<1>0. TypeOK /\ SnapshotInv /\ None \notin RevokeReasons
  BY NoneAssumption DEF AccountInv, AccountTypeOK, NoneAssumption
<1>1. s \in DOMAIN sessions => s \in ActiveRows(f)
  BY RowsOfAccounts DEF RowKept, ActiveRows, FamilyRows
<1>2. CASE Hit(f)
  <2>1. ActiveRows(f) = {}
    BY <1>2, HitMeans
  <2>2. f \in UsedFamilies
    BY <1>2 DEF Hit, OnlyUsed, UsedFamilies
  <2>3. ASSUME NEW p, NEW g \in Families \ UsedFamilies, sessions'[s] = RootSession(req[p], g)
        PROVE  FALSE
    BY <2>2, <2>3 DEF RootSession
  <2>4. ASSUME NEW p \in Procs, CommitRotation(p), sessions'[s] = Successor(req[p])
        PROVE  FALSE
    <3>1. /\ req[p].sid \in DOMAIN sessions /\ req[p].row = sessions[req[p].sid]
          /\ req[p].row.revoked = None
      BY <1>0, <2>4 DEF SnapshotInv, FreshReads, CommitRotation, Rotates, Reused
    <3>2. sessions[req[p].sid].family = f
      BY <2>4, <3>1 DEF Successor
    <3> QED BY <2>1, <3>1, <3>2 DEF ActiveRows, FamilyRows
  <2> QED BY <1>1, <2>1, <2>3, <2>4, NewRow
<1>3. CASE Ends(f)
  <2>1. PICK rows : \E reason \in RevokeReasons :
          sessions' = Revoke(rows, reason) /\ ActiveRows(f) \subseteq rows
    BY <1>3 DEF Ends
  <2>2. PICK reason \in RevokeReasons : sessions' = Revoke(rows, reason)
    BY <2>1
  <2>3. s \in DOMAIN sessions
    BY <2>2 DEF Revoke
  <2>4. sessions'[s] = [sessions[s] EXCEPT !.revoked = reason]
    BY <1>1, <2>1, <2>2, <2>3 DEF Revoke, ActiveRows
  <2>5. sessions'[s].revoked = reason
    BY <1>0, <2>3, <2>4 DEF TypeOK, SessionRow
  <2> QED BY <1>0, <2>5
<1> QED BY <1>2, <1>3, HitStep

(* One request at a time, a family that was revoked stays revoked: no      *)
(* token of a family works that the log or a row says was logged out,      *)
(* removed from the device list, reused, or hit by a logout-all or a       *)
(* password reset.  With two workers a refresh that read its row before    *)
(* the revocation brings the family back.                                  *)
THEOREM SerialRevocationIsFinal == AccountSpec /\ OneWorker => []RevocationIsFinal
<1>1. Init => OnlyUsed /\ RevocationIsFinal
  BY DEF Init, OnlyUsed, RevocationIsFinal, FamilyRows, ActiveRows, Serving
<1> QED BY <1>1, OnlyUsedStep, FinalStep, SerialReads, FamiliesHaveOneOwner, AccountInvariant,
           PTL DEF AccountSpec
-----------------------------------------------------------------------------
(* The lockout.                                                            *)

(* LockoutAgrees, for one row; reset tells whether the account was reset.  *)
Agrees(row, reset) ==
    /\ row.lockedUntil # None <=> row.fails >= MaxFailedLogins
    /\ row.lockedUntil # None => row.status = "locked"
    /\ row.status = "locked" /\ row.lockedUntil = None => reset

WasReset(u) == Log("auth.password_reset.completed", u) \in audit

LEMMA AgreesMeans == LockoutAgrees <=> \A u \in Users : Agrees(users[u], WasReset(u))
  BY DEF LockoutAgrees, Agrees, WasReset

(* A flush over the row that was read is the row that was assigned. *)
LEMMA FlushFresh ==
    ASSUME NEW row \in UserRow, NEW a \in UserRow
    PROVE  FlushUser(row, row, a) = a
  BY DEF FlushUser, Column, UserRow

(* A flush that assigns nothing of the lockout leaves it as it is, even    *)
(* over a row that changed since it was read.                              *)
LEMMA FlushKeepsLockout ==
    ASSUME NEW c, NEW l, NEW a, NEW reset, Agrees(c, reset),
           a.status = l.status, a.fails = l.fails, a.lockedUntil = l.lockedUntil
    PROVE  Agrees(FlushUser(c, l, a), reset)
<1>1. /\ FlushUser(c, l, a).status = c.status
      /\ FlushUser(c, l, a).fails = c.fails
      /\ FlushUser(c, l, a).lockedUntil = c.lockedUntil
  BY DEF FlushUser, Column
<1> QED BY <1>1 DEF Agrees

LEMMA FailureAgrees ==
    ASSUME NEW r \in LoginRequest, NEW reset, Agrees(r.row, reset)
    PROVE  Agrees(AfterFailure(r), reset)
<1>0. /\ r.row \in UserRow /\ r.row.fails \in Nat /\ r.at + LockTtl \in Nat
      /\ MaxFailedLogins \in Nat /\ None \notin Nat
  BY ConstantsAssumption, NoneAssumption
     DEF LoginRequest, UserRow, Time, ConstantsAssumption, NoneAssumption
<1> DEFINE row == r.row
           n == row.fails + 1
<1>1. CASE n >= MaxFailedLogins
  <2>1. AfterFailure(r) =
          [row EXCEPT !.fails = n, !.lockedUntil = r.at + LockTtl, !.status = "locked"]
    BY <1>1 DEF AfterFailure
  <2>2. /\ AfterFailure(r).fails = n /\ AfterFailure(r).lockedUntil = r.at + LockTtl
        /\ AfterFailure(r).status = "locked"
    BY <1>0, <2>1 DEF UserRow
  <2>3. r.at + LockTtl # None
    BY <1>0
  <2> HIDE DEF n
  <2> QED BY <1>1, <2>2, <2>3 DEF Agrees
<1>2. CASE ~(n >= MaxFailedLogins)
  <2>1. AfterFailure(r) = [row EXCEPT !.fails = n]
    BY <1>2 DEF AfterFailure
  <2>2. /\ AfterFailure(r).fails = n /\ AfterFailure(r).lockedUntil = row.lockedUntil
        /\ AfterFailure(r).status = row.status
    BY <1>0, <2>1 DEF UserRow
  <2>3. ~(row.fails >= MaxFailedLogins)
    BY <1>0, <1>2
  <2> HIDE DEF n, row
  <2>4. Agrees(row, reset)
    BY DEF row
  <2> QED BY <1>2, <2>2, <2>3, <2>4 DEF Agrees
<1> QED BY <1>1, <1>2

LEMMA SuccessAgrees ==
    ASSUME NEW r \in LoginRequest, NEW reset
    PROVE  Agrees(AfterSuccess(r), reset)
<1>1. AfterSuccess(r).fails = 0 /\ AfterSuccess(r).lockedUntil = None
  BY DEF AfterSuccess, LoginRequest, UserRow
<1>2. AfterSuccess(r).status # "locked"
  BY DEF AfterSuccess, LoginRequest, UserRow
<1> QED BY <1>1, <1>2, ConstantsAssumption DEF Agrees, ConstantsAssumption

LEMMA ResetAgrees ==
    ASSUME NEW r \in ResetRequest
    PROVE  Agrees([AfterReset(r) EXCEPT !.hash = FreshHash(r.password)], TRUE)
<1> DEFINE row == [AfterReset(r) EXCEPT !.hash = FreshHash(r.password)]
<1>1. AfterReset(r).fails = 0 /\ AfterReset(r).lockedUntil = None /\ AfterReset(r) \in UserRow
  BY AfterResetType DEF AfterReset, ResetRequest, UserRow
<1>2. row.fails = 0 /\ row.lockedUntil = None
  BY <1>1 DEF UserRow
<1> QED BY <1>2, ConstantsAssumption DEF Agrees, ConstantsAssumption

LEMMA LockoutStep ==
    AccountInv /\ FreshReads /\ LockoutAgrees /\ [AccountNext]_vars => LockoutAgrees'
<1> SUFFICES ASSUME AccountInv, FreshReads, LockoutAgrees, [AccountNext]_vars,
                    NEW u \in Users
             PROVE  Agrees(users'[u], WasReset(u)')
  BY DEF LockoutAgrees, Agrees, WasReset
<1> DEFINE Goal == Agrees(users'[u], WasReset(u)')
<1>0. TypeOK /\ users \in [Users -> UserRow]
  BY DEF AccountInv, AccountTypeOK, TypeOK
<1>1. Agrees(users[u], WasReset(u)')
  <2>1. WasReset(u) => WasReset(u)'
    BY AuditOfAccounts DEF WasReset
  <2> QED BY <2>1, AgreesMeans DEF Agrees
<1>2. ASSUME users'[u] = users[u] PROVE Goal
  BY <1>1, <1>2
<1>3. ASSUME NEW v \in Users, NEW x, users' = [users EXCEPT ![v] = x],
             u = v => Agrees(x, WasReset(u)')
      PROVE  Goal
  BY <1>0, <1>2, <1>3
<1>4. ASSUME NEW p \in Procs, CommitLoginFailure(p) \/ CommitLoginSuccess(p) PROVE Goal
  <2> DEFINE r == req[p]
  <2>1. r \in LoginRequest /\ r.user \in Users /\ r.row = users[r.user] /\ r.row \in UserRow
    BY <1>0, <1>4, RequestKinds
       DEF TypeOK, FreshReads, CommitLoginFailure, CommitLoginSuccess, Serving, LoginRequest
  <2>2. PICK a \in {AfterFailure(r), AfterSuccess(r)} :
          users' = [users EXCEPT ![r.user] = FlushUser(users[r.user], r.row, a)]
    BY <1>4 DEF CommitLoginFailure, CommitLoginSuccess
  <2>3. FlushUser(users[r.user], r.row, a) = a
    BY <2>1, FlushFresh, AfterFailureType, AfterSuccessType
  <2>4. u = r.user => Agrees(a, WasReset(u)')
    BY <1>1, <2>1, FailureAgrees, SuccessAgrees
  <2> HIDE DEF r
  <2> QED BY <1>3, <2>1, <2>2, <2>3, <2>4
<1>5. ASSUME NEW p \in Procs,
             CommitTotpSetup(p) \/ CommitTotpConfirm(p) \/ CommitTotpDisable(p)
      PROVE  Goal
  <2> DEFINE r == req[p]
             Assigned == {[r.row EXCEPT !.pending = r.secret],
                          [r.row EXCEPT !.totp = r.secret, !.pending = None],
                          [r.row EXCEPT !.totp = None, !.pending = None]}
  <2>1. r.user \in Users /\ r.row \in UserRow
    BY <1>0, <1>5, RequestKinds
       DEF TypeOK, CommitTotpSetup, CommitTotpConfirm, CommitTotpDisable, Serving,
           TotpEndpoints, TotpRequest
  <2>2. PICK a \in Assigned :
          users' = [users EXCEPT ![r.user] = FlushUser(users[r.user], r.row, a)]
    BY <1>5 DEF CommitTotpSetup, CommitTotpConfirm, CommitTotpDisable
  <2>3. /\ a.status = r.row.status /\ a.fails = r.row.fails
        /\ a.lockedUntil = r.row.lockedUntil
    BY <2>1 DEF UserRow
  <2>4. u = r.user => Agrees(FlushUser(users[r.user], r.row, a), WasReset(u)')
    BY <1>1, <2>3, FlushKeepsLockout
  <2> HIDE DEF r, Assigned
  <2> QED BY <1>3, <2>1, <2>2, <2>4
<1>6. ASSUME NEW p \in Procs, CommitRegister(p) PROVE Goal
  <2>1. req[p].user \in Users
    BY <1>0, <1>6, RequestKinds DEF TypeOK, CommitRegister, Serving, RegisterRequest
  <2>2. Agrees(FreshRow(req[p].password), WasReset(u)')
    BY ConstantsAssumption DEF Agrees, FreshRow, ConstantsAssumption
  <2>3. \/ UNCHANGED users
        \/ users' = [users EXCEPT ![req[p].user] = FreshRow(req[p].password)]
    BY <1>6 DEF CommitRegister
  <2> QED BY <1>2, <1>3, <2>1, <2>2, <2>3
<1>7. ASSUME NEW p \in Procs, CommitReset(p) PROVE Goal
  <2> DEFINE r == req[p]
  <2>1. r \in ResetRequest /\ r.user \in Users /\ r.row = users[r.user] /\ r.row \in UserRow
    BY <1>0, <1>7, RequestKinds DEF TypeOK, FreshReads, CommitReset, Serving, ResetRequest
  <2>2. FlushUser(users[r.user], r.row, AfterReset(r)) = AfterReset(r)
    BY <2>1, FlushFresh, AfterResetType
  <2>3. users' = [users EXCEPT ![r.user] =
                    [FlushUser(users[r.user], r.row, AfterReset(r)) EXCEPT
                        !.hash = FreshHash(r.password)]]
    BY <1>7 DEF CommitReset
  <2>4. u = r.user => WasReset(u)' = TRUE
    BY <1>7 DEF CommitReset, WasReset
  <2>5. u = r.user => Agrees([AfterReset(r) EXCEPT !.hash = FreshHash(r.password)], WasReset(u)')
    BY <2>1, <2>4, ResetAgrees
  <2> HIDE DEF r
  <2> QED BY <1>3, <2>1, <2>2, <2>3, <2>5
<1> HIDE DEF Goal
<1>8. ASSUME UNCHANGED users PROVE Goal
  BY <1>2, <1>8
<1>9. ASSUME NEW p \in Procs, Account(p) PROVE Goal
  BY <1>6, <1>7, <1>8, <1>9 DEF Account, BeginRegister, BeginResend, BeginForgot, CommitIssue,
                                BeginVerify, CommitVerify, BeginReset
<1>10. ASSUME NEW p \in Procs, Login(p) \/ Totp(p) PROVE Goal
  BY <1>4, <1>5, <1>8, <1>10 DEF Login, BeginLogin, Totp, BeginTotpSetup, BeginTotpConfirm,
                                 BeginTotpDisable, StartTotp
<1>11. ASSUME NEW p \in Procs, Refresh(p) \/ Logout(p) PROVE Goal
  BY <1>8, <1>11 DEF Refresh, BeginRefresh, CommitReuse, CommitExpired, CommitRotation,
                     Logout, BeginFamilyRevoke, CommitFamilyRevoke, BeginLogoutAll,
                     CommitLogoutAll, BeginBrowserLogout, CommitBrowserLogout
<1>12. Goal
  BY <1>8, <1>9, <1>10, <1>11 DEF AccountNext, SystemNext, Crash, Tick, vars
<1> QED BY <1>12 DEF Goal

(* One request at a time, an account has a lock instant exactly when its   *)
(* failures reached the limit, and is then LOCKED; LOCKED without an       *)
(* instant is left over from a reset.                                      *)
THEOREM SerialLockoutAgrees == AccountSpec /\ OneWorker => []LockoutAgrees
<1>1. Init => LockoutAgrees
  <2> SUFFICES ASSUME Init, NEW u \in Users PROVE Agrees(users[u], WasReset(u))
    BY AgreesMeans
  <2>1. users[u] \in RegisteredRow
    BY ConstantsAssumption DEF Init, ConstantsAssumption
  <2> QED BY <2>1, ConstantsAssumption DEF RegisteredRow, Agrees, ConstantsAssumption
<1> QED BY <1>1, LockoutStep, SerialReads, AccountInvariant, PTL DEF AccountSpec
-----------------------------------------------------------------------------
(* Rotation.                                                               *)

(* What a rotation does when the row it read is the row that is there.     *)
LEMMA RotationReplaces ==
    ASSUME AccountInv, FreshReads, NEW p \in Procs, CommitRotation(p)
    PROVE  LET r == req[p]  f == sessions[r.sid].family IN
           /\ f \in Families
           /\ r.sid \in ActiveRows(f)
           /\ r.row = sessions[r.sid]
           /\ \E n \in Sids \ DOMAIN sessions :
                /\ DOMAIN sessions' = DOMAIN sessions \cup {n}
                /\ sessions'[n] = Successor(r)
                /\ sessions'[n].family = f /\ sessions'[n].revoked = None
                /\ sessions'[n].mfa = sessions[r.sid].mfa
                /\ sessions'[r.sid].revoked # None
                /\ \A s \in DOMAIN sessions \ {r.sid} : sessions'[s] = sessions[s]
<1> DEFINE r == req[p]
<1>0. TypeOK /\ SnapshotInv /\ "rotated" # None
  BY NoneAssumption DEF AccountInv, AccountTypeOK, NoneAssumption, RevokeReasons
<1>1. r.sid \in DOMAIN sessions /\ r.row = sessions[r.sid] /\ r.row.revoked = None
  BY <1>0 DEF SnapshotInv, FreshReads, CommitRotation, Rotates, Reused
<1>2. sessions[r.sid] \in SessionRow
  BY <1>0, <1>1 DEF TypeOK
<1>3. PICK n \in Sids \ DOMAIN sessions :
        /\ DOMAIN sessions' = DOMAIN sessions \cup {n}
        /\ sessions'[n] = Successor(r)
        /\ sessions'[r.sid] = [sessions[r.sid] EXCEPT !.revoked = "rotated"]
        /\ \A t \in DOMAIN sessions \ {r.sid} : sessions'[t] = sessions[t]
  BY <1>0, RotationEffect
<1>4. sessions'[r.sid].revoked # None
  BY <1>0, <1>2, <1>3 DEF SessionRow
<1>5. /\ sessions'[n].family = sessions[r.sid].family /\ sessions'[n].revoked = None
      /\ sessions'[n].mfa = sessions[r.sid].mfa
  BY <1>1, <1>3 DEF Successor
<1>6. sessions[r.sid].family \in Families
  BY <1>2 DEF SessionRow
<1> HIDE DEF r
<1>7. r.sid \in ActiveRows(sessions[r.sid].family)
  BY <1>1 DEF ActiveRows, FamilyRows
<1> QED BY <1>1, <1>3, <1>4, <1>5, <1>6, <1>7 DEF r

(* A row that works after a step worked before it, or it is new: then it   *)
(* begins a family, or replaces the row that worked until now.             *)
LEMMA ActiveBefore ==
    ASSUME AccountInv, FreshReads, [AccountNext]_vars, NEW f \in Families,
           NEW s \in ActiveRows(f)'
    PROVE  \/ s \in ActiveRows(f)
           \/ s \notin DOMAIN sessions /\ FamilyRows(f) = {}
           \/ /\ s \notin DOMAIN sessions
              /\ \E o \in ActiveRows(f) :
                    sessions'[o].revoked # None /\ sessions'[s].mfa = sessions[o].mfa
<1>1. s \in DOMAIN sessions' /\ sessions'[s].family = f /\ sessions'[s].revoked = None
  BY DEF ActiveRows, FamilyRows
<1>2. CASE s \in DOMAIN sessions
  BY <1>1, <1>2, RowsOfAccounts DEF RowKept, ActiveRows, FamilyRows
<1>3. CASE s \notin DOMAIN sessions
  <2>1. ASSUME NEW p, NEW g \in Families \ UsedFamilies, sessions'[s] = RootSession(req[p], g)
        PROVE  FamilyRows(f) = {}
    BY <1>1, <2>1 DEF RootSession, UsedFamilies, FamilyRows
  <2>2. ASSUME NEW p \in Procs, CommitRotation(p), sessions'[s] = Successor(req[p])
        PROVE  \E o \in ActiveRows(f) :
                  sessions'[o].revoked # None /\ sessions'[s].mfa = sessions[o].mfa
    <3>1. /\ req[p].sid \in ActiveRows(sessions[req[p].sid].family)
          /\ req[p].row = sessions[req[p].sid]
          /\ sessions'[req[p].sid].revoked # None
      BY <2>2, RotationReplaces
    <3>2. sessions'[s].family = sessions[req[p].sid].family
          /\ sessions'[s].mfa = sessions[req[p].sid].mfa
      BY <2>2, <3>1 DEF Successor
    <3> QED BY <1>1, <3>1, <3>2
  <2>3. \/ \E p \in Procs, g \in Families \ UsedFamilies : sessions'[s] = RootSession(req[p], g)
        \/ \E p \in Procs : CommitRotation(p) /\ sessions'[s] = Successor(req[p])
    BY <1>1, <1>3, NewRow
  <2>4. \/ FamilyRows(f) = {}
        \/ \E o \in ActiveRows(f) :
              sessions'[o].revoked # None /\ sessions'[s].mfa = sessions[o].mfa
    BY <2>1, <2>2, <2>3
  <2> QED BY <1>3, <2>4
<1> QED BY <1>2, <1>3

LEMMA OneActiveStep ==
    AccountInv /\ FreshReads /\ OneActivePerFamily /\ [AccountNext]_vars => OneActivePerFamily'
<1> SUFFICES ASSUME AccountInv, FreshReads, OneActivePerFamily, [AccountNext]_vars,
                    NEW f \in Families, NEW s \in ActiveRows(f)', NEW t \in ActiveRows(f)',
                    s # t
             PROVE  FALSE
  BY DEF OneActivePerFamily
<1>1. ASSUME NEW a \in ActiveRows(f)', NEW b \in ActiveRows(f)', a # b,
             a \notin DOMAIN sessions
      PROVE  FALSE
  <2>1. a \in DOMAIN sessions' /\ b \in DOMAIN sessions' /\ sessions'[b].revoked = None
    BY <1>1 DEF ActiveRows, FamilyRows
  <2>2. b \in DOMAIN sessions
    BY <1>1, <2>1, NewRow
  <2>3. b \in ActiveRows(f)
    BY <1>1, <2>2, ActiveBefore
  <2>4. PICK o \in ActiveRows(f) : sessions'[o].revoked # None
    BY <1>1, <2>3, ActiveBefore DEF ActiveRows, FamilyRows
  <2> QED BY <2>1, <2>3, <2>4 DEF OneActivePerFamily
<1>2. CASE s \in DOMAIN sessions /\ t \in DOMAIN sessions
  BY <1>2, ActiveBefore DEF OneActivePerFamily
<1> QED BY <1>1, <1>2

(* One request at a time, a family has at most one refresh token that      *)
(* works, which the tests expect of every rotation.                        *)
THEOREM SerialOneActive == AccountSpec /\ OneWorker => []OneActivePerFamily
<1>1. Init => OneActivePerFamily
  BY DEF Init, OneActivePerFamily, ActiveRows, FamilyRows
<1> QED BY <1>1, OneActiveStep, SerialReads, AccountInvariant, PTL DEF AccountSpec

-----------------------------------------------------------------------------
(* Passwords.                                                              *)

(* One request at a time, after a reset the old password is out of force   *)
(* for good: a sign-in that renews an outdated hash renews the one that is *)
(* in force (reset_password, login_user).                                  *)
THEOREM SerialPasswords == AccountSpec /\ OneWorker => PasswordOnlyByReset
<1>1. AccountInv /\ FreshReads /\ [AccountNext]_vars =>
        [\A u \in registered :
            users'[u].hash.password # users[u].hash.password =>
              \E p \in Procs : CommitReset(p) /\ req[p].user = u]_vars
  <2> SUFFICES ASSUME AccountInv, FreshReads, [AccountNext]_vars, NEW u \in registered,
                      users'[u].hash.password # users[u].hash.password
               PROVE  \E p \in Procs : CommitReset(p) /\ req[p].user = u
    OBVIOUS
  <2>1. PICK p \in Procs :
           /\ \/ CommitReset(p)
              \/ CommitLoginSuccess(p) /\ req[p].row.hash.stale
           /\ req[p].user = u
           /\ users'[u].hash.password = req[p].password
    BY PasswordStep
  <2>2. ~CommitLoginSuccess(p)
    <3> SUFFICES ASSUME CommitLoginSuccess(p) PROVE FALSE
      OBVIOUS
    <3>1. req[p].row = users[u]
      BY <2>1 DEF CommitLoginSuccess, FreshReads, Serving
    <3>2. req[p].row.hash.password = req[p].password
      BY DEF CommitLoginSuccess, PasswordVerifies
    <3> QED BY <2>1, <3>1, <3>2
  <2> QED BY <2>1, <2>2
<1> QED BY <1>1, SerialReads, AccountInvariant, PTL DEF AccountSpec, PasswordOnlyByReset
-----------------------------------------------------------------------------
(* MFA.                                                                    *)

(* No step takes the MFA instant away from a row. *)
LEMMA MfaKept ==
    ASSUME AccountInv, [AccountNext]_vars, NEW s \in DOMAIN sessions, sessions[s].mfa
    PROVE  sessions'[s].mfa
<1>0. TypeOK
  BY DEF AccountInv, AccountTypeOK
<1>1. CASE [SystemNext]_vars
  BY <1>0, <1>1, MfaUntouched, ConfirmationMfa
<1>2. ASSUME NEW p \in Procs, Account(p) PROVE sessions'[s].mfa
  BY <1>0, <1>2, AccountRowsMfa
<1> QED BY <1>1, <1>2 DEF AccountNext

(* One request at a time, a family that is MFA-verified stays so through   *)
(* its rotations: the successor is made from the row as it is.             *)
THEOREM SerialMfaSurvives == AccountSpec /\ OneWorker => MfaSurvivesRotation
<1>1. AccountInv /\ FreshReads /\ [AccountNext]_vars =>
        [\A f \in Families :
            (ActiveRows(f) # {} /\ \A s \in ActiveRows(f) : sessions[s].mfa)
                => (\A s \in ActiveRows(f) : sessions[s].mfa)']_vars
  <2> SUFFICES ASSUME AccountInv, FreshReads, [AccountNext]_vars, NEW f \in Families,
                      ActiveRows(f) # {}, \A s \in ActiveRows(f) : sessions[s].mfa,
                      NEW s \in ActiveRows(f)'
               PROVE  sessions'[s].mfa
    OBVIOUS
  <2>1. CASE s \in ActiveRows(f)
    BY <2>1, MfaKept DEF ActiveRows, FamilyRows
  <2>2. FamilyRows(f) # {}
    BY DEF ActiveRows
  <2> QED BY <2>1, <2>2, ActiveBefore
<1> QED BY <1>1, SerialReads, AccountInvariant, PTL DEF AccountSpec, MfaSurvivesRotation
-----------------------------------------------------------------------------
(* The chain of a family.                                                  *)

(* What currentBar is, with at most one row of a family active. *)
LEMMA CurrentBar ==
    ASSUME TypeOK, OneActivePerFamily, NEW f \in Families
    PROVE  /\ FamilyRows(f) = {} => currentBar[f] = "unused"
           /\ FamilyRows(f) # {} /\ ActiveRows(f) = {} => currentBar[f] = "ended"
           /\ \A s \in ActiveRows(f) : currentBar[f] = s /\ s \in Sids
<1>1. FamilyRows(f) = {} => currentBar[f] = "unused"
  BY DEF currentBar
<1>2. FamilyRows(f) # {} /\ ActiveRows(f) = {} => currentBar[f] = "ended"
  BY DEF currentBar
<1>3. ASSUME NEW s \in ActiveRows(f) PROVE currentBar[f] = s /\ s \in Sids
  <2>1. s \in Sids /\ FamilyRows(f) # {} /\ ActiveRows(f) # {}
    BY DEF TypeOK, ActiveRows, FamilyRows
  <2>2. currentBar[f] = CHOOSE t \in Sids : t \in ActiveRows(f)
    BY <2>1 DEF currentBar
  <2>3. (CHOOSE t \in Sids : t \in ActiveRows(f)) \in ActiveRows(f)
    BY <2>1
  <2> QED BY <2>1, <2>2, <2>3 DEF OneActivePerFamily
<1> QED BY <1>1, <1>2, <1>3

LEMMA CurrentBarNext ==
    ASSUME TypeOK', OneActivePerFamily', NEW f \in Families
    PROVE  /\ FamilyRows(f)' = {} => currentBar'[f] = "unused"
           /\ FamilyRows(f)' # {} /\ ActiveRows(f)' = {} => currentBar'[f] = "ended"
           /\ \A s \in ActiveRows(f)' : currentBar'[f] = s /\ s \in Sids
<1>1. FamilyRows(f)' = {} => currentBar'[f] = "unused"
  BY DEF currentBar
<1>2. FamilyRows(f)' # {} /\ ActiveRows(f)' = {} => currentBar'[f] = "ended"
  BY DEF currentBar
<1>3. ASSUME NEW s \in ActiveRows(f)' PROVE currentBar'[f] = s /\ s \in Sids
  <2>1. s \in Sids /\ FamilyRows(f)' # {} /\ ActiveRows(f)' # {}
    BY DEF TypeOK, ActiveRows, FamilyRows
  <2>2. currentBar'[f] = CHOOSE t \in Sids : t \in ActiveRows(f)'
    BY <2>1 DEF currentBar
  <2>3. (CHOOSE t \in Sids : t \in ActiveRows(f)') \in ActiveRows(f)'
    BY <2>1
  <2> QED BY <2>1, <2>2, <2>3 DEF OneActivePerFamily
<1> QED BY <1>1, <1>2, <1>3

(* A family whose rows a step leaves alone keeps its current token. *)
LEMMA SameCurrent ==
    ASSUME TypeOK, TypeOK', OneActivePerFamily, OneActivePerFamily', NEW f \in Families,
           FamilyRows(f)' = FamilyRows(f), ActiveRows(f)' = ActiveRows(f)
    PROVE  currentBar'[f] = currentBar[f]
<1>1. CASE FamilyRows(f) = {}
  BY <1>1, CurrentBar, CurrentBarNext
<1>2. CASE FamilyRows(f) # {} /\ ActiveRows(f) = {}
  BY <1>2, CurrentBar, CurrentBarNext
<1>3. CASE ActiveRows(f) # {}
  <2>1. PICK s : s \in ActiveRows(f) /\ s \in ActiveRows(f)'
    BY <1>3
  <2> QED BY <2>1, CurrentBar, CurrentBarNext
<1> QED BY <1>1, <1>2, <1>3

(* A step that adds no row replaces no token: it ends families. *)
LEMMA InPlaceRevokes ==
    ASSUME TypeOK, TypeOK', OneActivePerFamily, OneActivePerFamily',
           DOMAIN sessions' = DOMAIN sessions, \A s \in DOMAIN sessions : RowKept(s)
    PROVE  Chain!ChainNext
<1> DEFINE S == {f \in Families : ActiveRows(f) # {} /\ ActiveRows(f)' = {}}
<1>1. ASSUME NEW f \in Families
      PROVE  FamilyRows(f)' = FamilyRows(f) /\ ActiveRows(f)' \subseteq ActiveRows(f)
  BY DEF RowKept, FamilyRows, ActiveRows
<1>2. ASSUME NEW f \in S PROVE currentBar[f] \in Sids /\ currentBar'[f] = "ended"
  <2>1. FamilyRows(f)' # {}
    BY <1>1 DEF ActiveRows
  <2> QED BY <1>2, <2>1, CurrentBar, CurrentBarNext
<1>3. ASSUME NEW f \in Families \ S PROVE currentBar'[f] = currentBar[f]
  <2>1. CASE ActiveRows(f) = {}
    BY <1>1, <1>3, <2>1, SameCurrent
  <2>2. CASE ActiveRows(f) # {}
    <3>1. PICK s : s \in ActiveRows(f)'
      BY <1>3, <2>2
    <3>2. s \in ActiveRows(f)
      BY <1>1, <1>3, <3>1
    <3> QED BY <1>3, <3>1, <3>2, CurrentBar, CurrentBarNext
  <2> QED BY <2>1, <2>2
<1>4. currentBar' = [f \in Families |-> IF f \in S THEN "ended" ELSE currentBar[f]]
  <2>1. currentBar' = [f \in Families |-> currentBar'[f]]
    BY DEF currentBar
  <2> HIDE DEF S
  <2> QED BY <1>2, <1>3, <2>1
<1>5. S \in SUBSET Families
  OBVIOUS
<1>6. Chain!RevokeAll(S)
  BY <1>2, <1>4 DEF Chain!RevokeAll
<1> QED BY <1>5, <1>6 DEF Chain!ChainNext

(* A new row is the current token of its family. *)
LEMMA NewRowIssued ==
    ASSUME TypeOK, TypeOK', OneActivePerFamily, OneActivePerFamily',
           NEW f \in Families, NEW n \in Sids \ DOMAIN sessions,
           DOMAIN sessions' = DOMAIN sessions \cup {n},
           sessions'[n].family = f, sessions'[n].revoked = None,
           \A s \in DOMAIN sessions : RowKept(s),
           \A s \in DOMAIN sessions : sessions[s].family # f => sessions'[s] = sessions[s]
    PROVE  Chain!Issue(f, n)
<1>1. currentBar'[f] = n
  <2>1. n \in ActiveRows(f)'
    BY DEF ActiveRows, FamilyRows
  <2> QED BY <2>1, CurrentBarNext
<1>2. ASSUME NEW g \in Families, g # f PROVE currentBar'[g] = currentBar[g]
  <2>1. FamilyRows(g)' = FamilyRows(g) /\ ActiveRows(g)' = ActiveRows(g)
    BY <1>2 DEF RowKept, FamilyRows, ActiveRows
  <2> QED BY <2>1, SameCurrent
<1>3. currentBar' = [currentBar EXCEPT ![f] = n]
  <2>1. currentBar' = [g \in Families |-> currentBar'[g]]
    BY DEF currentBar
  <2>2. currentBar = [g \in Families |-> currentBar[g]]
    BY DEF currentBar
  <2> QED BY <1>1, <1>2, <2>1, <2>2
<1> QED BY <1>3 DEF Chain!Issue

LEMMA ChainStep ==
    ASSUME AccountInv, FreshReads, OneActivePerFamily, [AccountNext]_vars
    PROVE  [Chain!ChainNext]_<<currentBar, DOMAIN sessions>>
<1>0. TypeOK /\ TypeOK' /\ OneActivePerFamily'
  BY AccountInvStep, OneActiveStep DEF AccountInv, AccountTypeOK
<1>1. \A s \in DOMAIN sessions : RowKept(s)
  BY RowsOfAccounts
<1>2. CASE DOMAIN sessions' = DOMAIN sessions
  BY <1>0, <1>1, <1>2, InPlaceRevokes
<1>3. ASSUME NEW p \in Procs, CommitLoginSuccess(p) PROVE Chain!ChainNext
  <2>1. PICK n \in Sids \ DOMAIN sessions, f \in Families \ UsedFamilies :
          /\ DOMAIN sessions' = DOMAIN sessions \cup {n}
          /\ sessions'[n].family = f /\ sessions'[n].revoked = None
          /\ \A s \in DOMAIN sessions : sessions'[s] = sessions[s]
    BY <1>0, <1>3, SignInEffect
  <2>2. FamilyRows(f) = {}
    BY DEF UsedFamilies, FamilyRows
  <2>3. currentBar[f] = "unused"
    BY <1>0, <2>2, CurrentBar
  <2>4. Chain!Issue(f, n)
    BY <1>0, <1>1, <2>1, NewRowIssued
  <2>5. Chain!SignIn(f)
    BY <2>3, <2>4 DEF Chain!SignIn
  <2> QED BY <2>5 DEF Chain!ChainNext
<1>4. ASSUME NEW p \in Procs, CommitRotation(p) PROVE Chain!ChainNext
  <2> DEFINE r == req[p]
             f == sessions[r.sid].family
  <2>1. f \in Families /\ r.sid \in ActiveRows(f)
    BY <1>4, RotationReplaces
  <2>2. PICK n \in Sids \ DOMAIN sessions :
          /\ DOMAIN sessions' = DOMAIN sessions \cup {n}
          /\ sessions'[n].family = f /\ sessions'[n].revoked = None
          /\ \A s \in DOMAIN sessions \ {r.sid} : sessions'[s] = sessions[s]
    BY <1>4, RotationReplaces
  <2>3. currentBar[f] \in Sids
    BY <1>0, <2>1, CurrentBar
  <2>4. \A s \in DOMAIN sessions : sessions[s].family # f => sessions'[s] = sessions[s]
    BY <2>2
  <2> HIDE DEF f, r
  <2>5. Chain!Issue(f, n)
    BY <1>0, <1>1, <2>1, <2>2, <2>4, NewRowIssued
  <2>6. Chain!Replace(f)
    BY <2>3, <2>5 DEF Chain!Replace
  <2> QED BY <2>1, <2>6 DEF Chain!ChainNext
<1>5. CASE DOMAIN sessions' # DOMAIN sessions
  <2>1. PICK s \in DOMAIN sessions' : s \notin DOMAIN sessions
    BY <1>1, <1>5 DEF RowKept
  <2>2. \E p \in Procs : CommitLoginSuccess(p) \/ CommitRotation(p)
    BY <2>1, NewRow
  <2> QED BY <1>3, <1>4, <2>2
<1> QED BY <1>2, <1>5

(* One request at a time, session handling implements ADR-0003's chain: a  *)
(* family has one token that works, a refresh replaces it by a new one,    *)
(* and reuse, logout or a reset leave none, for good.                      *)
THEOREM SerialImplementsChain == AccountSpec /\ OneWorker => ImplementsChain
<1>1. Init => Chain!ChainInit
  BY DEF Init, Chain!ChainInit, currentBar, FamilyRows
<1>2. AccountInv /\ FreshReads /\ OneActivePerFamily /\ [AccountNext]_vars
        => [Chain!ChainNext]_<<currentBar, DOMAIN sessions>>
  BY ChainStep
<1> QED BY <1>1, <1>2, SerialReads, SerialOneActive, AccountInvariant, PTL
        DEF AccountSpec, ImplementsChain, Chain!ChainSpec
-----------------------------------------------------------------------------
(* Mailed tokens.                                                          *)

(* The only request there is has used the token and is over: nobody holds  *)
(* the token any more.                                                     *)
LEMMA SingleUse ==
    ASSUME AccountInv, OneWorker, NEW p \in Procs, CommitVerify(p) \/ CommitReset(p)
    PROVE  \E t \in Tokens : OneTime!Use(t)
<1>1. PICK t \in Tokens :
        /\ t = req[p].token /\ OneTime!OverlappingUse(t)
        /\ tokens'[t].used /\ Finish(p)
  BY ServingIsUse
<1>2. req'[p] = None
  BY <1>1 DEF Finish, AccountInv, AccountTypeOK, TypeOK
<1>3. \A q \in Procs : q = p
  BY DEF OneWorker
<1>4. ~InUse(t)'
  BY <1>2, <1>3 DEF InUse, Serving
<1>5. t \notin liveBar'
  BY <1>1, <1>4 DEF liveBar
<1>6. OneTime!Use(t)
  BY <1>1, <1>5 DEF OneTime!OverlappingUse, OneTime!Use
<1> QED BY <1>6

LEMMA OneTimeStep ==
    AccountInv /\ OneWorker /\ [AccountNext]_vars
        => [OneTime!TokensNext]_<<purposeBar, liveBar, doneBar>>
<1> SUFFICES ASSUME AccountInv, OneWorker, [AccountNext]_vars PROVE OneTime!TokensNext
  OBVIOUS
<1>1. CASE [SystemNext]_vars
  BY <1>1, SystemDrops DEF OneTime!TokensNext
<1>2. ASSUME NEW p \in Procs, CommitIssue(p) PROVE OneTime!TokensNext
  BY <1>2, IssueIsIssue DEF OneTime!TokensNext
<1>3. ASSUME NEW p \in Procs, CommitVerify(p) \/ CommitReset(p) PROVE OneTime!TokensNext
  BY <1>3, SingleUse DEF OneTime!TokensNext
<1>4. ASSUME NEW p \in Procs, Account(p),
             ~CommitIssue(p), ~CommitVerify(p), ~CommitReset(p)
      PROVE  OneTime!TokensNext
  BY <1>4, AccountDrops DEF OneTime!TokensNext
<1> QED BY <1>1, <1>2, <1>3, <1>4 DEF AccountNext

(* One request at a time, a mailed token is single-use: it serves its own  *)
(* account and purpose once, and is dead for good when it was used or      *)
(* replaced (issue_account_token, verify_email_token, reset_password).     *)
THEOREM SerialOneTimeTokens == AccountSpec /\ OneWorker => ImplementsOneTimeTokens
<1>1. OneWorker => OneWorker'
  BY DEF OneWorker
<1> QED BY <1>1, OneTimeInit, OneTimeStep, AccountInvariant, PTL
        DEF AccountSpec, ImplementsOneTimeTokens, OneTime!TokensSpec
=============================================================================
