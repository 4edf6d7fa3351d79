----------------------------- MODULE AuthService -----------------------------
(***************************************************************************)
(* auth/service.py and the endpoints that call it: signing in, refresh     *)
(* token rotation with reuse detection, and the ways a session family is   *)
(* revoked (logout, device list, logout-all, cookie logout, an admin       *)
(* sign-in without the role).  Refused requests that change nothing (401,  *)
(* 403, 404, 423 before any write) are the guards of the Begin actions:    *)
(* such a request leaves the state as it is.                               *)
(***************************************************************************)
EXTENDS AuthStore

-----------------------------------------------------------------------------
(* login_user, called by the login endpoints and by admin_login.           *)

(* The guards are the early returns: no such row, disabled or locked.  A   *)
(* wrong TOTP code after a right password is one more refusal without a    *)
(* trace, so a request that goes on with the right password has the right  *)
(* code as well.                                                           *)
BeginLogin(p) ==
    /\ Idle(p)
    /\ \E e \in Endpoints \cap {"login", "admin_login"}, u \in Users, pw \in Passwords :
          /\ u \in registered
          /\ users[u].status # "disabled"
          /\ ~Locked(users[u], now)
          /\ Start(p, [op |-> e, user |-> u, row |-> users[u], password |-> pw, at |-> now])
    /\ UNCHANGED <<users, sessions, audit, held, now, accountVars>>

PasswordVerifies(r) == r.row.hash.password = r.password

(* The row the wrong-password branch assigns: one more failure, and the    *)
(* lock once the count reaches the limit.                                  *)
AfterFailure(r) ==
    LET fails == r.row.fails + 1
    IN  IF fails >= MaxFailedLogins
        THEN [r.row EXCEPT !.fails = fails, !.lockedUntil = r.at + LockTtl, !.status = "locked"]
        ELSE [r.row EXCEPT !.fails = fails]

(* Mutant of AfterSuccess: the failures are not reset. *)
AfterSuccessKeepingFailures(r) ==
    [r.row EXCEPT
        !.status      = IF @ = "locked" THEN "active" ELSE @,
        !.lockedUntil = None]

(* The row the successful branch assigns; an outdated hash is renewed.     *)
AfterSuccess(r) ==
    [r.row EXCEPT
        !.status      = IF @ = "locked" THEN "active" ELSE @,
        !.fails       = 0,
        !.lockedUntil = None,
        !.hash.stale  = FALSE]

CommitLoginFailure(p) ==
    /\ Serving(p, {"login", "admin_login"})
    /\ ~PasswordVerifies(req[p])
    /\ LET r == req[p] IN
        /\ users' = [users EXCEPT ![r.user] = FlushUser(@, r.row, AfterFailure(r))]
        /\ audit' = audit \cup {Log("auth.login.failure", r.user)}
    /\ Finish(p)
    /\ UNCHANGED <<sessions, held, now, accountVars>>

RootSession(r, f) ==
    [user |-> r.user, family |-> f, parent |-> None, expires |-> r.at + RefreshTtl,
     mfa |-> r.row.totp # None, revoked |-> None]

(* One transaction: account row, root session of a new family, audit       *)
(* entry.  admin_login then looks at the role of the account it signed in  *)
(* and goes on to reject it, without answering.                            *)
CommitLoginSuccess(p) ==
    /\ Serving(p, {"login", "admin_login"})
    /\ PasswordVerifies(req[p])
    /\ \E s \in Sids \ DOMAIN sessions, f \in Families \ UsedFamilies :
        LET r == req[p] IN
        /\ users' = [users EXCEPT ![r.user] = FlushUser(@, r.row, AfterSuccess(r))]
        /\ sessions' = Insert(sessions, s, RootSession(r, f))
        /\ audit' = audit \cup {Log("auth.login", f)}
        /\ IF r.op = "admin_login" /\ users[r.user].role \notin Privileged
           THEN /\ Start(p, [op |-> "admin_role_rejected", user |-> r.user, family |-> f])
                /\ UNCHANGED held
           ELSE /\ Finish(p)
                /\ Respond(s, r.row.totp # None)
    /\ UNCHANGED <<now, accountVars>>
-----------------------------------------------------------------------------
(* rotate_refresh_token, called by the three refresh endpoints.            *)

(* A client presents the refresh token of a row it once received.  For a   *)
(* row that is neither revoked nor expired the account must be active.     *)
BeginRefresh(p) ==
    /\ Idle(p)
    /\ "refresh" \in Endpoints
    /\ \E t \in held :
        LET row == sessions[t.sid] IN
        /\ row.revoked = None /\ row.expires > now => users[row.user].status = "active"
        /\ Start(p, [op |-> "refresh", sid |-> t.sid, row |-> row, at |-> now])
    /\ UNCHANGED <<users, sessions, audit, held, now, accountVars>>

(* Mutant of Reused: a revoked row is rotated like any other. *)
NeverReused(r) == FALSE

(* What the handler decided on the row it read. *)
Reused(r)  == r.row.revoked # None
Expired(r) == ~Reused(r) /\ r.row.expires <= r.at
Rotates(r) == ~Reused(r) /\ ~Expired(r)

(* Mutant of CommitReuse: only the row that came back is revoked. *)
CommitReuseOfOneRow(p) ==
    /\ Serving(p, {"refresh"})
    /\ Reused(req[p])
    /\ sessions' = Revoke({req[p].sid}, "refresh_token_reuse")
    /\ audit' = audit \cup {Log("auth.refresh_reuse_detected", req[p].row.family)}
    /\ Finish(p)
    /\ UNCHANGED <<users, held, now, accountVars>>

(* A revoked token came back: every active row of its family is revoked.   *)
CommitReuse(p) ==
    /\ Serving(p, {"refresh"})
    /\ Reused(req[p])
    /\ LET f == req[p].row.family IN
        /\ sessions' = Revoke(FamilyRows(f), "refresh_token_reuse")
        /\ audit' = audit \cup {Log("auth.refresh_reuse_detected", f)}
    /\ Finish(p)
    /\ UNCHANGED <<users, held, now, accountVars>>

CommitExpired(p) ==
    /\ Serving(p, {"refresh"})
    /\ Expired(req[p])
    /\ sessions' = [sessions EXCEPT ![req[p].sid].revoked = "expired"]
    /\ Finish(p)
    /\ UNCHANGED <<users, audit, held, now, accountVars>>

(* Mutant of Successor: the validity is added to the old expiry. *)
SuccessorExtended(r) ==
    [user |-> r.row.user, family |-> r.row.family, parent |-> r.sid,
     expires |-> r.row.expires + RefreshTtl, mfa |-> r.row.mfa, revoked |-> None]

(* Mutant of Successor: the MFA instant is not carried over. *)
SuccessorWithoutMfa(r) ==
    [user |-> r.row.user, family |-> r.row.family, parent |-> r.sid,
     expires |-> r.at + RefreshTtl, mfa |-> FALSE, revoked |-> None]

Successor(r) ==
    [user |-> r.row.user, family |-> r.row.family, parent |-> r.sid,
     expires |-> r.at + RefreshTtl, mfa |-> r.row.mfa, revoked |-> None]

(* Mutant of CommitRotation: the old row stays active. *)
CommitRotationKeepingOld(p) ==
    /\ Serving(p, {"refresh"})
    /\ Rotates(req[p])
    /\ \E s \in Sids \ DOMAIN sessions :
        LET r == req[p] IN
        /\ sessions' = Insert(sessions, s, Successor(r))
        /\ audit' = audit \cup {Log("auth.refresh", r.row.family)}
        /\ Respond(s, r.row.mfa)
    /\ Finish(p)
    /\ UNCHANGED <<users, now, accountVars>>

(* The row that was read is revoked by primary key, whatever it holds by   *)
(* now, and its successor is inserted.                                     *)
CommitRotation(p) ==
    /\ Serving(p, {"refresh"})
    /\ Rotates(req[p])
    /\ \E s \in Sids \ DOMAIN sessions :
        LET r == req[p] IN
        /\ sessions' = Insert([sessions EXCEPT ![r.sid].revoked = "rotated"], s, Successor(r))
        /\ audit' = audit \cup {Log("auth.refresh", r.row.family)}
        /\ Respond(s, r.row.mfa)
    /\ Finish(p)
    /\ UNCHANGED <<users, now, accountVars>>
-----------------------------------------------------------------------------
(* Revocation.                                                             *)

(* logout revokes the caller's own family; the device list names any       *)
(* family, and revoke_session_family finds rows only if it is the          *)
(* caller's.                                                               *)
BeginFamilyRevoke(p) ==
    /\ Idle(p)
    /\ \E e \in Endpoints \cap {"logout", "user_revoked"}, t \in held, f \in UsedFamilies :
        /\ Principal(t)
        /\ e = "logout" => f = sessions[t.sid].family
        /\ Start(p, [op |-> e, user |-> sessions[t.sid].user, family |-> f])
    /\ UNCHANGED <<users, sessions, audit, held, now, accountVars>>

Revocable(r) == {s \in ActiveRows(r.family) : sessions[s].user = r.user}

(* revoke_session_family for logout, the device list and the second        *)
(* transaction of admin_login; no row to revoke is a 404.                  *)
CommitFamilyRevoke(p) ==
    /\ Serving(p, {"logout", "user_revoked", "admin_role_rejected"})
    /\ LET r == req[p] IN
        IF Revocable(r) = {}
        THEN UNCHANGED <<sessions, audit>>
        ELSE /\ sessions' = Revoke(Revocable(r), r.op)
             /\ audit' = audit \cup {Log("auth.session_revoke", r.family)}
    /\ Finish(p)
    /\ UNCHANGED <<users, held, now, accountVars>>

BeginLogoutAll(p) ==
    /\ Idle(p)
    /\ "logout_all" \in Endpoints
    /\ \E t \in held :
        /\ Principal(t)
        /\ Start(p, [op |-> "logout_all", user |-> sessions[t.sid].user])
    /\ UNCHANGED <<users, sessions, audit, held, now, accountVars>>

UserRows(u) == {s \in DOMAIN sessions : sessions[s].user = u}

CommitLogoutAll(p) ==
    /\ Serving(p, {"logout_all"})
    /\ sessions' = Revoke(UserRows(req[p].user), "logout_all")
    /\ audit' = audit \cup {Log("auth.logout_all", req[p].user)}
    /\ Finish(p)
    /\ UNCHANGED <<users, held, now, accountVars>>

(* revoke_by_refresh_token: the cookie alone identifies the family, in any *)
(* state the row may be.                                                   *)
BeginBrowserLogout(p) ==
    /\ Idle(p)
    /\ \E e \in Endpoints \cap {"web_logout", "admin_logout"}, t \in held :
        Start(p, [op |-> e, user |-> sessions[t.sid].user, family |-> sessions[t.sid].family])
    /\ UNCHANGED <<users, sessions, audit, held, now, accountVars>>

(* Mutant of CommitBrowserLogout: the audit entry is forgotten. *)
CommitBrowserLogoutUnlogged(p) ==
    /\ Serving(p, {"web_logout", "admin_logout"})
    /\ sessions' = Revoke(FamilyRows(req[p].family), req[p].op)
    /\ Finish(p)
    /\ UNCHANGED <<users, audit, held, now, accountVars>>

CommitBrowserLogout(p) ==
    /\ Serving(p, {"web_logout", "admin_logout"})
    /\ sessions' = Revoke(FamilyRows(req[p].family), req[p].op)
    /\ audit' = audit \cup {Log("auth.browser_logout", req[p].family)}
    /\ Finish(p)
    /\ UNCHANGED <<users, held, now, accountVars>>
-----------------------------------------------------------------------------
Login(p) == BeginLogin(p) \/ CommitLoginFailure(p) \/ CommitLoginSuccess(p)

Refresh(p) ==
    BeginRefresh(p) \/ CommitReuse(p) \/ CommitExpired(p) \/ CommitRotation(p)

Logout(p) ==
    \/ BeginFamilyRevoke(p) \/ CommitFamilyRevoke(p)
    \/ BeginLogoutAll(p) \/ CommitLogoutAll(p)
    \/ BeginBrowserLogout(p) \/ CommitBrowserLogout(p)
-----------------------------------------------------------------------------
(* Properties that hold however requests interleave.                       *)

(* Rotation (rotate_refresh_token) builds one chain per sign-in: a family  *)
(* has one root, and every other row descends from a revoked row of the    *)
(* same account and family, which it replaced before that row expired.     *)
FamilyLineage ==
    \A s \in DOMAIN sessions :
        LET row == sessions[s]  parent == sessions[row.parent] IN
        IF row.parent = None
        THEN \A t \in FamilyRows(row.family) : sessions[t].parent = None => t = s
        ELSE /\ row.parent \in DOMAIN sessions
             /\ parent.user = row.user /\ parent.family = row.family
             /\ parent.revoked # None
             /\ parent.expires <= row.expires
             /\ row.expires < parent.expires + RefreshTtl

(* The entry that must accompany a row in the state a handler left it in. *)
Explained(row) ==
    CASE row.revoked = "rotated" -> Log("auth.refresh", row.family) \in audit
      [] row.revoked = "refresh_token_reuse" ->
            Log("auth.refresh_reuse_detected", row.family) \in audit
      [] row.revoked \in {"logout", "user_revoked", "admin_role_rejected"} ->
            Log("auth.session_revoke", row.family) \in audit
      [] row.revoked \in {"web_logout", "admin_logout"} ->
            Log("auth.browser_logout", row.family) \in audit
      [] row.revoked = "logout_all" -> Log("auth.logout_all", row.user) \in audit
      [] row.revoked = "password_reset" ->
            Log("auth.password_reset.completed", row.user) \in audit
      [] OTHER -> TRUE

(* The audit log and the session table never disagree: every session has   *)
(* its sign-in, and every revocation that is a decision of somebody (all   *)
(* but the expiry found by a refresh) has its entry, whichever handlers    *)
(* raced for the row and overwrote each other's reason.                    *)
AuditTrail ==
    \A s \in DOMAIN sessions :
        /\ Log("auth.login", sessions[s].family) \in audit
        /\ Explained(sessions[s])

(* A rotation of family f that has read its row and has not committed.     *)
RotationInFlight(f) ==
    \E p \in Procs :
        Serving(p, {"refresh"}) /\ Rotates(req[p]) /\ req[p].row.family = f
-----------------------------------------------------------------------------
(* Properties of one request at a time, and the ones the documents state.  *)

(* A family whose revocation is in the audit log (logout, the device list, *)
(* a detected reuse), or that a logout-all or a password reset has hit,    *)
(* has no token left that refreshes.                                       *)
RevocationIsFinal ==
    \A f \in Families :
        \/ \E a \in {"auth.session_revoke", "auth.refresh_reuse_detected",
                    "auth.browser_logout"} : Log(a, f) \in audit
        \/ \E s \in FamilyRows(f) : sessions[s].revoked \in {"logout_all", "password_reset"}
        => ActiveRows(f) = {}

(* Rotation replaces: a family never has two usable refresh tokens.        *)
OneActivePerFamily ==
    \A f \in Families : \A s, t \in ActiveRows(f) : s = t

(* The three columns of the lockout agree: an account has a lock instant   *)
(* exactly when its failures reached the limit, and then it is LOCKED.     *)
(* Only a password reset leaves it LOCKED without an instant, which bars   *)
(* nobody from signing in.                                                 *)
LockoutAgrees ==
    \A u \in Users :
        LET row == users[u] IN
        /\ row.lockedUntil # None <=> row.fails >= MaxFailedLogins
        /\ row.lockedUntil # None => row.status = "locked"
        /\ row.status = "locked" /\ row.lockedUntil = None
               => Log("auth.password_reset.completed", u) \in audit
=============================================================================
