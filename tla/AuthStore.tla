------------------------------ MODULE AuthStore ------------------------------
(***************************************************************************)
(* The tables of the API's database that authentication works on, the      *)
(* requests in flight over them, and the way a request reads and writes.   *)
(*                                                                         *)
(* Every handler is synchronous, runs on a thread of the pool with a       *)
(* database session of its own, and works the same way: it reads rows,     *)
(* decides on what it read, and commits its changes together with their    *)
(* audit entries in one transaction.  A handler is therefore two steps of  *)
(* a worker p \in Procs: "Begin..." takes the snapshot and follows the     *)
(* early returns, "Commit..." applies the writes to the rows as they are   *)
(* by then.  In between any other worker may commit, the clock may move,   *)
(* and the worker itself may die.  There is no version column and no       *)
(* SELECT ... FOR UPDATE in the code, so nothing makes the commit step     *)
(* look at the rows again.                                                 *)
(***************************************************************************)
EXTENDS Naturals, FiniteSets

CONSTANTS
    Users,            \* accounts of the users table
    Sids,             \* ids of user_sessions rows (and of their tokens)
    Families,         \* session family ids
    Procs,            \* workers, one request at a time each
    Passwords,        \* account passwords, right and wrong ones
    Secrets,          \* TOTP secrets
    Tokens,           \* ids of account_action_tokens rows (and of the mailed tokens)
    None,             \* SQL NULL, and the state of an idle worker
    MaxFailedLogins,  \* MAX_FAILED_LOGINS
    LockTtl,          \* LOCK_MINUTES, in ticks
    RefreshTtl,       \* refresh_token_ttl_days, in ticks
    MaxTime,          \* bound on the clock (model checking only)
    Endpoints,        \* the endpoints that clients call
    InitialRows       \* rows of the registered accounts at the start

Privileged == {"moderator", "admin"}

SessionEndpoints ==
    {"login", "admin_login", "refresh", "logout", "user_revoked", "logout_all",
     "web_logout", "admin_logout"}

TotpEndpoints == {"totp_setup", "totp_confirm", "totp_disable"}

AccountEndpoints ==
    {"register", "email_resend", "email_verify", "password_forgot", "password_reset"}

(* A stored password hash: the password it verifies, and whether its Argon2 *)
(* parameters are out of date (needs_password_rehash).                     *)
Hash == [password : Passwords, stale : BOOLEAN]

(* A registered account before anybody has signed in.  Roles other than    *)
(* "user", and a disabled status, are given by an operator in the table.   *)
RegisteredRow ==
    [status      : {"active", "disabled"},
     role        : {"user"} \cup Privileged,
     hash        : Hash,
     fails       : {0},
     lockedUntil : {None},
     totp        : {None},
     pending     : {None}]

(* revoked_reason *)
RevokeReasons ==
    {"rotated", "expired", "refresh_token_reuse", "logout", "user_revoked",
     "admin_role_rejected", "logout_all", "web_logout", "admin_logout", "password_reset"}

(* AccountTokenKind *)
TokenKinds == {"email_verification", "password_reset"}

ASSUME ConstantsAssumption ==
    /\ MaxFailedLogins \in Nat \ {0}
    /\ LockTtl \in Nat \ {0}
    /\ RefreshTtl \in Nat \ {0}
    /\ MaxTime \in Nat
    /\ Endpoints \subseteq SessionEndpoints \cup TotpEndpoints \cup AccountEndpoints
    /\ InitialRows \subseteq RegisteredRow

ASSUME NoneAssumption ==
    /\ None \notin Nat
    /\ None \notin Sids
    /\ None \notin Secrets
    /\ None \notin RevokeReasons

VARIABLES
    users,        \* users table: account -> row
    sessions,     \* user_sessions table: id of an existing row -> row
    audit,        \* audit_logs table, as the set of its entries
    held,         \* token responses that reached a client
    req,          \* worker -> request in flight, or None
    now,          \* utc_now()
    registered,   \* accounts that have a row in the users table
    tokens,       \* account_action_tokens table: id of an existing row -> row
    mailbox,      \* tokens that the notification gateway has delivered
    verified,     \* accounts with email_verified_at
    retired       \* sessions at rest when their account was reset (history)

(* What only AccountTokens writes. *)
accountVars == <<registered, tokens, mailbox, verified, retired>>

vars == <<users, sessions, audit, held, req, now, accountVars>>
-----------------------------------------------------------------------------
(* Rows.  A column that no decision of the code reads is left out.         *)

Time == 0..MaxTime

UserRow ==
    [status      : {"active", "locked", "disabled"},
     role        : {"user"} \cup Privileged,
     hash        : Hash,
     fails       : Nat,                   \* failed_login_count
     lockedUntil : Nat \cup {None},
     totp        : Secrets \cup {None},   \* totp_secret with totp_enabled_at
     pending     : Secrets \cup {None}]   \* totp_pending_secret

(* revoked_at and revoked_reason are always set together: one column here. *)
SessionRow ==
    [user    : Users,
     family  : Families,
     parent  : Sids \cup {None},          \* rotated_from_id
     expires : Nat,
     mfa     : BOOLEAN,                   \* mfa_verified_at IS NOT NULL
     revoked : RevokeReasons \cup {None}]

AuditActions ==
    {"auth.login", "auth.login.failure", "auth.refresh", "auth.refresh_reuse_detected",
     "auth.session_revoke", "auth.logout_all", "auth.browser_logout",
     "auth.totp.setup_started", "auth.totp.enabled", "auth.totp.disabled",
     "auth.register", "auth.email_verification.issued", "auth.email_verified",
     "auth.password_reset.issued", "auth.password_reset.completed"}

AuditEntry == [action : AuditActions, target : Users \cup Families]

(* What a handler holds between its reads and its commit. *)
LoginRequest ==
    [op : {"login", "admin_login"}, user : Users, row : UserRow,
     password : Passwords, at : Time]

RefreshRequest == [op : {"refresh"}, sid : Sids, row : SessionRow, at : Time]

FamilyRequest ==
    [op : {"logout", "user_revoked", "admin_role_rejected", "web_logout", "admin_logout"},
     user : Users, family : Families]

AccountRequest == [op : {"logout_all"}, user : Users]

TotpRequest ==
    [op : TotpEndpoints, user : Users, row : UserRow, family : Families,
     secret : Secrets \cup {None}]

RegisterRequest == [op : {"register"}, user : Users, password : Passwords]

IssueRequest == [op : {"issue"}, user : Users, kind : TokenKinds, at : Time]

VerifyRequest == [op : {"email_verify"}, user : Users, token : Tokens]

ResetRequest ==
    [op : {"password_reset"}, user : Users, row : UserRow, token : Tokens,
     password : Passwords]

Request ==
    LoginRequest \cup RefreshRequest \cup FamilyRequest \cup AccountRequest
        \cup TotpRequest \cup RegisterRequest \cup IssueRequest
        \cup VerifyRequest \cup ResetRequest

(* A response in held names the session row whose refresh token it carries; *)
(* mfa is the claim inside its access token, fixed when it was issued.     *)
TypeOK ==
    /\ users \in [Users -> UserRow]
    /\ DOMAIN sessions \subseteq Sids
    /\ sessions \in [DOMAIN sessions -> SessionRow]
    /\ audit \subseteq AuditEntry
    /\ held \subseteq [sid : DOMAIN sessions, mfa : BOOLEAN]
    /\ req \in [Procs -> Request \cup {None}]
    /\ \A p \in Procs : req[p] # None /\ req[p].op = "refresh"
                            => req[p].sid \in DOMAIN sessions
    /\ now \in Time
-----------------------------------------------------------------------------
(* Reading.                                                                *)

FamilyRows(f) == {s \in DOMAIN sessions : sessions[s].family = f}

ActiveRows(f) == {s \in FamilyRows(f) : sessions[s].revoked = None}

UsedFamilies == {sessions[s].family : s \in DOMAIN sessions}

Locked(row, t) == row.lockedUntil # None /\ row.lockedUntil > t

(* get_current_principal: an access token t is accepted while its account  *)
(* is active and its family still has an unrevoked, unexpired row.  The    *)
(* token's own short expiry is left out: it may be presented at any time.  *)
Principal(t) ==
    /\ t \in held
    /\ users[sessions[t.sid].user].status = "active"
    /\ \E s \in ActiveRows(sessions[t.sid].family) :
          sessions[s].user = sessions[t.sid].user /\ sessions[s].expires > now
-----------------------------------------------------------------------------
(* Writing.                                                                *)

Insert(table, id, row) ==
    [i \in DOMAIN table \cup {id} |-> IF i = id THEN row ELSE table[i]]

Log(action, target) == [action |-> action, target |-> target]

(* Mutant of Revoke: DELETE instead of UPDATE. *)
RevokeDeleting(rows, reason) == [s \in DOMAIN sessions \ rows |-> sessions[s]]

(* UPDATE user_sessions SET revoked_at, revoked_reason WHERE the row is in *)
(* rows AND revoked_at IS NULL: evaluated on the committed rows.           *)
Revoke(rows, reason) ==
    [s \in DOMAIN sessions |->
        IF s \in rows /\ sessions[s].revoked = None
        THEN [sessions[s] EXCEPT !.revoked = reason]
        ELSE sessions[s]]

(* The ORM writes a column only when its value differs from the one that   *)
(* was loaded; any other column keeps what the table holds by now.         *)
Column(current, loaded, assigned) == IF assigned = loaded THEN current ELSE assigned

FlushUser(current, loaded, assigned) ==
    [status      |-> Column(current.status, loaded.status, assigned.status),
     role        |-> Column(current.role, loaded.role, assigned.role),
     hash        |-> Column(current.hash, loaded.hash, assigned.hash),
     fails       |-> Column(current.fails, loaded.fails, assigned.fails),
     lockedUntil |-> Column(current.lockedUntil, loaded.lockedUntil, assigned.lockedUntil),
     totp        |-> Column(current.totp, loaded.totp, assigned.totp),
     pending     |-> Column(current.pending, loaded.pending, assigned.pending)]
-----------------------------------------------------------------------------
(* The life of a request.                                                  *)

Idle(p) == req[p] = None

Serving(p, ops) == req[p] # None /\ req[p].op \in ops

Start(p, r) == req' = [req EXCEPT ![p] = r]

Finish(p) == req' = [req EXCEPT ![p] = None]

(* The response with the new tokens reaches the client, or is lost on the  *)
(* way after the transaction has committed.                                *)
Respond(sid, mfa) == held' \in {held, held \cup {[sid |-> sid, mfa |-> mfa]}}

(* The worker dies, or its commit fails: the transaction is rolled back    *)
(* and nobody resumes the request.                                         *)
Crash(p) ==
    /\ ~Idle(p)
    /\ Finish(p)
    /\ UNCHANGED <<users, sessions, audit, held, now, accountVars>>

Tick ==
    /\ now < MaxTime
    /\ now' = now + 1
    /\ UNCHANGED <<users, sessions, audit, held, req, accountVars>>

Init ==
    /\ users \in [Users -> InitialRows]
    /\ sessions = [s \in {} |-> None]
    /\ audit = {}
    /\ held = {}
    /\ req = [p \in Procs |-> None]
    /\ now = 0
    /\ registered \in SUBSET Users
    /\ tokens = [t \in {} |-> None]
    /\ mailbox = {}
    /\ verified = {}
    /\ retired = {}
=============================================================================
