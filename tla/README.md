# TLA+ models of Password Detective

This directory holds TLA+ specifications of the program in `src/`, TLC
configurations that check them on small instances, and proofs of their main
properties that TLAPS checks for every value of the constants. Everything is
translated from the source; the API is `src/apps/api/src/password_detective/`,
called `pd/` below.

## 1. Inventory

The repository is at milestone M1: accounts, sessions and administration of a
future archive-password service. Three clients (web, admin, Windows) talk to
one FastAPI process per instance; the instances share a SQL database and a
Redis counter store.

| component | state | operations | interacts with |
|---|---|---|---|
| Sessions (`pd/modules/auth/service.py`, the endpoints in `auth/router.py`, `admin/router.py`, `auth/dependencies.py`) | `users`, `user_sessions`, `audit_logs` | sign-in (plain, web, admin), refresh rotation with reuse detection, logout, device list, logout-all, cookie logout, authorisation of an access token | every other authenticated operation reads its rows; TOTP and password reset write them |
| TOTP and MFA (`auth/totp.py`) | three columns of `users`, `mfa_verified_at` of `user_sessions` | setup, confirm, disable, verify at sign-in | sessions |
| Account tokens (`auth/account_tokens.py`) | `account_action_tokens` | issue, verify e-mail, reset password | writes `users` and revokes `user_sessions`; sends notifications |
| Registration (`service.register_user`) | `users` | register | issues an account token in a second transaction |
| Idempotency (`core/idempotency.py`) | `idempotency_records` | acquire, complete, abandon | wraps the forgotten-password endpoint |
| Rate limiter (`core/rate_limit.py`) | a deque per key, or a Redis counter per key and window | check, ping | a dependency that runs before most handlers |
| Browser boundary (`auth/browser_session.py`, `/auth/web/*`, `/admin/auth/*`) | one refresh cookie per app in the jar of the browser | set by a sign-in, named by a logout, deleted | sessions; all tabs of a browser |
| Web and admin stores (`apps/*/src/stores/auth.ts`, `router.ts`) | session of the tab in memory and `sessionStorage`, busy flag, page | login, register, logout, revoke, access check, TOTP enrolment, navigation | the endpoints above, over awaits |
| Desktop fingerprint (`apps/desktop-windows`) | one view model, one command, one calculation | select, calculate, cancel | the local file system and other programs |
| the rest | none worth a model | configuration, logging, error format, health, Celery ping, migrations, style sheets, deployment | |

What is hard here:

* Handlers are synchronous `def` functions, so FastAPI runs them on a thread
  pool, several at a time, in several instances. Each has its own database
  session. Nothing locks a row for a decision: there is no `SELECT ... FOR
  UPDATE` and no version column. Every "read, decide, write" is open to whatever
  commits in between.
* The ORM writes only columns whose value changed with respect to what it
  loaded, by primary key. A late commit mixes its columns with those another
  handler committed.
* Several operations are two transactions (an admin sign-in without the role,
  registration, an account token and its notification, the idempotency lease),
  with a possible crash in between.
* The client that loses an answer retries with a token the server has already
  replaced; the server cannot tell that from a replay.
* Tabs share a cookie and keep access tokens of their own; an operation of a
  store is up to three requests, and the user clicks on between them.
* The desktop window is one thread, but its commands, its reports and its
  continuations run in pieces, and the file belongs to everybody.

The correctness of each component, as the documents put it: one working refresh
token per session family, replay and logout end a family for good (ADR-0003);
a lockout after a number of failures (AUTH-05); MFA only by enrolment (AUTH-04);
a mailed token works once, and a reset ends the sessions; one execution and one
answer per idempotency key (ADR-0006); separate sessions for the two browser
apps (ADR-0007); every state change audited (module map, rule 2).

`PROJECT.json` lists the components, and under `hazards` each place where these
may fail.

## 2. Modules

| module | models | extends |
|---|---|---|
| `AuthStore` | tables, snapshots in flight, the ORM's flush, authorisation, crash, clock | |
| `AuthService` | `auth/service.py` without registration, its endpoints | `AuthStore` |
| `TotpService` | `auth/totp.py`, its endpoints | `AuthStore` |
| `AuthSystem` | both on the same tables: next-state relation, refinement mappings | `AuthService`, `TotpService` |
| `AccountTokens` | registration, `auth/account_tokens.py`, their endpoints | `AuthService` |
| `AccountSystem` | everything above on the same tables and workers; refinement mapping | `AuthSystem`, `AccountTokens` |
| `SessionFamilies` | abstract: a family is opened once and ends for good | |
| `SessionChain` | abstract: ADR-0003, one working token per family | |
| `OneTimeTokens` | abstract: a token serves one purpose, once, and dies for good; and what is left of that when uses overlap | |
| `Idempotency` | the lease protocol around the operation it protects | |
| `RateLimiter` | the parameters of a check | |
| `MemoryRateLimit`, `RedisRateLimit` | the two back ends, one key each | `RateLimiter` |
| `RateLimit` | an application, which takes one of them | both |
| `BrowserSession` | requests under way, cookie jar, answers of the browser endpoints; server sessions are abstract | `SessionFamilies` |
| `BrowserStore` | stores and routers of both browser apps, what users do | `BrowserSession` |
| `FingerprintWindow` | view model, command and file service of the Windows client | |
| `MC...` | symmetry and initial rows for TLC | the module of that name |
| `AuthSystemProofs` | theorems: types, snapshots and families of sessions and TOTP | `AuthSystem` |
| `AccountProofs` | theorems: types, families, tokens, resets and passwords with the account endpoints | `AccountSystem`, `AuthSystemProofs` |
| `HistoryProofs` | theorems: descent, audit, MFA | `AccountProofs` |
| `SerialProofs` | theorems: what holds one request at a time | `HistoryProofs` |
| `IdempotencyProofs`, `RateLimitProofs`, `BrowserProofs`, `FingerprintProofs` | theorems | the module they are about (`BrowserProofs`: `BrowserStore`, `FingerprintProofs`: `FingerprintWindow`) |

The sessions behind the browser are the abstract ones of `SessionFamilies`, and
`AuthSystem` is proved to implement that specification; the two halves meet there.

### How the state and the actions correspond to the code

*Tables.* `users` and `sessions` are functions from ids to rows; a column no
decision reads (user agent, IP prefix, `last_used_at`, names) is left out.
`revoked_at` and `revoked_reason` are always set together, so they are one
column, and so are `totp_secret_ciphertext` with `totp_enabled_at`. Names and
refresh tokens are ids: a token hash is unique and identifies its row. A session row
that is new gets any id not yet used. `audit` is the set of entries written.

*Requests.* `req[p]` is what worker `p` holds between reading and committing.
A handler is two steps: `Begin...` takes the snapshot and follows the code up to
the last early return that changes nothing; `Commit...` is the transaction, on
the rows as they are by then. Bulk `UPDATE ... WHERE` statements are evaluated
on the committed rows (`Revoke`, `Invalidated`); assignments to a loaded object are applied
column by column where they differ from the snapshot (`FlushUser`), by primary
key (`CommitRotation`, `CommitExpired`). `db.refresh` after the commit is merged into the
commit. No code writes the role it reads; `mfa_verified_at` of the new row may be set in between, by another client of the
family that confirms TOTP just then (`confirm_totp_setup` updates the family). The claim in the answer is then already true where
the model gives the value of the commit. It is the claim the next refresh gives anyway, and the enrolment
behind it is on record, so no property depends on it.

*Why one commit step is enough.* Under both READ COMMITTED and REPEATABLE READ a bulk
update reads the newest committed rows and holds its locks until the commit, so
the order of two transactions on a row is the order of their commits. The one
behaviour a single step does not show, an update that waited for a rotation and
does not see the row it inserted, ends in the same tables as the two commits in
the other order.

*Account tokens.* A handler of this group is the same two steps. `CommitIssue` is one step
although it invalidates and inserts, and this is where the isolation level matters: under InnoDB's
REPEATABLE READ, its default, which the code leaves as it is, the `UPDATE` keeps next-key locks on the rows and gaps of
the account, so a second issue waits, or both hold the gap, deadlock, and one is rolled back
(`Crash`); SQLite has one writer at a time. Under READ COMMITTED two issues could leave two live
tokens. The variables only these endpoints write are declared with the other tables in `AuthStore`
(`accountVars`), and every other action leaves them alone; `registered` says which accounts have a row. Registration is `BeginRegister` (the first SELECT), `CommitRegister` (unique columns, 409 after a
rollback, or the account and its audit entry) and, by the same worker, `CommitIssue`. `mailbox` are the tokens that a
notification brought to somebody: the send follows the commit and may fail. `retired` is a history: the
families of an account that a reset found without a rotation in flight.

*Failure.* `Crash(p)` drops a request at any point between its steps: a dead
worker, a lost connection, a rolled-back transaction (a unique or deadlock
error). `Respond` lets the answer be lost after the commit.

*Clients of the API.* `held` are the token responses some client has. A client may present
any of them at any time, old ones included: this is the retry after a lost
answer and the replay. The short life of the access token itself is not
tracked, so it may be presented for longer than the code accepts it; what the
database says is checked as in `get_current_principal`. A right TOTP code is
assumed where the code demands one: a wrong one is a refusal without a trace.

*Idempotency.* A row has an id, since `complete` and `abandon` look records up
by primary key. The worker is a small state machine over phases: `insert`
(found nothing), `run`, `complete`, `abandon`, `broken` (a flush failed inside
the operation, and every further statement of that session raises, `abandon`
included), and the answers. `expires_at` is written and never read by any code,
so it is not modelled: there is no cleanup task yet.

*Rate limiter.* Keys do not influence each other, so one key is enough. In memory, a thread
reads the clock (`Arrive`) before it gets the lock (`LetIn`, `TurnAway`), and
time is counted in ticks finer than a second, because the code's seconds are floats. In Redis, the INCR
and EXPIRE of a request are one step, and `sent` is the second its host read before; `MaxDelay`
bounds the way in between, for which the code itself sets no timeout. All hosts show
the same time. `letIn`, `told`, `admitted` and `calls` are histories that no action reads (but for the bound
`MaxCalls`). `RateLimit` takes one of the two back ends at the start and keeps it, as `create_app` does.

*Browser.* `fetch[t][n]` is a request of a tab: `sent`, `answered` by a `Serve...` action, and for the
requests that touch the cookie `arrived`, since the browser stores the cookie before the script
resumes. The script's continuation after an `await` is one action (`AfterLogin`, ...); between two of them
the user may click, navigate or reload, which kills the scripts but not the requests' effects in
the API; the jar is then left as it is, one of the two things a browser does with an abandoned request.
`Guard` is `router.beforeEach`, which goes by `sessionStorage` alone. `EndElsewhere` ends any
session at any time (expiry, reset, another device). `Lose` drops a request or an answer. `overtaken` is a history:
the tab has asked for a logout since this sign-in was sent.

*Desktop.* The UI thread runs a click up to its first `await`; every later piece is an action:
`Open`, the reads, `Complete` (the continuation with its `finally`), `EndExecute` (the command's `finally`) and
`ShowProgress` (one posted report). The dispatcher runs what was posted before it takes input, which is the order of
priorities in WPF (`TakesInput`). `enabled` is what a button was last told by `CanExecuteChanged`, and may be out
of date; `seen` is a history, the answer `File.Exists` gave when Calculate was last asked. `WriteFile` and `DeleteFile` are other programs, kept out by `FileShare.Read` while the stream is
open; a file may be created, and may disappear and come back (saved by delete and create) at any time. A file is a version and a number of blocks; a hash is the set of versions whose blocks went into it.

## 3. What is checked

Runs are listed with their properties in `PROJECT.json`.

| run | instance | states | properties |
|---|---|---|---|
| `auth_concurrent` | 2 workers, 1 account (admin or member), 3 rows, 2 families; admin_login, refresh, logout-all, web_logout | 793,498 | `TypeOK`, `FamilyLineage`, `AuditTrail`, `ImplementsFamilies` |
| `auth_serial` | 1 worker, right and wrong password, an admin, a member with an outdated hash, a disabled account; admin_login, refresh, device list, forgot and reset, TOTP | 1,994,141 | `RevocationIsFinal`, `LockoutAgrees`, `MfaNeedsEnrolment`, `ImplementsChain`, `MfaSurvivesRotation`, `ImplementsOneTimeTokens` |
| `accounts_concurrent` | 2 workers, 1 account with an outdated hash or none yet, 2 rows, 2 families, 2 tokens; login, refresh and the five account endpoints | 426,146 | `AccountTypeOK`, `OneLiveToken`, `AuditTrail`, `ResetEndsSessions`, `ImplementsOverlappingUses`, `PasswordHistory`, `ImplementsFamilies` |
| `idempotency_lease` | 3 workers, 2 keys, 2 digests, 3 leases | 355,986 | `TypeOK`, `LeaseExclusive`, `ReplayFaithful`, `CompletedIsFinal` |
| `rate_limit` | either back end, 3 requests under way, limit 2, window of 3 s, half seconds in memory, delay up to 1 s in Redis | 1,251,561 | `MemoryTypeOK`, `ExcessBound`, `RetrySecondLater`, `RefusedOnlyWhenFull`, `TypeOK`, `BucketBound`, `RefusedOnlyWhenUsedUp` |
| `browser` | a tab of each app, 2 families, 2 requests under way | 276,926 | `BrowserTypeOK`, `GuardedPages`, `BusyWhileSigningIn`, `SignedOutStays`, `AppsApart` |
| `desktop` | 2 files, 2 versions, up to 3 blocks | 174,825 | `TypeOK`, `ButtonsUsable`, `FingerprintOfSelected`, `ResultMeansFull`, `CalculationEnds` |

The properties, and what they add over the tests of the repository:

* `FamilyLineage`: rotations build one chain of descent per sign-in; two
  rotations of the same row may give it two children, but never a second root, a
  child of another account, or a validity that grows past its due.
* `AuditTrail`: however late commits overwrite `revoked_reason`, the reason a row
  ends with has its audit entry. An expiry found by a refresh is the one revocation
  that the code does not audit.
* `ImplementsFamilies`: the sessions refine `SessionFamilies`. The refinement
  mapping counts a family as live while a rotation that read an active row is
  in flight: this is exactly what the code can promise, and the weakest statement
  under which "ended" is final. Checked again with the account endpoints beside it.
* `RevocationIsFinal`, `LockoutAgrees`, `ImplementsChain`: what holds one request
  at a time (proved, section 4). They fail with two workers: the next table says how, and two failures at once read
  and write the same count, so an account may lock later than AUTH-05 counts.
* `MfaNeedsEnrolment`, `MfaSurvivesRotation`: the MFA instant of a session, the
  claim inside access tokens and the account's secret, written by four handlers. The first is proved for
  every interleaving, the second for one request at a time (section 4).
* `ImplementsOneTimeTokens`: a mailed token serves its own account and purpose, and only once. This holds one request at a
  time. `ImplementsOverlappingUses` is what every interleaving leaves of it: two requests that both read a token unused both use it
  (the next table), for its one purpose, and after the last of them it is dead.
  `OneLiveToken`: nobody has two live reset mails.
* `ResetEndsSessions`, `PasswordHistory`: what a reset achieves against sign-ins, rotations and
  other resets in flight. The exception of `PasswordHistory` is a disagreement of the next table.
* `LeaseExclusive`, `ReplayFaithful`, `CompletedIsFinal`: at most one worker under
  a key, a replay belongs to the very payload, an answer is given once and for all.
* `ExcessBound`: with threads that read the clock and get the lock in different orders, the excess
  over the limit, in any sliding window, is at most one request per further thread: none with one
  thread. It is tight: with one less TLC finds a counterexample. `LetInUpTo` counts the pairs of a time and a
  number that `letIn` stands for.
* `RefusedOnlyWhenFull`: the other direction. It holds while the lock is given in order; after that
  an old event may be stuck behind a younger one and keep somebody out.
* `RetrySecondLater`: the seconds a refused client is told are rounded down, so its retry may be refused again;
  one second later it is let in.
* `BucketBound`: the limit per bucket is exact over all instances. It depends on the one second
  by which a counter outlives its window, for requests up to one second on the way; with
  `MaxDelay = 2` it fails. A window that is not aligned with the buckets may see twice the limit, as
  fixed windows do (ADR-0006).
* `GuardedPages`, `SignedOutStays`: a late answer never puts a tab on a page its session is not for, and a
  sign-in that a logout overtook does not sign the user app in again (no page lets both be under way in one tab: the
  sign-in form is guarded, and a reload abandons its request). The admin app is left out of the second: its login page has no
  `guestOnly`, so a signed-in tab can submit it, log out, and be signed in by the late answer.
* `BusyWhileSigningIn`: registration is two requests and an admin sign-in is two; through each failure the form
  is locked exactly as long as one of them is under way. The button is guarded by that flag and by nothing
  else.
* `AppsApart`: cookies of their own keep the apps' logouts apart.
* `ButtonsUsable`: the buttons hang on two flags that change one after the other. Of an idle window, Select is
  enabled, Cancel is not, and Calculate is exactly what `File.Exists` said when the command was last asked: the flags never leave a button
  behind, and the file is the one thing a button can be out of date about.
* `FingerprintOfSelected`, `ResultMeansFull`, `CalculationEnds`: reports that are posted, and a file that others write,
  delete and create.

The endpoints that a run leaves out are the ones another one stands for: `login` is `admin_login`
of an admin, `logout` is the device list on one's own family, `admin_logout` is `web_logout` under another
reason.

### Disagreements between documents and code

Each has a run in which TLC finds the counterexample.

| run | property | what happens |
|---|---|---|
| `refresh_after_reuse` | `RevocationIsFinal` | two refreshes read one token unrevoked; the first rotates it; the token comes back and the family is revoked as reused; the second rotates it again, and its successor works |
| `token_used_twice` | `TokenUsedOnce` | two password resets read one mailed token unused; both take effect, and the second password overwrites the first |
| `reset_undone` | `PasswordOnlyByReset` | a sign-in with the old password that renews an outdated hash commits after a reset: the old password is in force again, and its session lives |
| `logout_other_tab` | `LogoutEndsCurrent` | two tabs signed in one after the other share the second's cookie: a logout in the first ends the second one's family, not its own |
| `idempotency_stuck` | `InProgressMeansRunning` | a dead worker, or a failed flush after which `abandon` fails too, leaves a record in progress for ever; retries get 409 |

The two steps of `refresh_after_reuse` are disagreements each by itself. Without the replay in between, a token refreshed by two tabs at
once gives the family two working tokens and no reuse is detected (`OneActivePerFamily` fails). And any other
revocation while a refresh is in flight, by logout, the device list or logout-all, is undone by its commit.

Seen on the way, and stated by no document: a file that is absent when the buttons are told, and back later, leaves Calculate
disabled in an idle window until a file is selected, although `CanExecute` would allow it; a second click on logout, whose answer comes late, clears a sign-in made
meanwhile; revoking one's own session does not reach `clear()`, since the list that follows is refused; a logout whose request is
lost leaves the server's session alive until it expires, as the comment there accepts.

### Bounds

* `MaxTime`, `RefreshTtl`, `LockTtl`: in `auth_concurrent`, with 2 ticks and a validity of 2, a row
  can be rotated early, in its last tick and at the very instant of expiry. In `auth_serial` 1 tick of
  lock and validity can be met, met at its end, and outlived. `accounts_concurrent` has no clock
  (`MaxTime` 0): its hazards are orders of commits; tokens expire in `auth_serial`. `MaxFailedLogins` is 2 instead of 5: one failure below
  the limit, one at it (1 in `accounts_concurrent`, where the first failure locks).
* `Sids`: 3 rows in 2 families allow a chain of three in one family (replay of
  the first token of three), or a rotated family beside a fresh one. 2 rows in 2 families, where the reset is the
  question, allow a rotated family, or one family at rest and one signed in meanwhile. `Sids`,
  `Families` and `Tokens` are also what ends a run: sign-ins and issues stop when none is left.
* `Tokens`: 2, so that an issue finds an older one, of the same kind or the other.
* `Procs`: 2 workers give every pair of handlers every interleaving; the code has no
  race that needs three sessions, except in `Idempotency`, where the third worker may take
  the key between a conflict and the re-read.
* Limiter: a limit of 2 tells "full" from "not empty"; the clock runs for more than two windows
  (`MaxTime` 7 s, and `MaxTicks` 9 of a window of 6), so that
  events leave the window and buckets are left behind; 4 calls in a bucket are
  twice the limit; a window of 3 s lets the rounding of the retry seconds show.
* Browser: one tab per app shows every race within an app, and between the apps, of two requests (`MaxFetches`, `MaxPending` 2: a
  third waits until one is done); 2 families are an old session and a new one. `logout_other_tab` has two tabs of one app.
* Desktop: 2 files, for a selection that changes; 3 blocks give a first, a middle and a last read, and files that grow or shrink
  after their size was read.
* `MaxLeases` 3: a key may be abandoned and taken again while another is held.
* One account: no handler reads or writes another account's rows; proofs cover
  any number.
* `SYMMETRY`: rows, families, workers, tokens, secrets, keys and digests occur in no
  definition and are only compared; only safety is checked with it, for which it is sound. The `CHOOSE` in
  `currentBar` picks from one element wherever `ImplementsChain` holds. `desktop`, which checks liveness, has none.
* `CHECK_DEADLOCK FALSE` in the `MCAuthSystem`, `MCAccountSystem`, `rate_limit`, browser and `desktop` runs: the clock and the ids are
  bounded, no client or user is obliged to act, and a window without a file waits for ever, so the system may stop. In
  `idempotency_*` deadlock is checked.

### Fairness

`FingerprintWindow` assumes weak fairness of `Open`, `Reading`, `Complete`, `EndExecute` and `ShowProgress`: the disk
answers every read, with a block, the end or an error, and the UI thread runs what it was given. Nothing is assumed of the user or of other
programs. From this, every calculation ends and leaves the window idle (`CalculationEnds`); it
also needs that files are finite, and that nobody grows a file that is being read, which `FileShare.Read` grants.

No other specification states fairness. A worker of the API may die at
any point, so no handler is obliged to finish, and the statement that would need
fairness (a record in progress is eventually released) is refuted by a safety
run. The browser sets no timeout on its requests, so an answer may never come; what can be said of the busy
flag is safety (`BusyWhileSigningIn`).

## 4. What is proved

| module | theorem | statement |
|---|---|---|
| `AuthSystemProofs` | `SystemTypeOK` | `SystemSpec => []TypeOK` |
| | `SystemSnapshots` | `SystemSpec => []SnapshotInv` |
| | `SystemImplementsFamilies` | `SystemSpec => ImplementsFamilies` |
| `AccountProofs` | `AccountTypes` | `AccountSpec => []AccountTypeOK` |
| | `AccountsRegistered` | `AccountSpec => []OnlyRegistered` |
| | `AccountImplementsFamilies` | `AccountSpec => ImplementsFamilies` |
| | `FamiliesHaveOneOwner` | `AccountSpec => []OneOwner` |
| | `ResetsEndSessions` | `AccountSpec => []ResetEndsSessions` |
| | `OneLiveTokenEach` | `AccountSpec => []OneLiveToken` |
| | `TokensDieForGood` | `AccountSpec => ImplementsOverlappingUses` |
| | `PasswordsByResetOrRenewal` | `AccountSpec => PasswordHistory` |
| `HistoryProofs` | `RotationsKeepLineage` | `AccountSpec => []FamilyLineage` |
| | `RevocationsAreAudited` | `AccountSpec => []AuditTrail` |
| | `SystemHistory` | both of `SystemSpec` |
| | `SystemMfaNeedsEnrolment` | `SystemSpec => []MfaNeedsEnrolment` |
| | `MfaOnlyByEnrolment` | `AccountSpec => []MfaNeedsEnrolment` |
| `SerialProofs` | `SerialRevocationIsFinal` | `AccountSpec /\ OneWorker => []RevocationIsFinal` |
| | `SerialLockoutAgrees` | `AccountSpec /\ OneWorker => []LockoutAgrees` |
| | `SerialOneActive` | `AccountSpec /\ OneWorker => []OneActivePerFamily` |
| | `SerialPasswords` | `AccountSpec /\ OneWorker => PasswordOnlyByReset` |
| | `SerialOneTimeTokens` | `AccountSpec /\ OneWorker => ImplementsOneTimeTokens` |
| | `SerialMfaSurvives` | `AccountSpec /\ OneWorker => MfaSurvivesRotation` |
| | `SerialImplementsChain` | `AccountSpec /\ OneWorker => ImplementsChain` |
| `IdempotencyProofs` | `LeaseTypeOK` | `Spec => []TypeOK` |
| | `LeaseIsExclusive` | `Spec => []LeaseExclusive` |
| | `ReplayIsFaithful` | `Spec => []ReplayFaithful` |
| | `CompletedForGood` | `Spec => CompletedIsFinal` |
| `RateLimitProofs` | `LimiterTypeOK` | `Spec => []TypeOK` |
| | `LimitHolds` | `MaxDelay <= 1` implies `Spec => []BucketBound` |
| | `RefusalsAreDue` | `Spec => RefusedOnlyWhenUsedUp` |
| | `MemoryTypes` | `MemorySpec => []MemoryTypeOK` |
| | `RetryASecondLater` | `MemorySpec => []RetrySecondLater` |
| | `ExcessIsBounded` | `MemorySpec => []ExcessBound` |
| | `RefusalsAreDeserved` | `MemorySpec => RefusedOnlyWhenFull` |
| | `OneBackEnd` | `LimiterSpec => MemorySpec /\ Spec`, with corollaries for the application |
| `BrowserProofs` | `BrowserTypes` | `BrowserSpec => []BrowserTypeOK` |
| | `FormsLocked` | `BrowserSpec => []BusyWhileSigningIn` |
| | `PagesAreGuarded` | `BrowserSpec => []GuardedPages` |
| | `LogoutSticks` | `BrowserSpec => SignedOutStays` |
| | `AppsStayApart` | `BrowserSpec => AppsApart` |
| `FingerprintProofs` | `WindowInvariant` | `Spec => []WindowInv` |
| | `WindowTypeOK`, `WindowButtonsUsable`, `WindowFingerprintOfSelected`, `WindowResultMeansFull` | `Spec => []` of `TypeOK`, `ButtonsUsable`, `FingerprintOfSelected`, `ResultMeansFull` |

They hold for any sets of accounts, rows, families, tokens, workers, secrets,
passwords, keys, digests, tabs, files and versions, and any limits and bounds, under the assumptions the modules name
(`ConstantsAssumption`, `NoneAssumption`, `TokenTtlAssumption`, `LeasesAssumption`, `NotARow`, `LimitAssumption`,
`ResolutionAssumption`, `ThreadsAssumption`, `DelayAssumption`, `NotACounter`, `TabsAssumption`,
`NoRequestAssumption`, `FilesAssumption`): limits
are positive numbers, `None` is none of the values it stands beside, the thread pool of a host is finite and not empty, a tab belongs to
one app, and the initial rows are rows of registered accounts without TOTP.

*`SystemImplementsFamilies`.* `phaseBar` depends on `sessions` and on the
rotations in flight. `RowsKept`: a step never removes a row, never changes its
account or family, and never makes a revoked row active. `SnapshotInv`: the
family and the account a refresh remembers are those of its row; it is needed
because the successor is built from the snapshot, and only with it does
a late rotation insert into a family whose rotation was in flight.
`RotationOrigin`: a rotation in flight was in flight before, or its family has
an active row now. From these, a family that has ended can get neither an active
row nor a rotation, a step that is neither a sign-in nor a rotation can only end
families (`InPlaceStepEnds`), a sign-in opens an unused one (`SignInOpens`), and
a rotation leaves every phase as it is: its family was live because the rotation was in flight, and is
live because of the successor (`RotationStutters`).

*The account endpoints.* `AccountTypeOK` is not inductive: a verification marks the account its
request named, and a sign-in gives a session to the one it read. `AccountInv` adds that rows, tokens and requests refer to
registered accounts only (`OnlyRegistered`), that a request which acts on a token holds it for that account and that purpose
(`TokensInUse`), and the snapshots of `AuthSystemProofs`, whose
lemmas are about single actions and so serve both specifications. The refinement of `SessionFamilies` then needs one more fact: the account endpoints
leave every row its account and family and make none active (`AccountRows`).

*`ResetsEndSessions`.* A family is in `retired` when a reset found it at rest, that is when `phaseBar` became "ended";
that it stays without a working row is the finality that the refinement has proved, so the theorem is `RetiredEnded`, an
invariant about `phaseBar`, and the refinement.

*`TokensDieForGood`, `OneLiveTokenEach`.* A token is dead for `OneTimeTokens` when it is used or invalidated and no request that read it unused is
left; nothing brings it back, because `CommitIssue` takes an unused id and no other action clears the mark.
Two live tokens of one kind never arise, because an issue invalidates on the committed rows in the step that inserts.

*`RotationsKeepLineage`.* The statement about a successor's validity is about the row its rotation read, some time before. `TermsCounted`
says that every row, and what a rotation in flight read of one, counts its validity from a moment that has passed, so the
successor's ends no earlier; `SnapshotInv` says whose row it is.

*`RevocationsAreAudited`.* Late commits overwrite the reason of a row, so the invariant is about every reason a row can end with:
`TrailInv` asks for the entry that the handler of that reason writes in the same transaction (`EntryOf`), and for the
entry of the sign-in that opened the family. Entries stay (`AuditGrows`), so a step has to explain only the rows it changes.

*MFA.* `MfaNeedsEnrolment` is not inductive: a sign-in makes its session from the account row it
once read, a rotation from the session row. `MfaInv` adds that a sign-in in flight that read a secret is of an enrolled account, and
that a refresh in flight that read an MFA instant has it from a row that still has it. Audit entries stay (`AuditGrows`), no row
loses its instant and only a confirmation of the same account gives one (`SessionsEnrolled`), a flush brings a secret into
force only by a confirmation, whatever it had loaded (`SecretsEnrolled`). The account endpoints change neither a secret nor an MFA instant (`AccountSecrets`, `AccountRowsMfa`).

*One request at a time.* `OneWorker` says that `Procs` has no two members: it is the setting of `auth_serial`, not one the deployment grants, and
the violation runs of section 3 show that four of the seven statements (finality, one working token, passwords, single use) fail with a second worker. From it, what a request read is what the tables still hold
when it commits (`FreshReads`, an invariant: any step that changes a table is the commit of the request itself). `SerialRevocationIsFinal` also needs
that ids of families that were never opened occur in no audit entry (`OnlyUsed`). `ImplementsChain` uses `OneActivePerFamily`: the `CHOOSE` of `currentBar` then picks
from at most one row.

`SerialOneTimeTokens` needs of it only that the request which
uses a token is the one that read it: when it is done nobody is left, so the use puts an end to the token (`SingleUse`).

*Idempotency.* `IInv` strengthens `LeaseExclusive` and `ReplayFaithful`: lease ids are positive, at
most `created` and unique; a worker holding a lease has the record in progress
with its own digest, one worker per record; `complete` is reached only with the effect committed;
a completed record has its effect. `CompletedIsFinal` follows from `IInv` and one
step.

*`LimitHolds`.* `IInv` adds to `BucketBound` that no request is on the way for longer than `MaxDelay`, and, per
bucket, that a counter knows everything its bucket let through and lives past the second after
the window, or is gone only then or before anybody was let through. A request at most a second
late therefore never restarts a counter (`LateByASecond`). The arithmetic of buckets is in `BucketSpan`.

*`RefusalsAreDue`.* `CallsCounted`: per bucket, what the counter says and the requests still under way are together at most the calls. It is
independent of `MaxDelay`: a counter that restarts only counts less.

*The in-memory limiter.* `RetrySecondLater` says what a later request would find, so the invariant says what the refused one left: `StillFull`,
a full deque whose first event leaves the window in the second after the one told, as long as nobody has come in with a later time. `ExcessBound` speaks of every window, also of one
the deque has forgotten. `ExcessInv` splits on whether some thread has already come with a later time than the end of the window: until then
all requests of the window are in the deque, behind what is out of it, and the deque holds at most `Limit` (`AllKept`); from then on, what may be added is on its way already, in the
threads that read the clock before, and the thread that overtook them is not one of those (`Overtaken`), which is where the "- 1" of the bound comes from. `RefusedOnlyWhenFull` needs
that every event of the deque is a request of its own (`Recorded`); the refused one finds `Limit` of them, all within its window if the deque is sorted.

*The browser.* `BrowserInv` is `BrowserTypeOK` with what the pieces of a script rely on from one `await` to the next: a request has the fields its kind is sent with (`Asked`), a cookie is of the app
it was set for (`CookiesOwn`), at most one sign-in of a tab is under way and the busy flag is its own (`SignInOK`), and each
page fits the stored session, in which the fields of an administrator agree with each other and with the sessions that are MFA-verified (`PageOK`).
`SignedOutStays` and `AppsApart` are one step from there.

*The window.* `WindowInv` is `TypeOK` with four parts: what flags and buttons are at each stage of a calculation,
Calculate up to what `File.Exists` answered (`ButtonsInStep`); a job is about the selected file and, while it reads, about the version that lies on the disk
(`JobOfSelected`, which rests on `FileShare.Read`); the same of the result (`ResultOfSelected`); and that the last
report posted is 100 from the end of a successful read on, until the next one begins (`FullBeforeResult`), without which nothing says what
the bar shows once the queue is empty.

Only model-checked: `CalculationEnds`, and the five violations, of which `RevocationIsFinal` and
`PasswordOnlyByReset` are theorems for one request at a time; single use is one there as `ImplementsOneTimeTokens`.

Out of the provers' reach: `CalculationEnds` (liveness), and what a
recursive definition computes for every input. No module here declares a RECURSIVE operator.

## 5. Plan

Modelled so far: everything the repository's components do that keeps state over more than one step. What is left:

1. `Idempotency` composed with `CommitIssue`: the forgotten-password endpoint under its key, where an abandoned
   lease has issued a token already. With it, that a replay sends no second mail.
2. The refresh endpoints of the browser, when a page calls them.

Proofs: the theorem of that composition; that two in-flight uses are the most a one-time token can have with two
workers, in general one per worker; and that two sign-ins with wrong passwords lose at most one failure per further
worker, the concurrent counterpart of `LockoutAgrees`.

## 6. Not modelled

Argon2, JWT and Fernet (external libraries: what they verify is a guard); the
Origin check (a stateless refusal); `web_refresh`, `admin_refresh` and the store's `refresh` (no page calls
them; the rotation behind them is in `AuthService`); `beginTotpSetup` of the admin store (nothing changes in the browser); health,
configuration, logging, error format (no state); the Celery worker (one ping
task); the settings table (no code uses it); migrations, style sheets,
deployment and CI.
