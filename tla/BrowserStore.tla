----------------------------- MODULE BrowserStore -----------------------------
(***************************************************************************)
(* The stores and routers of the two browser applications: what a tab      *)
(* remembers of its session, which page it shows, and how the script goes  *)
(* on when an answer is there.  Between a click and its answer the user    *)
(* may click on, navigate, or reload the tab.                              *)
(***************************************************************************)
EXTENDS BrowserSession

VARIABLES
    store,   \* tab -> its session, in the store and in sessionStorage, or None
    busy,    \* tab -> a sign-in or registration is under way
    page     \* tab -> the page it shows

browserVars == <<serverVars, cookie, fetch, store, busy, page>>

(* "login" is also the registration page, whose form differs in what it     *)
(* sends only; "home" is also the audit page of the admin app.             *)
Pages(t) ==
    IF t \in WebTabs THEN {"home", "login", "security"}
    ELSE {"home", "login", "totp-setup"}

BrowserTypeOK ==
    /\ BoundaryTypeOK
    /\ store \in [Tabs -> [family : Families, enrollmentOnly : BOOLEAN] \cup {None}]
    /\ busy \in [Tabs -> BOOLEAN]
    /\ page \in [Tabs -> UNION {Pages(t) : t \in Tabs}]

Bearer(t) == IF store[t] = None THEN None ELSE store[t].family

(* isAuthenticated *)
Authenticated(s) == s # None /\ ~s.enrollmentOnly

(* Mutant of Barred: guestOnly is not looked at. *)
BarredGuestsToo(t, s, to) ==
    \/ to = "security" /\ s = None
    \/ to = "home" /\ t \in AdminTabs /\ ~Authenticated(s)
    \/ to = "totp-setup" /\ ~(s # None /\ s.enrollmentOnly)

(* router.beforeEach, which goes by sessionStorage alone. *)
Barred(t, s, to) ==
    \/ to = "security" /\ s = None
    \/ to = "login" /\ t \in WebTabs /\ s # None
    \/ to = "home" /\ t \in AdminTabs /\ ~Authenticated(s)
    \/ to = "totp-setup" /\ ~(s # None /\ s.enrollmentOnly)

(* Where a tab with session s ends up when it wants to go to a page. *)
Guard(t, s, to) ==
    IF ~Barred(t, s, to) THEN to
    ELSE IF to = "login" THEN "home" ELSE "login"

BrowserInit ==
    /\ BoundaryInit
    /\ store = [t \in Tabs |-> None]
    /\ busy = [t \in Tabs |-> FALSE]
    /\ page = [t \in Tabs |-> "login"]
-----------------------------------------------------------------------------
(* What the user does.                                                     *)

Pending == {c \in Tabs \X Slots : fetch[c[1]][c[2]] # None}

FreeSlots(t) ==
    IF Cardinality(Pending) >= MaxPending THEN {} ELSE {n \in Slots : fetch[t][n] = None}

Call(t, request) ==
    /\ FreeSlots(t) # {}
    /\ fetch' = [fetch EXCEPT ![t][Min(FreeSlots(t))] = request]

(* The button of the form is disabled while busy. *)
Submit(t) ==
    /\ page[t] = "login"
    /\ ~busy[t]
    /\ \E op \in IF t \in WebTabs THEN {"login", "register"} ELSE {"login"} :
          Call(t, Sent(op, None, None))
    /\ busy' = [busy EXCEPT ![t] = TRUE]
    /\ UNCHANGED <<serverVars, cookie, store, page>>

Overtaken(t) ==
    [n \in Slots |->
        IF fetch[t][n] # None /\ fetch[t][n].op \in {"login", "register"}
        THEN [fetch[t][n] EXCEPT !.overtaken = TRUE] ELSE fetch[t][n]]

(* The button in the header is there while the tab is signed in, also      *)
(* while another logout is under way.                                      *)
Logout(t) ==
    /\ Authenticated(store[t])
    /\ FreeSlots(t) # {}
    /\ fetch' = [fetch EXCEPT ![t] =
          [Overtaken(t) EXCEPT ![Min(FreeSlots(t))] = Sent("logout", Bearer(t), Jar(t))]]
    /\ UNCHANGED <<serverVars, cookie, store, busy, page>>

(* revokeSession on the security page, for a session of its list. *)
RevokeSession(t) ==
    /\ page[t] = "security"
    /\ \E f \in Live : Call(t, Sent("revoke", Bearer(t), f))
    /\ UNCHANGED <<serverVars, cookie, store, busy, page>>

ConfirmTotp(t) ==
    /\ page[t] = "totp-setup"
    /\ Call(t, Sent("totp-confirm", Bearer(t), None))
    /\ UNCHANGED <<serverVars, cookie, store, busy, page>>

Navigate(t) ==
    /\ \E to \in Pages(t) : page' = [page EXCEPT ![t] = Guard(t, store[t], to)]
    /\ UNCHANGED <<serverVars, cookie, fetch, store, busy>>

(* The scripts of the tab and its requests are gone; the store is read     *)
(* back from sessionStorage (readStoredSession).                           *)
Reload(t) ==
    /\ fetch' = [fetch EXCEPT ![t] = [n \in Slots |-> None]]
    /\ busy' = [busy EXCEPT ![t] = FALSE]
    /\ page' = [page EXCEPT ![t] = Guard(t, store[t], @)]
    /\ UNCHANGED <<serverVars, cookie, store>>
-----------------------------------------------------------------------------
(* How the script goes on.                                                 *)

Back(t, n, op) == At(t, n, op, IF op \in CookieOps THEN "arrived" ELSE "answered")

Done(t, n) == fetch' = [fetch EXCEPT ![t][n] = None]

Then(t, n, request) ==
    fetch' = [fetch EXCEPT ![t][n] = [request EXCEPT !.overtaken = fetch[t][n].overtaken]]

(* Mutant of Keep: what is stored does not say what it is good for. *)
KeepNoFlag(t, s) ==
    store' = [store EXCEPT ![t] = IF s = None THEN None ELSE [family |-> s.family]]

(* persist, clear: the store and sessionStorage together. *)
Keep(t, s) == store' = [store EXCEPT ![t] = s]

Push(t, s, to) == page' = [page EXCEPT ![t] = Guard(t, s, to)]

(* persist, and router.push to where the session belongs. *)
Enter(t, family, enrollmentOnly) ==
    LET s == [family |-> family, enrollmentOnly |-> enrollmentOnly]
    IN  /\ Keep(t, s)
        /\ Push(t, s, IF enrollmentOnly THEN "totp-setup" ELSE "home")

Idle(t) == busy' = [busy EXCEPT ![t] = FALSE]

(* Mutant of FailIn: busy is reset on success only. *)
FailInStuck(t, n) == Done(t, n) /\ UNCHANGED <<store, busy, page>>

(* The catch and finally of login and register. *)
FailIn(t, n) == Done(t, n) /\ Idle(t) /\ UNCHANGED <<store, page>>

(* The user app stores the tokens; the admin app asks first what they are  *)
(* good for, and has stored nothing by then.                               *)
AfterLogin(t, n) ==
    /\ Back(t, n, "login")
    /\ LET answer == fetch[t][n]
       IN  IF answer.reply # "ok" THEN FailIn(t, n)
           ELSE IF t \in WebTabs
           THEN Done(t, n) /\ Enter(t, answer.family, FALSE) /\ Idle(t)
           ELSE /\ Then(t, n, Sent("access-check", answer.family, answer.family))
                /\ UNCHANGED <<store, busy, page>>

(* Mutant of EnrollmentOnly: whatever the check answers lets in. *)
EnrollmentOnlyNever(reply) == FALSE

EnrollmentOnly(reply) == reply = "totp_setup_required"

AfterAccessCheck(t, n) ==
    /\ Back(t, n, "access-check")
    /\ LET answer == fetch[t][n]
       IN  IF answer.reply \in {"ok", "totp_setup_required"}
           THEN Done(t, n) /\ Enter(t, answer.family, EnrollmentOnly(answer.reply)) /\ Idle(t)
           ELSE FailIn(t, n)

AfterRegister(t, n) ==
    /\ Back(t, n, "register")
    /\ IF fetch[t][n].reply = "ok"
       THEN Then(t, n, Sent("login", None, None)) /\ UNCHANGED <<store, busy, page>>
       ELSE FailIn(t, n)

(* The answer, or that there is none, makes no difference. *)
AfterLogout(t, n) ==
    /\ Back(t, n, "logout")
    /\ Done(t, n) /\ Keep(t, None) /\ Push(t, None, "login")
    /\ UNCHANGED busy

AfterRevoke(t, n) ==
    /\ Back(t, n, "revoke")
    /\ IF fetch[t][n].reply = "ok" THEN Then(t, n, Sent("list", Bearer(t), None))
       ELSE Done(t, n)
    /\ UNCHANGED <<store, busy, page>>

(* The list is refused to a session that is over, so clear() is left to a  *)
(* session that ends between the two reads of the endpoint.                *)
AfterList(t, n) ==
    /\ Back(t, n, "list")
    /\ Done(t, n)
    /\ store' = IF fetch[t][n].reply = "others_only" THEN [store EXCEPT ![t] = None] ELSE store
    /\ UNCHANGED <<busy, page>>

AfterConfirm(t, n) ==
    /\ Back(t, n, "totp-confirm")
    /\ Done(t, n)
    /\ IF fetch[t][n].reply = "ok" THEN Keep(t, None) /\ Push(t, None, "login")
       ELSE UNCHANGED <<store, page>>
    /\ UNCHANGED busy

Resume(t, n) ==
    /\ \/ AfterLogin(t, n) \/ AfterAccessCheck(t, n) \/ AfterRegister(t, n)
       \/ AfterLogout(t, n) \/ AfterRevoke(t, n) \/ AfterList(t, n) \/ AfterConfirm(t, n)
    /\ UNCHANGED <<serverVars, cookie>>

Network(t, n) ==
    (Serve(t, n) \/ Lose(t, n) \/ Arrive(t, n)) /\ UNCHANGED <<store, busy, page>>

User(t) ==
    \/ Submit(t) \/ Logout(t) \/ RevokeSession(t) \/ ConfirmTotp(t) \/ Navigate(t) \/ Reload(t)

BrowserNext ==
    \/ \E t \in Tabs : User(t) \/ \E n \in Slots : Network(t, n) \/ Resume(t, n)
    \/ EndElsewhere /\ UNCHANGED <<store, busy, page>>

BrowserSpec == BrowserInit /\ [][BrowserNext]_browserVars
-----------------------------------------------------------------------------
(* The form is locked exactly while one sign-in of the tab is under way,   *)
(* through all its requests and whichever of them fails: no tab runs two,  *)
(* and no form stays locked (busy of login and register).                  *)
BusyWhileSigningIn ==
    \A t \in Tabs :
        LET signIns == {n \in Slots :
                /\ fetch[t][n] # None
                /\ fetch[t][n].op \in {"login", "register", "access-check"}}
        IN  Cardinality(signIns) = IF busy[t] THEN 1 ELSE 0

(* The admin app opens its pages to MFA-verified sessions only, and keeps  *)
(* a session for enrolment on the enrolment page; the user app never shows *)
(* a sign-in form to a signed-in tab.  So whatever answers come late.      *)
GuardedPages ==
    /\ \A t \in AdminTabs :
          /\ page[t] = "home" => Authenticated(store[t]) /\ store[t].family \in mfa
          /\ page[t] = "totp-setup" => store[t] # None /\ store[t].enrollmentOnly
    /\ \A t \in WebTabs : page[t] = "login" => store[t] = None

(* A tab of the user app that asked for a logout is signed in again only   *)
(* by a form submitted after that.                                         *)
SignedOutStays ==
    [][\A t \in WebTabs :
          store[t] = None /\ store'[t] # None =>
              \E n \in Slots : Back(t, n, "login") /\ ~fetch[t][n].overtaken
                               /\ fetch'[t][n] = None]_browserVars

(* A logout in one app leaves the sessions of the other app alone          *)
(* (cookie_name, cookie_path).                                             *)
AppsApart ==
    [][\A t \in Tabs, n \in Slots :
          ServeLogout(t, n) =>
              \A f \in Families : phase'[f] # phase[f] => app[f] = AppOf(t)]_browserVars

(* After a logout that the API confirmed, the session that the tab was     *)
(* signed in with is over (logout of the store, web_logout).               *)
LogoutEndsCurrent ==
    \A t \in Tabs, n \in Slots :
        Back(t, n, "logout") /\ fetch[t][n].reply = "ok" => fetch[t][n].bearer \notin Live
=============================================================================
