---------------------------- MODULE BrowserSession ----------------------------
(***************************************************************************)
(* The session boundary between the API and its two browser applications   *)
(* (ADR-0007): requests on their way, the cookie jar that all tabs of a    *)
(* browser share, and what the endpoints answer.  The sessions behind the  *)
(* endpoints are those of SessionFamilies, which AuthSystem implements.    *)
(* One privileged account uses the user app, the admin app, or both.       *)
(***************************************************************************)
EXTENDS SessionFamilies, Naturals, FiniteSetsExt

CONSTANTS
    WebTabs,      \* tabs that show the user app (apps/web)
    AdminTabs,    \* tabs that show the admin app (apps/admin)
    MaxFetches,   \* requests of one tab under way at a time
    MaxPending,   \* requests of all tabs under way at a time
    None

ASSUME TabsAssumption ==
    /\ WebTabs \cap AdminTabs = {}
    /\ MaxFetches \in Nat \ {0} /\ MaxPending \in Nat \ {0}
    /\ None \notin Families

VARIABLES
    app,       \* family -> the app whose sign-in opened it, or None
    mfa,       \* families whose access token claims MFA
    enrolled,  \* the account has TOTP enabled
    cookie,    \* the jar: cookie name -> family of the refresh token, or None
    fetch      \* tab -> slot -> request under way, or None

serverVars == <<phase, app, mfa, enrolled>>

Tabs == WebTabs \cup AdminTabs

Slots == 1..MaxFetches

AppOf(t) == IF t \in WebTabs THEN "web" ELSE "admin"

(* Mutant of CookieName: both apps keep one cookie. *)
OneCookieName(client) == "refresh"

(* cookie_name with cookie_path: every app has a cookie of its own. *)
CookieName(client) == client

CookieNames == {CookieName(AppOf(t)) : t \in Tabs}

Live == {f \in Families : phase[f] = "live"}

Ops == {"login", "register", "logout", "revoke", "list", "access-check", "totp-confirm"}

CookieOps == {"login", "logout"}

Replies == {"ok", "refused", "totp_setup_required", "others_only"}

(* bearer: the family of the access token sent; family: that of the        *)
(* refresh cookie sent with a logout, the one to revoke, or the one that   *)
(* was granted; overtaken: the tab of this sign-in has asked for a logout  *)
(* since (history).                                                        *)
FetchRecord ==
    [op : Ops, stage : {"sent", "admitted", "answered", "arrived"},
     bearer : Families \cup {None}, family : Families \cup {None},
     reply : Replies \cup {None}, overtaken : BOOLEAN]

ASSUME NoRequestAssumption == None \notin FetchRecord

BoundaryTypeOK ==
    /\ FamiliesTypeOK
    /\ app \in [Families -> {"web", "admin", None}]
    /\ mfa \subseteq Families
    /\ enrolled \in BOOLEAN
    /\ cookie \in [CookieNames -> Families \cup {None}]
    /\ fetch \in [Tabs -> [Slots -> FetchRecord \cup {None}]]

BoundaryInit ==
    /\ FamiliesInit
    /\ app = [f \in Families |-> None]
    /\ mfa = {}
    /\ enrolled \in BOOLEAN
    /\ cookie = [c \in CookieNames |-> None]
    /\ fetch = [t \in Tabs |-> [n \in Slots |-> None]]
-----------------------------------------------------------------------------
Sent(op, bearer, family) ==
    [op |-> op, stage |-> "sent", bearer |-> bearer, family |-> family,
     reply |-> None, overtaken |-> FALSE]

(* apiRequest: credentials "include" adds the cookie of the app. *)
Jar(t) == cookie[CookieName(AppOf(t))]

At(t, n, op, stage) ==
    fetch[t][n] # None /\ fetch[t][n].op = op /\ fetch[t][n].stage = stage

Answer(t, n, reply) ==
    fetch' = [fetch EXCEPT ![t][n].stage = "answered", ![t][n].reply = reply]

Refuse(t, n) == Answer(t, n, "refused") /\ UNCHANGED serverVars

(* web_login, admin_login: the account has to present a TOTP code if it is *)
(* enrolled, and only then the session is MFA-verified.                    *)
ServeLogin(t, n) ==
    /\ At(t, n, "login", "sent")
    /\ \/ Refuse(t, n)
       \/ \E f \in Families :
             /\ Open(f)
             /\ app' = [app EXCEPT ![f] = AppOf(t)]
             /\ mfa' = IF enrolled THEN mfa \cup {f} ELSE mfa
             /\ fetch' = [fetch EXCEPT ![t][n] =
                   [@ EXCEPT !.stage = "answered", !.reply = "ok", !.family = f]]
             /\ UNCHANGED enrolled
    /\ UNCHANGED cookie

ServeRegister(t, n) ==
    /\ At(t, n, "register", "sent")
    /\ \E reply \in {"ok", "refused"} : Answer(t, n, reply)
    /\ UNCHANGED <<serverVars, cookie>>

(* web_logout, admin_logout go by the cookie alone. *)
Named(t, n) == fetch[t][n].family

ServeLogout(t, n) ==
    /\ At(t, n, "logout", "sent")
    /\ End(Live \cap {Named(t, n)})
    /\ Answer(t, n, "ok")
    /\ UNCHANGED <<app, mfa, enrolled, cookie>>

(* DELETE /me/security/sessions/{family_id}: any family of the account;    *)
(* one that is over already is a 404.                                      *)
ServeRevoke(t, n) ==
    /\ At(t, n, "revoke", "sent")
    /\ IF {fetch[t][n].bearer, fetch[t][n].family} \subseteq Live
       THEN /\ End({fetch[t][n].family})
            /\ Answer(t, n, "ok")
            /\ UNCHANGED <<app, mfa, enrolled>>
       ELSE Refuse(t, n)
    /\ UNCHANGED cookie

(* GET /me/security/sessions checks the caller's session first, and then   *)
(* reads the rows in a query of its own.                                   *)
AdmitList(t, n) ==
    /\ At(t, n, "list", "sent")
    /\ IF fetch[t][n].bearer \in Live
       THEN fetch' = [fetch EXCEPT ![t][n].stage = "admitted"] /\ UNCHANGED serverVars
       ELSE Refuse(t, n)
    /\ UNCHANGED cookie

ServeList(t, n) ==
    /\ At(t, n, "list", "admitted")
    /\ Answer(t, n, IF fetch[t][n].bearer \in Live THEN "ok" ELSE "others_only")
    /\ UNCHANGED <<serverVars, cookie>>

(* require_admin_mfa *)
ServeAccessCheck(t, n) ==
    /\ At(t, n, "access-check", "sent")
    /\ LET bearer == fetch[t][n].bearer
       IN  Answer(t, n, IF bearer \notin Live THEN "refused"
                        ELSE IF ~enrolled THEN "totp_setup_required"
                        ELSE IF bearer \in mfa THEN "ok" ELSE "refused")
    /\ UNCHANGED <<serverVars, cookie>>

(* The code is right and the session works, or not. *)
ServeTotpConfirm(t, n) ==
    /\ At(t, n, "totp-confirm", "sent")
    /\ \/ Refuse(t, n)
       \/ /\ fetch[t][n].bearer \in Live
          /\ enrolled' = TRUE
          /\ Answer(t, n, "ok")
          /\ UNCHANGED <<phase, app, mfa>>
    /\ UNCHANGED cookie

Serve(t, n) ==
    \/ ServeLogin(t, n) \/ ServeRegister(t, n) \/ ServeLogout(t, n) \/ ServeRevoke(t, n)
    \/ AdmitList(t, n) \/ ServeList(t, n) \/ ServeAccessCheck(t, n) \/ ServeTotpConfirm(t, n)

(* The request or its answer is lost: fetch rejects, apiRequest throws as  *)
(* it does for an answer that is an error.                                 *)
Lose(t, n) ==
    /\ fetch[t][n] # None /\ fetch[t][n].stage \in {"sent", "answered"}
    /\ fetch[t][n].reply # "refused"
    /\ fetch' = [fetch EXCEPT ![t][n] =
          [@ EXCEPT !.stage = "answered", !.reply = "refused", !.bearer = None, !.family = None]]
    /\ UNCHANGED <<serverVars, cookie>>

(* The headers of the answer reach the browser, which stores or deletes    *)
(* the cookie (set_refresh_cookie, clear_refresh_cookie); the script is    *)
(* still waiting for the body.  For the other endpoints this is no step.   *)
Arrive(t, n) ==
    /\ fetch[t][n] # None /\ fetch[t][n].stage = "answered"
    /\ fetch[t][n].op \in CookieOps
    /\ fetch' = [fetch EXCEPT ![t][n].stage = "arrived"]
    /\ cookie' = IF fetch[t][n].reply = "ok"
                 THEN [cookie EXCEPT ![CookieName(AppOf(t))] =
                          IF fetch[t][n].op = "login" THEN fetch[t][n].family ELSE None]
                 ELSE cookie
    /\ UNCHANGED serverVars

(* A session ends elsewhere: another device, a password reset, its expiry. *)
EndElsewhere ==
    /\ \E f \in Live : End({f})
    /\ UNCHANGED <<app, mfa, enrolled, cookie, fetch>>
=============================================================================
