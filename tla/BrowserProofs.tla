---------------------------- MODULE BrowserProofs ----------------------------
(***************************************************************************)
(* What TLAPS proves about the browser applications, for any number of     *)
(* tabs, of requests under way and of sessions.                            *)
(***************************************************************************)
EXTENDS BrowserStore, FiniteSetTheorems, WellFoundedInduction, TLAPS

(* A family that was opened by a sign-in of this app. *)
OpenedBy(f, client) == f \in Families /\ phase[f] # "unused" /\ app[f] = client

(* What a request under way knows. *)
RequestOK(t, r) ==
    /\ r.op \in IF t \in WebTabs THEN {"login", "register", "logout", "revoke", "list"}
                ELSE {"login", "logout", "access-check", "totp-confirm"}
    /\ r.op = "login" /\ r.stage \in {"answered", "arrived"} /\ r.reply = "ok"
          => OpenedBy(r.family, AppOf(t))
    /\ r.op = "logout" /\ r.family # None => OpenedBy(r.family, AppOf(t))
    /\ r.op = "access-check" =>
          /\ r.stage \in {"sent", "answered"}
          /\ r.stage = "sent" => r.family = r.bearer
          /\ r.stage = "answered" /\ r.reply \in {"ok", "totp_setup_required"} =>
                r.family \in Families
          /\ r.stage = "answered" /\ r.reply = "ok" => r.family \in mfa

Asked == \A t \in Tabs, n \in Slots : fetch[t][n] # None => RequestOK(t, fetch[t][n])

CookiesOwn == \A c \in CookieNames : cookie[c] # None => OpenedBy(cookie[c], c)

SignIn(t, n) ==
    fetch[t][n] # None /\ fetch[t][n].op \in {"login", "register", "access-check"}

(* A sign-in of the user app runs while the tab is signed out, and so      *)
(* nobody can ask for a logout meanwhile.                                  *)
SignInOK(t) ==
    /\ busy[t] <=> \E n \in Slots : SignIn(t, n)
    /\ \A m, n \in Slots : SignIn(t, m) /\ SignIn(t, n) => m = n
    /\ t \in WebTabs => \A n \in Slots : SignIn(t, n) =>
                           store[t] = None /\ ~fetch[t][n].overtaken

(* GuardedPages is not inductive: a tab of the admin app must not even     *)
(* remember a session that is no good for the pages it may go to next.     *)
PageOK(t) ==
    /\ page[t] \in Pages(t)
    /\ t \in WebTabs => (page[t] = "login" => store[t] = None)
    /\ t \in AdminTabs =>
          /\ page[t] = "home" => Authenticated(store[t])
          /\ page[t] = "totp-setup" => store[t] # None /\ store[t].enrollmentOnly
          /\ Authenticated(store[t]) => store[t].family \in mfa

BrowserInv ==
    /\ BrowserTypeOK
    /\ Asked
    /\ CookiesOwn
    /\ \A t \in Tabs : SignInOK(t) /\ PageOK(t)
-----------------------------------------------------------------------------
(* Lemmas about the operators of the model.                                *)

LEMMA LeastNatural ==
    ASSUME NEW S \in SUBSET Nat, S # {}
    PROVE  \E x \in S : \A y \in S : x <= y
<1>1. PICK x \in S : \A y \in S : ~(<<y, x>> \in OpToRel(<, Nat))
  BY NatLessThanWellFounded, WFMin
<1>2. ASSUME NEW y \in S PROVE x <= y
  <2>1. ~(y < x)
    BY <1>1 DEF OpToRel
  <2> QED BY <2>1
<1> QED BY <1>2

(* A request starts in a slot that was free. *)
LEMMA FreeSlot ==
    ASSUME NEW t \in Tabs, FreeSlots(t) # {}
    PROVE  Min(FreeSlots(t)) \in Slots /\ fetch[t][Min(FreeSlots(t))] = None
<1> DEFINE free == {n \in Slots : fetch[t][n] = None}
<1>1. FreeSlots(t) = free
  BY DEF FreeSlots
<1>2. free \in SUBSET Nat
  BY TabsAssumption DEF Slots
<1>3. \E x \in free : \A y \in free : x <= y
  BY <1>1, <1>2, LeastNatural
<1>4. Min(free) \in free
  <2> HIDE DEF free
  <2> QED BY <1>3 DEF Min
<1> QED BY <1>1, <1>4

LEMMA AppCookie == \A t \in Tabs : CookieName(AppOf(t)) = AppOf(t) /\ AppOf(t) \in CookieNames
  BY DEF CookieName, CookieNames

LEMMA SentTyped ==
    ASSUME NEW op \in Ops, NEW bearer \in Families \cup {None}, NEW family \in Families \cup {None}
    PROVE  Sent(op, bearer, family) \in FetchRecord
  BY DEF Sent, FetchRecord

(* One slot gets r, the others keep what they had. *)
Puts(t, n, r) ==
    /\ fetch' \in [Tabs -> [Slots -> FetchRecord \cup {None}]]
    /\ fetch'[t][n] = r
    /\ \A u \in Tabs, m \in Slots : u # t \/ m # n => fetch'[u][m] = fetch[u][m]

LEMMA SlotSet ==
    ASSUME BrowserTypeOK, NEW t \in Tabs, NEW n \in Slots, NEW r \in FetchRecord \cup {None},
           fetch' = [fetch EXCEPT ![t][n] = r]
    PROVE  Puts(t, n, r)
  BY DEF BrowserTypeOK, BoundaryTypeOK, Puts

LEMMA CallPuts ==
    ASSUME BrowserTypeOK, NEW t \in Tabs, NEW r \in FetchRecord, Call(t, r)
    PROVE  \E n \in Slots : fetch[t][n] = None /\ Puts(t, n, r)
  BY FreeSlot, SlotSet DEF Call

Answered(r, reply) == [r EXCEPT !.stage = "answered", !.reply = reply]

LEMMA AnswerPuts ==
    ASSUME BrowserTypeOK, NEW t \in Tabs, NEW n \in Slots, fetch[t][n] # None,
           NEW reply \in Replies, Answer(t, n, reply)
    PROVE  Puts(t, n, Answered(fetch[t][n], reply))
<1>1. fetch[t][n] \in FetchRecord
  BY DEF BrowserTypeOK, BoundaryTypeOK
<1>2. Answered(fetch[t][n], reply) \in FetchRecord
  BY <1>1 DEF Answered, FetchRecord
<1>3. fetch' = [fetch EXCEPT ![t][n] = Answered(fetch[t][n], reply)]
  BY DEF Answer, Answered, BrowserTypeOK, BoundaryTypeOK
<1> QED BY <1>2, <1>3, SlotSet
-----------------------------------------------------------------------------
(* What steps have in common.                                              *)

ServerTypes ==
    /\ FamiliesTypeOK
    /\ app \in [Families -> {"web", "admin", None}]
    /\ mfa \subseteq Families
    /\ enrolled \in BOOLEAN

(* The server forgets nothing of a session that was opened. *)
Grows ==
    /\ \A f \in Families : phase[f] # "unused" => phase'[f] # "unused" /\ app'[f] = app[f]
    /\ mfa \subseteq mfa'

LEMMA StillOpened ==
    ASSUME Grows, NEW f, NEW client, OpenedBy(f, client)
    PROVE  f \in Families /\ phase'[f] # "unused" /\ app'[f] = client
  BY DEF Grows, OpenedBy

LEMMA RequestKept ==
    ASSUME Grows, NEW t, NEW n, RequestOK(t, fetch[t][n]), fetch'[t][n] = fetch[t][n]
    PROVE  RequestOK(t, fetch[t][n])'
  BY StillOpened DEF Grows, RequestOK, OpenedBy, AppOf

LEMMA AskedStep ==
    ASSUME Asked, Grows,
           \A t \in Tabs, n \in Slots : fetch'[t][n] # None =>
              \/ fetch[t][n] # None /\ fetch'[t][n] = fetch[t][n]
              \/ RequestOK(t, fetch[t][n])'
    PROVE  Asked'
  BY RequestKept DEF Asked

LEMMA CookiesKept ==
    ASSUME CookiesOwn, Grows, cookie' = cookie
    PROVE  CookiesOwn'
<1> SUFFICES ASSUME NEW c \in CookieNames, cookie[c] # None PROVE OpenedBy(cookie[c], c)'
  BY DEF CookiesOwn, CookieNames, CookieName, AppOf
<1>1. OpenedBy(cookie[c], c)
  BY DEF CookiesOwn
<1> QED BY <1>1, StillOpened DEF OpenedBy

(* What a tab does not see of a step. *)
LEMMA OtherTab ==
    ASSUME NEW t \in Tabs, SignInOK(t), PageOK(t), mfa \subseteq mfa',
           \A n \in Slots : fetch'[t][n] = fetch[t][n],
           store'[t] = store[t], busy'[t] = busy[t], page'[t] = page[t]
    PROVE  SignInOK(t)' /\ PageOK(t)'
<1>1. SignInOK(t)'
  BY DEF SignInOK, SignIn
<1>2. PageOK(t)'
  BY DEF PageOK, Authenticated, Pages
<1> QED BY <1>1, <1>2

LEMMA SameSignIn ==
    ASSUME NEW t \in Tabs, SignInOK(t), busy'[t] = busy[t],
           \A n \in Slots : SignIn(t, n)' <=> SignIn(t, n),
           t \in WebTabs => \A n \in Slots : SignIn(t, n) =>
               fetch'[t][n].overtaken = fetch[t][n].overtaken /\ store'[t] = store[t]
    PROVE  SignInOK(t)'
  BY DEF SignInOK

(* The only sign-in is over. *)
LEMMA SignInOver ==
    ASSUME NEW t \in Tabs, SignInOK(t), ~busy'[t],
           NEW n \in Slots, SignIn(t, n), ~SignIn(t, n)',
           \A m \in Slots : m # n => fetch'[t][m] = fetch[t][m]
    PROVE  SignInOK(t)'
  BY DEF SignInOK, SignIn

LEMMA NoSignIn ==
    ASSUME NEW t \in Tabs, SignInOK(t)
    PROVE  ~busy[t] => \A n \in Slots : ~SignIn(t, n)
  BY DEF SignInOK

LEMMA InvTabs ==
    ASSUME BrowserInv, NEW t \in Tabs
    PROVE  SignInOK(t) /\ PageOK(t)
  BY DEF BrowserInv

(* A step of the network for one request. *)
LEMMA NetworkKeeps ==
    ASSUME BrowserInv, NEW t \in Tabs, NEW n \in Slots, NEW r \in FetchRecord,
           fetch[t][n] # None, Puts(t, n, r),
           r.op = fetch[t][n].op, r.overtaken = fetch[t][n].overtaken,
           RequestOK(t, fetch[t][n])',
           ServerTypes', Grows, CookiesOwn',
           cookie' \in [CookieNames -> Families \cup {None}],
           UNCHANGED <<store, busy, page>>
    PROVE  BrowserInv'
<1>1. BrowserTypeOK'
  BY DEF BrowserInv, BrowserTypeOK, BoundaryTypeOK, ServerTypes, Puts, Pages, CookieNames,
         CookieName, AppOf, FetchRecord
<1>2. Asked'
  <2>1. \A u \in Tabs, m \in Slots : fetch'[u][m] # None =>
            \/ fetch[u][m] # None /\ fetch'[u][m] = fetch[u][m]
            \/ RequestOK(u, fetch[u][m])'
    BY DEF Puts
  <2> QED BY <2>1, AskedStep DEF BrowserInv
<1>3. ASSUME NEW u \in Tabs PROVE SignInOK(u)' /\ PageOK(u)'
  <2>1. SignInOK(u) /\ PageOK(u)
    BY InvTabs
  <2>2. CASE u # t
    BY <2>1, <2>2, OtherTab DEF Puts, Grows
  <2>3. CASE u = t
    <3>1. \A m \in Slots : SignIn(t, m)' <=> SignIn(t, m)
      BY NoRequestAssumption DEF SignIn, Puts
    <3>2. \A m \in Slots : SignIn(t, m) => fetch'[t][m].overtaken = fetch[t][m].overtaken
      BY DEF Puts
    <3>3. SignInOK(t)'
      BY <2>1, <2>3, <3>1, <3>2, SameSignIn
    <3>4. PageOK(t)'
      BY <2>1, <2>3 DEF PageOK, Authenticated, Pages, Grows
    <3> QED BY <2>3, <3>3, <3>4
  <2> QED BY <2>2, <2>3
<1> QED BY <1>1, <1>2, <1>3 DEF BrowserInv
-----------------------------------------------------------------------------
(* The network.                                                            *)

LEMMA RequestTyped ==
    ASSUME BrowserInv, NEW t \in Tabs, NEW n \in Slots, fetch[t][n] # None
    PROVE  fetch[t][n] \in FetchRecord /\ RequestOK(t, fetch[t][n])
  BY DEF BrowserInv, BrowserTypeOK, BoundaryTypeOK, Asked

LEMMA ServerTyped == BrowserInv => ServerTypes
  BY DEF BrowserInv, BrowserTypeOK, BoundaryTypeOK, ServerTypes

LEMMA ServerSame ==
    ASSUME BrowserInv, UNCHANGED serverVars
    PROVE  ServerTypes' /\ Grows
  BY ServerTyped DEF serverVars, ServerTypes, Grows, FamiliesTypeOK

LEMMA ServerEnds ==
    ASSUME BrowserInv, NEW S, End(S), UNCHANGED <<app, mfa, enrolled>>
    PROVE  ServerTypes' /\ Grows
  BY ServerTyped DEF ServerTypes, Grows, FamiliesTypeOK, End

(* An answer that promises nothing. *)
LEMMA PlainAnswer ==
    ASSUME BrowserInv, NEW t \in Tabs, NEW n \in Slots, fetch[t][n] # None,
           NEW reply \in Replies, Answer(t, n, reply),
           \/ reply = "refused"
           \/ fetch[t][n].op \notin {"login", "access-check"},
           ServerTypes', Grows, UNCHANGED <<cookie, store, busy, page>>
    PROVE  BrowserInv'
<1>1. fetch[t][n] \in FetchRecord /\ RequestOK(t, fetch[t][n])
  BY RequestTyped
<1> DEFINE r == Answered(fetch[t][n], reply)
<1>2. /\ r \in FetchRecord
      /\ r.op = fetch[t][n].op /\ r.overtaken = fetch[t][n].overtaken
      /\ r.stage = "answered" /\ r.reply = reply /\ r.family = fetch[t][n].family
  BY <1>1 DEF Answered, FetchRecord
<1>3. Puts(t, n, r)
  BY AnswerPuts DEF BrowserInv
<1> HIDE DEF r
<1>4. RequestOK(t, fetch[t][n])'
  <2>1. fetch'[t][n] = r
    BY <1>3 DEF Puts
  <2> QED BY <1>1, <1>2, <2>1, StillOpened DEF RequestOK, OpenedBy, AppOf
<1>5. CookiesOwn' /\ cookie' \in [CookieNames -> Families \cup {None}]
  BY CookiesKept DEF BrowserInv, BrowserTypeOK, BoundaryTypeOK
<1> QED BY <1>2, <1>3, <1>4, <1>5, NetworkKeeps

LEMMA ServeLoginStep ==
    ASSUME BrowserInv, NEW t \in Tabs, NEW n \in Slots, ServeLogin(t, n),
           UNCHANGED <<store, busy, page>>
    PROVE  BrowserInv'
<1>1. fetch[t][n] # None /\ fetch[t][n].op = "login" /\ cookie' = cookie
  BY DEF ServeLogin, At
<1>2. fetch[t][n] \in FetchRecord /\ RequestOK(t, fetch[t][n])
  BY <1>1, RequestTyped
<1>3. CASE Refuse(t, n)
  <2>1. Answer(t, n, "refused") /\ UNCHANGED serverVars
    BY <1>3 DEF Refuse
  <2>2. "refused" \in Replies
    BY DEF Replies
  <2> QED BY <1>1, <2>1, <2>2, ServerSame, PlainAnswer
<1>4. CASE ~Refuse(t, n)
  <2>1. PICK f \in Families :
           /\ Open(f)
           /\ app' = [app EXCEPT ![f] = AppOf(t)]
           /\ mfa' = IF enrolled THEN mfa \cup {f} ELSE mfa
           /\ fetch' = [fetch EXCEPT ![t][n] =
                 [@ EXCEPT !.stage = "answered", !.reply = "ok", !.family = f]]
           /\ UNCHANGED enrolled
    BY <1>4 DEF ServeLogin
  <2>2. ServerTypes' /\ Grows /\ OpenedBy(f, AppOf(t))'
    <3>1. ServerTypes
      BY ServerTyped
    <3>2. AppOf(t) \in {"web", "admin", None}
      BY DEF AppOf
    <3> QED BY <2>1, <3>1, <3>2 DEF ServerTypes, FamiliesTypeOK, Open, Grows, OpenedBy, AppOf
  <2> DEFINE r == [fetch[t][n] EXCEPT !.stage = "answered", !.reply = "ok", !.family = f]
  <2>3. /\ r \in FetchRecord
        /\ r.op = "login" /\ r.overtaken = fetch[t][n].overtaken
        /\ r.stage = "answered" /\ r.reply = "ok" /\ r.family = f
    BY <1>1, <1>2 DEF FetchRecord, Replies
  <2>4. fetch' = [fetch EXCEPT ![t][n] = r]
    BY <2>1 DEF BrowserInv, BrowserTypeOK, BoundaryTypeOK
  <2> HIDE DEF r
  <2>5. Puts(t, n, r)
    BY <2>3, <2>4, SlotSet DEF BrowserInv
  <2>6. RequestOK(t, fetch[t][n])'
    <3>1. fetch'[t][n] = r
      BY <2>5 DEF Puts
    <3> QED BY <1>1, <1>2, <2>2, <2>3, <3>1 DEF RequestOK, OpenedBy, AppOf
  <2>7. CookiesOwn' /\ cookie' \in [CookieNames -> Families \cup {None}]
    BY <1>1, <2>2, CookiesKept DEF BrowserInv, BrowserTypeOK, BoundaryTypeOK
  <2> QED BY <1>1, <2>2, <2>3, <2>5, <2>6, <2>7, NetworkKeeps
<1> QED BY <1>3, <1>4

LEMMA ServePlainStep ==
    ASSUME BrowserInv, NEW t \in Tabs, NEW n \in Slots,
           \/ ServeRegister(t, n) \/ ServeLogout(t, n) \/ ServeRevoke(t, n)
           \/ ServeList(t, n) \/ ServeTotpConfirm(t, n),
           UNCHANGED <<store, busy, page>>
    PROVE  BrowserInv'
<1>1. {"ok", "refused", "others_only"} \subseteq Replies
  BY DEF Replies
<1>2. CASE ServeRegister(t, n)
  <2>1. PICK reply \in {"ok", "refused"} : Answer(t, n, reply)
    BY <1>2 DEF ServeRegister
  <2>2. /\ fetch[t][n] # None /\ fetch[t][n].op = "register"
        /\ UNCHANGED <<serverVars, cookie>>
    BY <1>2 DEF ServeRegister, At
  <2> QED BY <1>1, <2>1, <2>2, ServerSame, PlainAnswer
<1>3. CASE ServeLogout(t, n)
  <2>1. /\ fetch[t][n] # None /\ fetch[t][n].op = "logout" /\ Answer(t, n, "ok")
        /\ End(Live \cap {Named(t, n)}) /\ UNCHANGED <<app, mfa, enrolled, cookie>>
    BY <1>3 DEF ServeLogout, At
  <2>2. ServerTypes' /\ Grows
    BY <2>1, ServerEnds
  <2> QED BY <1>1, <2>1, <2>2, PlainAnswer
<1>4. CASE ServeRevoke(t, n)
  <2>1. fetch[t][n] # None /\ fetch[t][n].op = "revoke" /\ cookie' = cookie
    BY <1>4 DEF ServeRevoke, At
  <2>2. CASE {fetch[t][n].bearer, fetch[t][n].family} \subseteq Live
    <3>1. /\ End({fetch[t][n].family}) /\ Answer(t, n, "ok")
          /\ UNCHANGED <<app, mfa, enrolled>>
      BY <1>4, <2>2 DEF ServeRevoke
    <3>2. ServerTypes' /\ Grows
      BY <3>1, ServerEnds
    <3> QED BY <1>1, <2>1, <3>1, <3>2, PlainAnswer
  <2>3. CASE ~({fetch[t][n].bearer, fetch[t][n].family} \subseteq Live)
    BY <1>1, <1>4, <2>1, <2>3, ServerSame, PlainAnswer DEF ServeRevoke, Refuse
  <2> QED BY <2>2, <2>3
<1>5. CASE ServeList(t, n)
  <2>1. PICK reply \in {"ok", "others_only"} : Answer(t, n, reply)
    BY <1>5 DEF ServeList
  <2>2. /\ fetch[t][n] # None /\ fetch[t][n].op = "list"
        /\ UNCHANGED <<serverVars, cookie>>
    BY <1>5 DEF ServeList, At
  <2> QED BY <1>1, <2>1, <2>2, ServerSame, PlainAnswer
<1>6. CASE ServeTotpConfirm(t, n)
  <2>1. fetch[t][n] # None /\ fetch[t][n].op = "totp-confirm" /\ cookie' = cookie
    BY <1>6 DEF ServeTotpConfirm, At
  <2>2. CASE Refuse(t, n)
    BY <1>1, <2>1, <2>2, ServerSame, PlainAnswer DEF Refuse
  <2>3. CASE ~Refuse(t, n)
    <3>1. enrolled' = TRUE /\ Answer(t, n, "ok") /\ UNCHANGED <<phase, app, mfa>>
      BY <1>6, <2>3 DEF ServeTotpConfirm
    <3>2. ServerTypes' /\ Grows
      BY <3>1, ServerTyped DEF ServerTypes, FamiliesTypeOK, Grows
    <3> QED BY <1>1, <2>1, <3>1, <3>2, PlainAnswer
  <2> QED BY <2>2, <2>3
<1> QED BY <1>2, <1>3, <1>4, <1>5, <1>6

(* The request goes on as r, and neither the server nor the jar changes. *)
LEMMA GoesOn ==
    ASSUME BrowserInv, NEW t \in Tabs, NEW n \in Slots, NEW r \in FetchRecord,
           fetch[t][n] # None, Puts(t, n, r),
           r.op = fetch[t][n].op, r.overtaken = fetch[t][n].overtaken,
           RequestOK(t, fetch[t][n])',
           UNCHANGED <<serverVars, cookie, store, busy, page>>
    PROVE  BrowserInv'
<1>1. ServerTypes' /\ Grows
  BY ServerSame
<1>2. CookiesOwn' /\ cookie' \in [CookieNames -> Families \cup {None}]
  BY <1>1, CookiesKept DEF BrowserInv, BrowserTypeOK, BoundaryTypeOK
<1> QED BY <1>1, <1>2, NetworkKeeps

LEMMA AdmitListStep ==
    ASSUME BrowserInv, NEW t \in Tabs, NEW n \in Slots, AdmitList(t, n),
           UNCHANGED <<store, busy, page>>
    PROVE  BrowserInv'
<1>1. /\ fetch[t][n] # None /\ fetch[t][n].op = "list" /\ cookie' = cookie
      /\ UNCHANGED serverVars
  BY DEF AdmitList, At, Refuse
<1>2. fetch[t][n] \in FetchRecord /\ RequestOK(t, fetch[t][n])
  BY <1>1, RequestTyped
<1>3. CASE fetch[t][n].bearer \in Live
  <2> DEFINE r == [fetch[t][n] EXCEPT !.stage = "admitted"]
  <2>1. r \in FetchRecord /\ r.op = "list" /\ r.overtaken = fetch[t][n].overtaken
    BY <1>1, <1>2 DEF FetchRecord
  <2>2. fetch' = [fetch EXCEPT ![t][n] = r]
    BY <1>3 DEF AdmitList
  <2> HIDE DEF r
  <2>3. Puts(t, n, r)
    BY <2>1, <2>2, SlotSet DEF BrowserInv
  <2>4. RequestOK(t, fetch[t][n])'
    <3>1. fetch'[t][n] = r
      BY <2>3 DEF Puts
    <3> QED BY <1>1, <1>2, <2>1, <3>1 DEF RequestOK
  <2> QED BY <1>1, <2>1, <2>3, <2>4, GoesOn
<1>4. CASE fetch[t][n].bearer \notin Live
  <2>1. Answer(t, n, "refused") /\ "refused" \in Replies
    BY <1>4 DEF AdmitList, Refuse, Replies
  <2> QED BY <1>1, <2>1, ServerSame, PlainAnswer
<1> QED BY <1>3, <1>4

LEMMA ServeAccessCheckStep ==
    ASSUME BrowserInv, NEW t \in Tabs, NEW n \in Slots, ServeAccessCheck(t, n),
           UNCHANGED <<store, busy, page>>
    PROVE  BrowserInv'
<1>1. /\ fetch[t][n] # None /\ fetch[t][n].op = "access-check" /\ fetch[t][n].stage = "sent"
      /\ UNCHANGED <<serverVars, cookie>>
  BY DEF ServeAccessCheck, At
<1>2. fetch[t][n] \in FetchRecord /\ RequestOK(t, fetch[t][n])
  BY <1>1, RequestTyped
<1>3. PICK reply \in {"ok", "refused", "totp_setup_required"} :
         /\ Answer(t, n, reply)
         /\ reply # "refused" => fetch[t][n].bearer \in Live
         /\ reply = "ok" => fetch[t][n].bearer \in mfa
  <2> DEFINE reply == IF fetch[t][n].bearer \notin Live THEN "refused"
                      ELSE IF ~enrolled THEN "totp_setup_required"
                      ELSE IF fetch[t][n].bearer \in mfa THEN "ok" ELSE "refused"
  <2>1. Answer(t, n, reply)
    BY DEF ServeAccessCheck
  <2>2. /\ reply \in {"ok", "refused", "totp_setup_required"}
        /\ reply # "refused" => fetch[t][n].bearer \in Live
        /\ reply = "ok" => fetch[t][n].bearer \in mfa
    OBVIOUS
  <2> HIDE DEF reply
  <2> QED BY <2>1, <2>2
<1> DEFINE r == Answered(fetch[t][n], reply)
<1>4. /\ r \in FetchRecord
      /\ r.op = "access-check" /\ r.overtaken = fetch[t][n].overtaken
      /\ r.stage = "answered" /\ r.reply = reply /\ r.family = fetch[t][n].family
  BY <1>1, <1>2, <1>3 DEF Answered, FetchRecord, Replies
<1>5. Puts(t, n, r)
  BY <1>1, <1>3, AnswerPuts DEF BrowserInv, Replies
<1> HIDE DEF r
<1>6. RequestOK(t, fetch[t][n])'
  <2>1. fetch'[t][n] = r /\ mfa' = mfa
    BY <1>1, <1>5 DEF Puts, serverVars
  <2>2. fetch[t][n].family = fetch[t][n].bearer
    BY <1>1, <1>2 DEF RequestOK
  <2>3. Live \subseteq Families
    BY DEF Live
  <2> QED BY <1>1, <1>2, <1>3, <1>4, <2>1, <2>2, <2>3 DEF RequestOK
<1> QED BY <1>1, <1>4, <1>5, <1>6, GoesOn

LEMMA LoseStep ==
    ASSUME BrowserInv, NEW t \in Tabs, NEW n \in Slots, Lose(t, n),
           UNCHANGED <<store, busy, page>>
    PROVE  BrowserInv'
<1>1. fetch[t][n] # None /\ UNCHANGED <<serverVars, cookie>>
  BY DEF Lose
<1>2. fetch[t][n] \in FetchRecord /\ RequestOK(t, fetch[t][n])
  BY <1>1, RequestTyped
<1> DEFINE r == [fetch[t][n] EXCEPT !.stage = "answered", !.reply = "refused",
                                    !.bearer = None, !.family = None]
<1>3. /\ r \in FetchRecord
      /\ r.op = fetch[t][n].op /\ r.overtaken = fetch[t][n].overtaken
      /\ r.stage = "answered" /\ r.reply = "refused" /\ r.family = None
  BY <1>2 DEF FetchRecord, Replies
<1>4. fetch' = [fetch EXCEPT ![t][n] = r]
  BY DEF Lose
<1> HIDE DEF r
<1>5. Puts(t, n, r)
  BY <1>3, <1>4, SlotSet DEF BrowserInv
<1>6. RequestOK(t, fetch[t][n])'
  <2>1. fetch'[t][n] = r
    BY <1>5 DEF Puts
  <2> QED BY <1>2, <1>3, <2>1 DEF RequestOK
<1> QED BY <1>1, <1>3, <1>5, <1>6, GoesOn

LEMMA ArriveStep ==
    ASSUME BrowserInv, NEW t \in Tabs, NEW n \in Slots, Arrive(t, n),
           UNCHANGED <<store, busy, page>>
    PROVE  BrowserInv'
<1>1. /\ fetch[t][n] # None /\ fetch[t][n].op \in {"login", "logout"}
      /\ fetch[t][n].stage = "answered"
      /\ UNCHANGED serverVars
  BY DEF Arrive, CookieOps
<1>2. fetch[t][n] \in FetchRecord /\ RequestOK(t, fetch[t][n])
  BY <1>1, RequestTyped
<1> DEFINE r == [fetch[t][n] EXCEPT !.stage = "arrived"]
<1>3. /\ r \in FetchRecord
      /\ r.op = fetch[t][n].op /\ r.overtaken = fetch[t][n].overtaken
      /\ r.stage = "arrived" /\ r.reply = fetch[t][n].reply /\ r.family = fetch[t][n].family
  BY <1>2 DEF FetchRecord
<1>4. fetch' = [fetch EXCEPT ![t][n] = r]
  BY DEF Arrive
<1> HIDE DEF r
<1>5. Puts(t, n, r)
  BY <1>3, <1>4, SlotSet DEF BrowserInv
<1>6. ServerTypes' /\ Grows
  BY <1>1, ServerSame
<1>7. RequestOK(t, fetch[t][n])'
  <2>1. fetch'[t][n] = r
    BY <1>5 DEF Puts
  <2> QED BY <1>1, <1>2, <1>3, <1>6, <2>1, StillOpened DEF RequestOK, OpenedBy, AppOf
<1>8. CookiesOwn' /\ cookie' \in [CookieNames -> Families \cup {None}]
  <2>1. cookie \in [CookieNames -> Families \cup {None}] /\ CookiesOwn
    BY DEF BrowserInv, BrowserTypeOK, BoundaryTypeOK
  <2>2. CASE fetch[t][n].reply = "ok"
    <3>1. PICK g : /\ cookie' = [cookie EXCEPT ![AppOf(t)] = g]
                   /\ g # None => OpenedBy(g, AppOf(t))
      <4>1. cookie' = [cookie EXCEPT ![AppOf(t)] =
                          IF fetch[t][n].op = "login" THEN fetch[t][n].family ELSE None]
        BY <2>2, AppCookie DEF Arrive
      <4>2. fetch[t][n].op = "login" => OpenedBy(fetch[t][n].family, AppOf(t))
        BY <1>1, <1>2, <2>2 DEF RequestOK
      <4> QED BY <4>1, <4>2
    <3>2. g \in Families \cup {None}
      BY <3>1 DEF OpenedBy
    <3>3. cookie' \in [CookieNames -> Families \cup {None}]
      BY <2>1, <3>1, <3>2
    <3>4. ASSUME NEW c \in CookieNames, cookie'[c] # None PROVE OpenedBy(cookie[c], c)'
      <4>1. CASE c = AppOf(t)
        <5>1. cookie'[c] = g /\ OpenedBy(g, c)
          BY <2>1, <3>1, <3>4, <4>1
        <5> QED BY <1>6, <5>1, StillOpened DEF OpenedBy
      <4>2. CASE c # AppOf(t)
        <5>1. cookie'[c] = cookie[c] /\ OpenedBy(cookie[c], c)
          BY <2>1, <3>1, <3>4, <4>2 DEF CookiesOwn
        <5> QED BY <1>6, <5>1, StillOpened DEF OpenedBy
      <4> QED BY <4>1, <4>2
    <3>5. CookiesOwn'
      BY <3>4 DEF CookiesOwn, CookieNames, CookieName, AppOf
    <3> QED BY <3>3, <3>5
  <2>3. CASE fetch[t][n].reply # "ok"
    <3>1. cookie' = cookie
      BY <2>3 DEF Arrive
    <3> QED BY <1>6, <2>1, <3>1, CookiesKept
  <2> QED BY <2>2, <2>3
<1> QED BY <1>1, <1>3, <1>5, <1>6, <1>7, <1>8, NetworkKeeps

LEMMA NetworkStep ==
    ASSUME BrowserInv, NEW t \in Tabs, NEW n \in Slots, Network(t, n)
    PROVE  BrowserInv'
  BY ServeLoginStep, ServePlainStep, AdmitListStep, ServeAccessCheckStep, LoseStep, ArriveStep
     DEF Network, Serve
-----------------------------------------------------------------------------
(* A tab.                                                                  *)

Sessions == [family : Families, enrollmentOnly : BOOLEAN]

(* Only the store, the form and the page of t change. *)
Alone(t) ==
    /\ store' \in [Tabs -> Sessions \cup {None}]
    /\ busy' \in [Tabs -> BOOLEAN]
    /\ page' \in [Tabs -> UNION {Pages(u) : u \in Tabs}]
    /\ \A u \in Tabs : u # t => store'[u] = store[u] /\ busy'[u] = busy[u] /\ page'[u] = page[u]

LEMMA TabTyped ==
    BrowserInv => /\ store \in [Tabs -> Sessions \cup {None}]
                  /\ busy \in [Tabs -> BOOLEAN]
                  /\ page \in [Tabs -> UNION {Pages(u) : u \in Tabs}]
                  /\ fetch \in [Tabs -> [Slots -> FetchRecord \cup {None}]]
  BY DEF BrowserInv, BrowserTypeOK, BoundaryTypeOK, Sessions

LEMMA AloneSame ==
    ASSUME BrowserInv, NEW t \in Tabs, UNCHANGED <<store, busy, page>>
    PROVE  Alone(t)
  BY TabTyped DEF Alone, Pages

LEMMA AloneIdle ==
    ASSUME BrowserInv, NEW t \in Tabs, NEW b \in BOOLEAN, busy' = [busy EXCEPT ![t] = b],
           UNCHANGED <<store, page>>
    PROVE  Alone(t) /\ busy'[t] = b
  BY TabTyped DEF Alone, Pages

LEMMA AloneKeep ==
    ASSUME BrowserInv, NEW t \in Tabs, NEW s \in Sessions \cup {None}, Keep(t, s),
           NEW to \in Pages(t), page' = [page EXCEPT ![t] = to],
           NEW b \in BOOLEAN, busy' = [busy EXCEPT ![t] = b]
    PROVE  Alone(t) /\ store'[t] = s /\ page'[t] = to /\ busy'[t] = b
<1>1. to \in UNION {Pages(u) : u \in Tabs}
  OBVIOUS
<1>2. (UNION {Pages(u) : u \in Tabs})' = UNION {Pages(u) : u \in Tabs}
  BY DEF Pages
<1> QED BY <1>1, <1>2, TabTyped DEF Alone, Keep

LEMMA TabStep ==
    ASSUME BrowserInv, NEW t \in Tabs, Alone(t), UNCHANGED <<serverVars, cookie>>,
           fetch' \in [Tabs -> [Slots -> FetchRecord \cup {None}]],
           \A u \in Tabs : u # t => fetch'[u] = fetch[u],
           \A n \in Slots : fetch'[t][n] # None =>
              \/ fetch[t][n] # None /\ fetch'[t][n] = fetch[t][n]
              \/ RequestOK(t, fetch[t][n])',
           SignInOK(t)', PageOK(t)'
    PROVE  BrowserInv'
<1>1. ServerTypes' /\ Grows
  BY ServerSame
<1>2. cookie' \in [CookieNames -> Families \cup {None}] /\ CookiesOwn'
  BY <1>1, CookiesKept DEF BrowserInv, BrowserTypeOK, BoundaryTypeOK
<1>3. BrowserTypeOK'
  BY <1>1, <1>2 DEF BrowserTypeOK, BoundaryTypeOK, ServerTypes, Alone, Sessions, Pages,
                    FetchRecord, CookieNames, CookieName, AppOf
<1>4. Asked'
  <2>1. \A u \in Tabs, n \in Slots : fetch'[u][n] # None =>
            \/ fetch[u][n] # None /\ fetch'[u][n] = fetch[u][n]
            \/ RequestOK(u, fetch[u][n])'
    OBVIOUS
  <2> QED BY <1>1, <2>1, AskedStep DEF BrowserInv
<1>5. ASSUME NEW u \in Tabs, u # t PROVE SignInOK(u)' /\ PageOK(u)'
  BY <1>1, <1>5, InvTabs, OtherTab DEF Alone, Grows
<1> QED BY <1>2, <1>3, <1>4, <1>5 DEF BrowserInv

(* The same, when one request of the tab goes, comes or goes on.           *)
LEMMA PutsStep ==
    ASSUME BrowserInv, NEW t \in Tabs, NEW n \in Slots, NEW r, Puts(t, n, r),
           Alone(t), UNCHANGED <<serverVars, cookie>>,
           fetch'[t][n] # None => RequestOK(t, fetch[t][n])',
           SignInOK(t)', PageOK(t)'
    PROVE  BrowserInv'
<1>1. /\ fetch' \in [Tabs -> [Slots -> FetchRecord \cup {None}]]
      /\ \A u \in Tabs : u # t => fetch'[u] = fetch[u]
  BY TabTyped DEF Puts
<1>2. \A m \in Slots : fetch'[t][m] # None =>
          \/ fetch[t][m] # None /\ fetch'[t][m] = fetch[t][m]
          \/ RequestOK(t, fetch[t][m])'
  BY DEF Puts
<1> QED BY <1>1, <1>2, TabStep

(* A tab that ends up where it may be with its session. *)
LEMMA GuardOK ==
    ASSUME NEW t \in Tabs, NEW to \in Pages(t), NEW s
    PROVE  LET at == Guard(t, s, to) IN
           /\ at \in Pages(t)
           /\ t \in WebTabs => (at = "login" => s = None)
           /\ t \in AdminTabs => /\ at = "home" => Authenticated(s)
                                 /\ at = "totp-setup" => s # None /\ s.enrollmentOnly
<1>1. t \in WebTabs <=> t \notin AdminTabs
  BY TabsAssumption DEF Tabs
<1>2. CASE t \in WebTabs
  BY <1>1, <1>2 DEF Guard, Barred, Pages
<1>3. CASE t \in AdminTabs
  BY <1>1, <1>3 DEF Guard, Barred, Pages, Authenticated
<1> QED BY <1>1, <1>2, <1>3

LEMMA PageKept ==
    ASSUME NEW t \in Tabs, PageOK(t), UNCHANGED <<serverVars, store, page>>
    PROVE  PageOK(t)'
  BY DEF PageOK, serverVars, Authenticated, Pages

LEMMA PageGuarded ==
    ASSUME NEW t \in Tabs, NEW to \in Pages(t), page'[t] = Guard(t, store'[t], to),
           t \in AdminTabs => (Authenticated(store'[t]) => store'[t].family \in mfa'),
           UNCHANGED serverVars
    PROVE  PageOK(t)'
<1>1. PICK s : s = store'[t]
  OBVIOUS
<1>2. PICK at : at = Guard(t, s, to)
  OBVIOUS
<1>3. page'[t] = at
  BY <1>1, <1>2
<1>4. /\ at \in Pages(t)
      /\ t \in WebTabs => (at = "login" => s = None)
      /\ t \in AdminTabs => /\ at = "home" => Authenticated(s)
                            /\ at = "totp-setup" => s # None /\ s.enrollmentOnly
  BY <1>2, GuardOK
<1> QED BY <1>1, <1>3, <1>4 DEF PageOK, Authenticated, Pages
-----------------------------------------------------------------------------
(* What the user does.                                                     *)

LEMMA SubmitStep == ASSUME BrowserInv, NEW t \in Tabs, Submit(t) PROVE BrowserInv'
<1>1. SignInOK(t) /\ PageOK(t)
  BY InvTabs
<1>2. PICK op \in IF t \in WebTabs THEN {"login", "register"} ELSE {"login"} :
         Call(t, Sent(op, None, None))
  BY DEF Submit
<1>3. PICK r : r = Sent(op, None, None)
  OBVIOUS
<1>4. r \in FetchRecord
  BY <1>2, <1>3, SentTyped DEF Ops
<1>5. PICK n \in Slots : fetch[t][n] = None /\ Puts(t, n, r)
  BY <1>2, <1>3, <1>4, CallPuts DEF BrowserInv
<1>6. page[t] = "login" /\ ~busy[t] /\ UNCHANGED <<serverVars, cookie, store, page>>
  BY DEF Submit
<1>7. Alone(t) /\ busy'[t] = TRUE
  BY AloneIdle DEF Submit
<1>8. fetch'[t][n] = r /\ r.op = op /\ r.stage = "sent" /\ r.overtaken = FALSE
  BY <1>3, <1>5 DEF Puts, Sent
<1>9. RequestOK(t, fetch[t][n])'
  BY <1>2, <1>8 DEF RequestOK
<1>10. SignInOK(t)'
  <2>1. \A m \in Slots : ~SignIn(t, m)
    BY <1>1, <1>6, NoSignIn
  <2>2. SignIn(t, n)'
    BY <1>2, <1>4, <1>8, NoRequestAssumption DEF SignIn
  <2>3. \A m \in Slots : SignIn(t, m)' => m = n
    BY <1>5, <2>1 DEF SignIn, Puts
  <2>4. t \in WebTabs => store'[t] = None
    BY <1>1, <1>6 DEF PageOK
  <2> QED BY <1>7, <1>8, <2>2, <2>3, <2>4 DEF SignInOK
<1>11. PageOK(t)'
  BY <1>1, <1>6, PageKept
<1> QED BY <1>5, <1>6, <1>7, <1>9, <1>10, <1>11, PutsStep

(* Any other request. *)
LEMMA CallStep ==
    ASSUME BrowserInv, NEW t \in Tabs, NEW r \in FetchRecord, Call(t, r),
           r.op \notin {"login", "register", "access-check"},
           \A n \in Slots : fetch'[t][n] = r => RequestOK(t, fetch[t][n])',
           UNCHANGED <<serverVars, cookie, store, busy, page>>
    PROVE  BrowserInv'
<1>1. SignInOK(t) /\ PageOK(t)
  BY InvTabs
<1>2. PICK n \in Slots : fetch[t][n] = None /\ Puts(t, n, r)
  BY CallPuts DEF BrowserInv
<1>3. SignInOK(t)'
  <2>1. \A m \in Slots : SignIn(t, m)' <=> SignIn(t, m)
    BY <1>2 DEF SignIn, Puts
  <2>2. \A m \in Slots : SignIn(t, m) => fetch'[t][m].overtaken = fetch[t][m].overtaken
    BY <1>2 DEF SignIn, Puts
  <2> QED BY <1>1, <2>1, <2>2, SameSignIn
<1>4. PageOK(t)'
  BY <1>1, PageKept
<1> QED BY <1>2, <1>3, <1>4, AloneSame, PutsStep DEF Puts

LEMMA BearerTyped ==
    ASSUME BrowserInv, NEW t \in Tabs
    PROVE  Bearer(t) \in Families \cup {None}
  BY TabTyped DEF Bearer, Sessions

LEMMA RevokeSessionStep ==
    ASSUME BrowserInv, NEW t \in Tabs, RevokeSession(t) PROVE BrowserInv'
<1>1. PICK f \in Live : Call(t, Sent("revoke", Bearer(t), f))
  BY DEF RevokeSession
<1>2. PICK r : r = Sent("revoke", Bearer(t), f)
  OBVIOUS
<1>3. r \in FetchRecord /\ r.op = "revoke"
  BY <1>2, SentTyped, BearerTyped DEF Ops, Live, Sent
<1>4. t \in WebTabs
  BY InvTabs DEF RevokeSession, PageOK, Pages
<1>5. \A n \in Slots : fetch'[t][n] = r => RequestOK(t, fetch[t][n])'
  BY <1>3, <1>4 DEF RequestOK
<1> QED BY <1>1, <1>2, <1>3, <1>5, CallStep DEF RevokeSession

LEMMA ConfirmTotpStep ==
    ASSUME BrowserInv, NEW t \in Tabs, ConfirmTotp(t) PROVE BrowserInv'
<1>1. PICK r : r = Sent("totp-confirm", Bearer(t), None)
  OBVIOUS
<1>2. r \in FetchRecord /\ r.op = "totp-confirm"
  BY <1>1, SentTyped, BearerTyped DEF Ops, Sent
<1>3. t \notin WebTabs
  BY InvTabs DEF ConfirmTotp, PageOK, Pages
<1>4. \A n \in Slots : fetch'[t][n] = r => RequestOK(t, fetch[t][n])'
  BY <1>2, <1>3 DEF RequestOK
<1> QED BY <1>1, <1>2, <1>4, CallStep DEF ConfirmTotp

LEMMA LogoutStep == ASSUME BrowserInv, NEW t \in Tabs, Logout(t) PROVE BrowserInv'
<1>1. SignInOK(t) /\ PageOK(t)
  BY InvTabs
<1>2. PICK n \in Slots : n = Min(FreeSlots(t)) /\ fetch[t][n] = None
  BY FreeSlot DEF Logout
<1>3. PICK r : r = Sent("logout", Bearer(t), Jar(t))
  OBVIOUS
<1>4. /\ r \in FetchRecord /\ r.op = "logout" /\ r.family = Jar(t)
      /\ Jar(t) # None => OpenedBy(Jar(t), AppOf(t))
  <2>1. Jar(t) = cookie[AppOf(t)] /\ AppOf(t) \in CookieNames
    BY AppCookie DEF Jar
  <2>2. Jar(t) \in Families \cup {None}
    BY <2>1 DEF BrowserInv, BrowserTypeOK, BoundaryTypeOK
  <2>3. Jar(t) # None => OpenedBy(Jar(t), AppOf(t))
    BY <2>1 DEF BrowserInv, CookiesOwn
  <2>4. r \in FetchRecord
    BY <1>3, <2>2, SentTyped, BearerTyped DEF Ops
  <2> QED BY <1>3, <2>3, <2>4 DEF Sent
<1>5. fetch' = [fetch EXCEPT ![t] = [Overtaken(t) EXCEPT ![n] = r]]
  BY <1>2, <1>3 DEF Logout
<1>6. UNCHANGED <<serverVars, cookie, store, busy, page>> /\ Authenticated(store[t])
  BY DEF Logout
<1>7. Overtaken(t) \in [Slots -> FetchRecord \cup {None}]
  <2> SUFFICES ASSUME NEW m \in Slots PROVE Overtaken(t)[m] \in FetchRecord \cup {None}
    BY DEF Overtaken
  <2>1. fetch[t][m] \in FetchRecord \cup {None}
    BY TabTyped
  <2>2. fetch[t][m] \in FetchRecord => [fetch[t][m] EXCEPT !.overtaken = TRUE] \in FetchRecord
    BY DEF FetchRecord
  <2> QED BY <2>1, <2>2 DEF Overtaken
<1>8. /\ fetch' \in [Tabs -> [Slots -> FetchRecord \cup {None}]]
      /\ fetch'[t][n] = r
      /\ \A m \in Slots : m # n => fetch'[t][m] = Overtaken(t)[m]
      /\ \A u \in Tabs : u # t => fetch'[u] = fetch[u]
  BY <1>4, <1>5, <1>7, TabTyped
<1>9. ASSUME NEW m \in Slots, m # n, fetch[t][m] # None
      PROVE  /\ fetch'[t][m] # None
             /\ fetch'[t][m].op = fetch[t][m].op /\ fetch'[t][m].stage = fetch[t][m].stage
             /\ fetch'[t][m].bearer = fetch[t][m].bearer
             /\ fetch'[t][m].family = fetch[t][m].family
             /\ fetch'[t][m].reply = fetch[t][m].reply
  <2>1. fetch[t][m] \in FetchRecord /\ fetch'[t][m] = Overtaken(t)[m]
    BY <1>8, <1>9, RequestTyped
  <2>2. CASE fetch[t][m].op \in {"login", "register"}
    <3>1. fetch'[t][m] = [fetch[t][m] EXCEPT !.overtaken = TRUE]
      BY <1>9, <2>1, <2>2 DEF Overtaken
    <3>2. fetch'[t][m] \in FetchRecord
      BY <2>1, <3>1 DEF FetchRecord
    <3> QED BY <2>1, <3>1, <3>2, NoRequestAssumption DEF FetchRecord
  <2>3. CASE fetch[t][m].op \notin {"login", "register"}
    BY <1>9, <2>1, <2>3 DEF Overtaken
  <2> QED BY <2>2, <2>3
<1>10. \A m \in Slots : m # n /\ fetch[t][m] = None => fetch'[t][m] = None
  BY <1>8 DEF Overtaken
<1>11. ASSUME NEW m \in Slots, fetch'[t][m] # None PROVE RequestOK(t, fetch[t][m])'
  <2>1. Grows
    BY <1>6, ServerSame
  <2>2. CASE m = n
    BY <1>4, <1>8, <2>1, <2>2, StillOpened DEF RequestOK, OpenedBy, AppOf
  <2>3. CASE m # n
    <3>1. fetch[t][m] # None
      BY <1>10, <1>11, <2>3
    <3>2. RequestOK(t, fetch[t][m])
      BY <3>1, RequestTyped
    <3> QED BY <1>9, <2>1, <2>3, <3>1, <3>2, StillOpened
        DEF RequestOK, OpenedBy, AppOf, Grows
  <2> QED BY <2>2, <2>3
<1>12. SignInOK(t)'
  <2>1. \A m \in Slots : SignIn(t, m)' <=> SignIn(t, m)
    BY <1>2, <1>4, <1>8, <1>9, <1>10 DEF SignIn
  <2>2. t \in WebTabs => \A m \in Slots : ~SignIn(t, m)
    BY <1>1, <1>6 DEF SignInOK, Authenticated
  <2> QED BY <1>1, <1>6, <2>1, <2>2, SameSignIn
<1>13. PageOK(t)'
  BY <1>1, <1>6, PageKept
<1> QED BY <1>6, <1>8, <1>11, <1>12, <1>13, AloneSame, TabStep

LEMMA NavigateStep == ASSUME BrowserInv, NEW t \in Tabs, Navigate(t) PROVE BrowserInv'
<1>1. SignInOK(t) /\ PageOK(t)
  BY InvTabs
<1>2. PICK to \in Pages(t) : page' = [page EXCEPT ![t] = Guard(t, store[t], to)]
  BY DEF Navigate
<1>3. UNCHANGED <<serverVars, cookie, fetch, store, busy>>
  BY DEF Navigate
<1>4. Guard(t, store[t], to) \in Pages(t)
  BY GuardOK
<1>5. Alone(t) /\ page'[t] = Guard(t, store'[t], to)
  <2>1. Keep(t, store[t]) /\ busy' = [busy EXCEPT ![t] = busy[t]]
    BY <1>3, TabTyped DEF Keep
  <2> QED BY <1>2, <1>3, <1>4, <2>1, TabTyped, AloneKeep
<1>6. PageOK(t)'
  <2>1. t \in AdminTabs => (Authenticated(store'[t]) => store'[t].family \in mfa')
    BY <1>1, <1>3 DEF PageOK, Authenticated, serverVars
  <2> QED BY <1>3, <1>5, <2>1, PageGuarded
<1>7. SignInOK(t)'
  BY <1>1, <1>3, SameSignIn DEF SignIn
<1>8. \A n \in Slots : fetch'[t][n] # None => fetch[t][n] # None /\ fetch'[t][n] = fetch[t][n]
  BY <1>3
<1> QED BY <1>3, <1>5, <1>6, <1>7, <1>8, TabTyped, TabStep

LEMMA ReloadStep == ASSUME BrowserInv, NEW t \in Tabs, Reload(t) PROVE BrowserInv'
<1>1. SignInOK(t) /\ PageOK(t)
  BY InvTabs
<1>2. UNCHANGED <<serverVars, cookie, store>>
  BY DEF Reload
<1>3. PICK to : to = page[t]
  OBVIOUS
<1>4. to \in Pages(t) /\ page' = [page EXCEPT ![t] = Guard(t, store[t], to)]
  BY <1>1, <1>3, TabTyped DEF Reload, PageOK
<1>5. Alone(t) /\ page'[t] = Guard(t, store'[t], to) /\ busy'[t] = FALSE
  <2>1. Keep(t, store[t]) /\ busy' = [busy EXCEPT ![t] = FALSE]
    BY <1>2, TabTyped DEF Keep, Reload
  <2>2. Guard(t, store[t], to) \in Pages(t)
    BY <1>4, GuardOK
  <2> QED BY <1>2, <1>4, <2>1, <2>2, TabTyped, AloneKeep
<1>6. PageOK(t)'
  <2>1. t \in AdminTabs => (Authenticated(store'[t]) => store'[t].family \in mfa')
    BY <1>1, <1>2 DEF PageOK, Authenticated, serverVars
  <2> QED BY <1>2, <1>4, <1>5, <2>1, PageGuarded
<1>7. /\ fetch' \in [Tabs -> [Slots -> FetchRecord \cup {None}]]
      /\ \A n \in Slots : fetch'[t][n] = None
      /\ \A u \in Tabs : u # t => fetch'[u] = fetch[u]
  BY TabTyped DEF Reload
<1>8. SignInOK(t)'
  BY <1>5, <1>7 DEF SignInOK, SignIn
<1>9. \A n \in Slots : fetch'[t][n] # None =>
          fetch[t][n] # None /\ fetch'[t][n] = fetch[t][n]
  BY <1>7
<1> QED BY <1>2, <1>5, <1>6, <1>7, <1>8, <1>9, TabStep

LEMMA UserStep == ASSUME BrowserInv, NEW t \in Tabs, User(t) PROVE BrowserInv'
  BY SubmitStep, LogoutStep, RevokeSessionStep, ConfirmTotpStep, NavigateStep, ReloadStep DEF User
-----------------------------------------------------------------------------
(* How the script goes on.                                                 *)

LEMMA DonePuts ==
    ASSUME BrowserInv, NEW t \in Tabs, NEW n \in Slots, Done(t, n)
    PROVE  Puts(t, n, None)
<1>1. None \in FetchRecord \cup {None}
  OBVIOUS
<1> QED BY <1>1, SlotSet DEF Done, BrowserInv

LEMMA ThenPuts ==
    ASSUME BrowserInv, NEW t \in Tabs, NEW n \in Slots, fetch[t][n] # None,
           NEW request \in FetchRecord, Then(t, n, request)
    PROVE  \E r \in FetchRecord :
              /\ Puts(t, n, r)
              /\ r.op = request.op /\ r.stage = request.stage /\ r.bearer = request.bearer
              /\ r.family = request.family /\ r.overtaken = fetch[t][n].overtaken
<1> DEFINE r == [request EXCEPT !.overtaken = fetch[t][n].overtaken]
<1>1. fetch[t][n] \in FetchRecord
  BY RequestTyped
<1>2. /\ r \in FetchRecord
      /\ r.op = request.op /\ r.stage = request.stage /\ r.bearer = request.bearer
      /\ r.family = request.family /\ r.overtaken = fetch[t][n].overtaken
  BY <1>1 DEF FetchRecord
<1>3. fetch' = [fetch EXCEPT ![t][n] = r]
  BY DEF Then
<1> HIDE DEF r
<1> QED BY <1>2, <1>3, SlotSet DEF BrowserInv

LEMMA BackWas ==
    ASSUME NEW t, NEW n, NEW op, Back(t, n, op)
    PROVE  /\ fetch[t][n] # None /\ fetch[t][n].op = op
           /\ fetch[t][n].stage = IF op \in CookieOps THEN "arrived" ELSE "answered"
  BY DEF Back, At

(* The sign-in under way fails. *)
LEMMA FailStep ==
    ASSUME BrowserInv, NEW t \in Tabs, NEW n \in Slots, SignIn(t, n), FailIn(t, n),
           UNCHANGED <<serverVars, cookie>>
    PROVE  BrowserInv'
<1>1. SignInOK(t) /\ PageOK(t)
  BY InvTabs
<1>2. Puts(t, n, None)
  BY DonePuts DEF FailIn
<1>3. Alone(t) /\ busy'[t] = FALSE
  BY AloneIdle DEF FailIn, Idle
<1>4. SignInOK(t)'
  <2>1. ~SignIn(t, n)' /\ \A m \in Slots : m # n => fetch'[t][m] = fetch[t][m]
    BY <1>2 DEF SignIn, Puts
  <2> QED BY <1>1, <1>3, <2>1, SignInOver
<1>5. PageOK(t)'
  BY <1>1, PageKept DEF FailIn
<1> QED BY <1>2, <1>3, <1>4, <1>5, PutsStep DEF Puts

(* The sign-in under way succeeds. *)
LEMMA EnterStep ==
    ASSUME BrowserInv, NEW t \in Tabs, NEW n \in Slots, SignIn(t, n),
           NEW f \in Families, NEW enrollmentOnly \in BOOLEAN,
           t \in WebTabs => ~enrollmentOnly,
           t \in AdminTabs => enrollmentOnly \/ f \in mfa,
           Done(t, n), Enter(t, f, enrollmentOnly), Idle(t),
           UNCHANGED <<serverVars, cookie>>
    PROVE  BrowserInv'
<1>1. SignInOK(t) /\ PageOK(t)
  BY InvTabs
<1>2. Puts(t, n, None)
  BY DonePuts
<1>3. PICK s : s = [family |-> f, enrollmentOnly |-> enrollmentOnly]
  OBVIOUS
<1>4. s \in Sessions /\ s.family = f /\ s.enrollmentOnly = enrollmentOnly
  BY <1>3 DEF Sessions
<1>5. PICK to : to = IF enrollmentOnly THEN "totp-setup" ELSE "home"
  OBVIOUS
<1>6. to \in Pages(t)
  BY <1>5 DEF Pages
<1>7. Keep(t, s) /\ page' = [page EXCEPT ![t] = Guard(t, s, to)] /\ busy' = [busy EXCEPT ![t] = FALSE]
  BY <1>3, <1>5 DEF Enter, Push, Idle
<1>8. Guard(t, s, to) \in Pages(t)
  BY <1>6, GuardOK
<1>9. Alone(t) /\ store'[t] = s /\ page'[t] = Guard(t, store'[t], to) /\ busy'[t] = FALSE
  BY <1>4, <1>7, <1>8, AloneKeep
<1>10. SignInOK(t)'
  <2>1. ~SignIn(t, n)' /\ \A m \in Slots : m # n => fetch'[t][m] = fetch[t][m]
    BY <1>2 DEF SignIn, Puts
  <2> QED BY <1>1, <1>9, <2>1, SignInOver
<1>11. PageOK(t)'
  <2>1. t \in AdminTabs => (Authenticated(store'[t]) => store'[t].family \in mfa')
    BY <1>4, <1>9 DEF Authenticated, serverVars
  <2> QED BY <1>6, <1>9, <2>1, PageGuarded
<1> QED BY <1>2, <1>9, <1>10, <1>11, PutsStep DEF Puts

LEMMA AfterLoginStep ==
    ASSUME BrowserInv, NEW t \in Tabs, NEW n \in Slots, AfterLogin(t, n),
           UNCHANGED <<serverVars, cookie>>
    PROVE  BrowserInv'
<1>1. fetch[t][n] # None /\ fetch[t][n].op = "login" /\ fetch[t][n].stage = "arrived"
  BY BackWas DEF AfterLogin, CookieOps
<1>2. SignIn(t, n) /\ RequestOK(t, fetch[t][n]) /\ fetch[t][n] \in FetchRecord
  BY <1>1, RequestTyped DEF SignIn
<1>3. SignInOK(t) /\ PageOK(t)
  BY InvTabs
<1>4. CASE fetch[t][n].reply # "ok"
  BY <1>2, <1>4, FailStep DEF AfterLogin
<1>5. CASE fetch[t][n].reply = "ok"
  <2>1. PICK f \in Families : f = fetch[t][n].family
    BY <1>1, <1>2, <1>5 DEF RequestOK, OpenedBy
  <2>2. CASE t \in WebTabs
    <3>1. t \notin AdminTabs
      BY <2>2, TabsAssumption
    <3>2. Done(t, n) /\ Enter(t, f, FALSE) /\ Idle(t)
      BY <1>5, <2>1, <2>2 DEF AfterLogin
    <3> QED BY <1>2, <3>1, <3>2, EnterStep
  <2>3. CASE t \notin WebTabs
    <3>1. PICK q : q = Sent("access-check", f, f)
      OBVIOUS
    <3>2. /\ q \in FetchRecord /\ q.op = "access-check" /\ q.stage = "sent"
          /\ q.family = f /\ q.bearer = f
      BY <3>1, SentTyped DEF Ops, Sent
    <3>3. Then(t, n, q) /\ UNCHANGED <<store, busy, page>>
      BY <1>5, <2>1, <2>3, <3>1 DEF AfterLogin
    <3>4. PICK r \in FetchRecord :
             /\ Puts(t, n, r)
             /\ r.op = "access-check" /\ r.stage = "sent" /\ r.bearer = f /\ r.family = f
      BY <1>1, <3>2, <3>3, ThenPuts
    <3>5. fetch'[t][n] = r
      BY <3>4 DEF Puts
    <3>6. RequestOK(t, fetch[t][n])'
      BY <2>3, <3>4, <3>5 DEF RequestOK
    <3>7. SignInOK(t)'
      <4>1. \A m \in Slots : SignIn(t, m)' <=> SignIn(t, m)
        BY <1>2, <3>4, NoRequestAssumption DEF SignIn, Puts
      <4> QED BY <1>3, <2>3, <3>3, <4>1, SameSignIn
    <3>8. PageOK(t)'
      BY <1>3, <3>3, PageKept
    <3> QED BY <3>3, <3>4, <3>6, <3>7, <3>8, AloneSame, PutsStep
  <2> QED BY <2>2, <2>3
<1> QED BY <1>4, <1>5

LEMMA AfterAccessCheckStep ==
    ASSUME BrowserInv, NEW t \in Tabs, NEW n \in Slots, AfterAccessCheck(t, n),
           UNCHANGED <<serverVars, cookie>>
    PROVE  BrowserInv'
<1>1. /\ fetch[t][n] # None /\ fetch[t][n].op = "access-check"
      /\ fetch[t][n].stage = "answered"
  BY BackWas DEF AfterAccessCheck, CookieOps
<1>2. SignIn(t, n) /\ RequestOK(t, fetch[t][n])
  BY <1>1, RequestTyped DEF SignIn
<1>3. CASE fetch[t][n].reply \notin {"ok", "totp_setup_required"}
  BY <1>2, <1>3, FailStep DEF AfterAccessCheck
<1>4. CASE fetch[t][n].reply \in {"ok", "totp_setup_required"}
  <2>1. PICK f \in Families : f = fetch[t][n].family
    BY <1>1, <1>2, <1>4 DEF RequestOK
  <2>2. PICK b \in BOOLEAN : b = (fetch[t][n].reply = "totp_setup_required")
    OBVIOUS
  <2>3. Done(t, n) /\ Enter(t, f, b) /\ Idle(t)
    BY <1>4, <2>1, <2>2 DEF AfterAccessCheck, EnrollmentOnly
  <2>4. t \notin WebTabs
    BY <1>1, <1>2 DEF RequestOK
  <2>5. b \/ f \in mfa
    BY <1>1, <1>2, <1>4, <2>1, <2>2 DEF RequestOK
  <2> QED BY <1>2, <2>3, <2>4, <2>5, EnterStep
<1> QED BY <1>3, <1>4

LEMMA AfterRegisterStep ==
    ASSUME BrowserInv, NEW t \in Tabs, NEW n \in Slots, AfterRegister(t, n),
           UNCHANGED <<serverVars, cookie>>
    PROVE  BrowserInv'
<1>1. fetch[t][n] # None /\ fetch[t][n].op = "register"
  BY BackWas DEF AfterRegister
<1>2. SignIn(t, n) /\ RequestOK(t, fetch[t][n])
  BY <1>1, RequestTyped DEF SignIn
<1>3. SignInOK(t) /\ PageOK(t)
  BY InvTabs
<1>4. CASE fetch[t][n].reply # "ok"
  BY <1>2, <1>4, FailStep DEF AfterRegister
<1>5. CASE fetch[t][n].reply = "ok"
  <2>1. PICK q : q = Sent("login", None, None)
    OBVIOUS
  <2>2. q \in FetchRecord /\ q.op = "login" /\ q.stage = "sent"
    BY <2>1, SentTyped DEF Ops, Sent
  <2>3. Then(t, n, q) /\ UNCHANGED <<store, busy, page>>
    BY <1>5, <2>1 DEF AfterRegister
  <2>4. PICK r \in FetchRecord : /\ Puts(t, n, r) /\ r.op = "login" /\ r.stage = "sent"
                                 /\ r.overtaken = fetch[t][n].overtaken
    BY <1>1, <2>2, <2>3, ThenPuts
  <2>5. fetch'[t][n] = r
    BY <2>4 DEF Puts
  <2>6. RequestOK(t, fetch[t][n])'
    BY <2>4, <2>5 DEF RequestOK
  <2>7. SignInOK(t)'
    <3>1. \A m \in Slots : SignIn(t, m)' <=> SignIn(t, m)
      BY <1>2, <2>4, NoRequestAssumption DEF SignIn, Puts
    <3>2. \A m \in Slots : SignIn(t, m) => fetch'[t][m].overtaken = fetch[t][m].overtaken
      BY <2>4, <2>5 DEF Puts
    <3> QED BY <1>3, <2>3, <3>1, <3>2, SameSignIn
  <2>8. PageOK(t)'
    BY <1>3, <2>3, PageKept
  <2> QED BY <2>3, <2>4, <2>6, <2>7, <2>8, AloneSame, PutsStep
<1> QED BY <1>4, <1>5

(* A request that is no sign-in is over. *)
LEMMA OtherOver ==
    ASSUME BrowserInv, NEW t \in Tabs, NEW n \in Slots, ~SignIn(t, n), Done(t, n),
           Alone(t), busy' = busy, t \in WebTabs => store'[t] \in {store[t], None},
           UNCHANGED <<serverVars, cookie>>, PageOK(t)'
    PROVE  BrowserInv'
<1>1. SignInOK(t)
  BY InvTabs
<1>2. Puts(t, n, None)
  BY DonePuts
<1>3. SignInOK(t)'
  <2>1. \A m \in Slots : SignIn(t, m)' <=> SignIn(t, m)
    BY <1>2 DEF SignIn, Puts
  <2>2. t \in WebTabs => \A m \in Slots : SignIn(t, m) =>
            fetch'[t][m].overtaken = fetch[t][m].overtaken /\ store'[t] = store[t]
    BY <1>1, <1>2 DEF SignInOK, Puts
  <2> QED BY <1>1, <2>1, <2>2, SameSignIn
<1> QED BY <1>2, <1>3, PutsStep DEF Puts

(* The tab signs itself out. *)
LEMMA SignedOut ==
    ASSUME BrowserInv, NEW t \in Tabs, Keep(t, None), Push(t, None, "login"), busy' = busy,
           UNCHANGED serverVars
    PROVE  Alone(t) /\ store'[t] = None /\ PageOK(t)'
<1>1. "login" \in Pages(t)
  BY DEF Pages
<1>2. Guard(t, None, "login") \in Pages(t)
  BY <1>1, GuardOK
<1>3. page' = [page EXCEPT ![t] = Guard(t, None, "login")]
  BY DEF Push
<1>4. busy' = [busy EXCEPT ![t] = busy[t]] /\ busy[t] \in BOOLEAN
  BY TabTyped
<1>5. Alone(t) /\ store'[t] = None /\ page'[t] = Guard(t, None, "login")
  BY <1>2, <1>3, <1>4, AloneKeep
<1>6. PageOK(t)'
  <2>1. page'[t] = Guard(t, store'[t], "login") /\ ~Authenticated(store'[t])
    BY <1>5 DEF Authenticated
  <2> QED BY <1>1, <2>1, PageGuarded
<1> QED BY <1>5, <1>6

LEMMA AfterOtherStep ==
    ASSUME BrowserInv, NEW t \in Tabs, NEW n \in Slots,
           AfterLogout(t, n) \/ AfterList(t, n) \/ AfterConfirm(t, n),
           UNCHANGED <<serverVars, cookie>>
    PROVE  BrowserInv'
<1>1. SignInOK(t) /\ PageOK(t)
  BY InvTabs
<1>2. CASE AfterLogout(t, n)
  <2>1. ~SignIn(t, n)
    BY <1>2, BackWas DEF AfterLogout, SignIn
  <2>2. Done(t, n) /\ Keep(t, None) /\ Push(t, None, "login") /\ busy' = busy
    BY <1>2 DEF AfterLogout
  <2> QED BY <2>1, <2>2, SignedOut, OtherOver
<1>3. CASE AfterList(t, n)
  <2>1. fetch[t][n] # None /\ fetch[t][n].op = "list"
    BY <1>3, BackWas DEF AfterList
  <2>2. ~SignIn(t, n)
    BY <2>1 DEF SignIn
  <2>3. t \in WebTabs /\ t \notin AdminTabs
    BY <2>1, RequestTyped, TabsAssumption DEF RequestOK
  <2>4. Done(t, n) /\ UNCHANGED <<busy, page>>
    BY <1>3 DEF AfterList
  <2>5. CASE store' = store
    <3>1. Alone(t)
      BY <2>4, <2>5, AloneSame
    <3>2. PageOK(t)'
      BY <1>1, <2>4, <2>5, PageKept
    <3> QED BY <2>2, <2>4, <2>5, <3>1, <3>2, OtherOver
  <2>6. CASE store' = [store EXCEPT ![t] = None]
    <3>1. Alone(t) /\ store'[t] = None
      BY <2>4, <2>6, TabTyped DEF Alone, Pages
    <3>2. PageOK(t)'
      BY <1>1, <2>3, <2>4, <3>1 DEF PageOK, Pages
    <3> QED BY <2>2, <2>4, <3>1, <3>2, OtherOver
  <2> QED BY <1>3, <2>5, <2>6 DEF AfterList
<1>4. CASE AfterConfirm(t, n)
  <2>1. ~SignIn(t, n)
    BY <1>4, BackWas DEF AfterConfirm, SignIn
  <2>2. Done(t, n) /\ busy' = busy
    BY <1>4 DEF AfterConfirm
  <2>3. CASE fetch[t][n].reply = "ok"
    <3>1. Keep(t, None) /\ Push(t, None, "login")
      BY <1>4, <2>3 DEF AfterConfirm
    <3> QED BY <2>1, <2>2, <3>1, SignedOut, OtherOver
  <2>4. CASE fetch[t][n].reply # "ok"
    <3>1. UNCHANGED <<store, busy, page>>
      BY <1>4, <2>2, <2>4 DEF AfterConfirm
    <3>2. Alone(t)
      BY <3>1, AloneSame
    <3>3. PageOK(t)'
      BY <1>1, <3>1, PageKept
    <3> QED BY <2>1, <2>2, <3>1, <3>2, <3>3, OtherOver
  <2> QED BY <2>3, <2>4
<1> QED BY <1>2, <1>3, <1>4

LEMMA AfterRevokeStep ==
    ASSUME BrowserInv, NEW t \in Tabs, NEW n \in Slots, AfterRevoke(t, n),
           UNCHANGED <<serverVars, cookie>>
    PROVE  BrowserInv'
<1>1. fetch[t][n] # None /\ fetch[t][n].op = "revoke"
  BY BackWas DEF AfterRevoke
<1>2. SignInOK(t) /\ PageOK(t)
  BY InvTabs
<1>3. UNCHANGED <<store, busy, page>>
  BY DEF AfterRevoke
<1>4. Alone(t) /\ PageOK(t)'
  BY <1>2, <1>3, AloneSame, PageKept
<1>5. ~SignIn(t, n)
  BY <1>1 DEF SignIn
<1>6. CASE fetch[t][n].reply # "ok"
  BY <1>3, <1>4, <1>5, <1>6, OtherOver DEF AfterRevoke
<1>7. CASE fetch[t][n].reply = "ok"
  <2>1. PICK q : q = Sent("list", Bearer(t), None)
    OBVIOUS
  <2>2. q \in FetchRecord /\ q.op = "list" /\ Then(t, n, q)
    BY <1>7, <2>1, SentTyped, BearerTyped DEF Ops, Sent, AfterRevoke
  <2>3. PICK r \in FetchRecord : Puts(t, n, r) /\ r.op = "list"
    BY <1>1, <2>2, ThenPuts
  <2>4. t \in WebTabs
    BY <1>1, RequestTyped, TabsAssumption DEF RequestOK
  <2>5. RequestOK(t, fetch[t][n])'
    BY <2>3, <2>4 DEF RequestOK, Puts
  <2>6. SignInOK(t)'
    <3>1. \A m \in Slots : SignIn(t, m)' <=> SignIn(t, m)
      BY <1>5, <2>3 DEF SignIn, Puts
    <3>2. \A m \in Slots : SignIn(t, m) => fetch'[t][m].overtaken = fetch[t][m].overtaken
      BY <1>5, <2>3 DEF Puts
    <3> QED BY <1>2, <1>3, <3>1, <3>2, SameSignIn
  <2> QED BY <1>4, <2>3, <2>5, <2>6, PutsStep
<1> QED BY <1>6, <1>7

LEMMA ResumeStep ==
    ASSUME BrowserInv, NEW t \in Tabs, NEW n \in Slots, Resume(t, n)
    PROVE  BrowserInv'
  BY AfterLoginStep, AfterAccessCheckStep, AfterRegisterStep, AfterOtherStep, AfterRevokeStep
     DEF Resume

LEMMA ElsewhereStep ==
    ASSUME BrowserInv, EndElsewhere, UNCHANGED <<store, busy, page>>
    PROVE  BrowserInv'
<1>1. PICK f \in Live : End({f}) /\ UNCHANGED <<app, mfa, enrolled, cookie, fetch>>
  BY DEF EndElsewhere
<1>2. ServerTypes' /\ Grows
  BY <1>1, ServerEnds
<1>3. CookiesOwn'
  BY <1>1, <1>2, CookiesKept DEF BrowserInv
<1>4. Asked'
  BY <1>1, <1>2, AskedStep DEF BrowserInv
<1>5. BrowserTypeOK'
  BY <1>1, <1>2 DEF BrowserInv, BrowserTypeOK, BoundaryTypeOK, ServerTypes, Pages, FetchRecord,
                    CookieNames, CookieName, AppOf
<1>6. ASSUME NEW t \in Tabs PROVE SignInOK(t)' /\ PageOK(t)'
  BY <1>1, <1>2, InvTabs, OtherTab DEF Grows
<1> QED BY <1>3, <1>4, <1>5, <1>6 DEF BrowserInv

LEMMA BrowserInvInit == ASSUME BrowserInit PROVE BrowserInv
<1>1. /\ fetch = [t \in Tabs |-> [n \in Slots |-> None]]
      /\ cookie = [c \in CookieNames |-> None]
      /\ store = [t \in Tabs |-> None] /\ busy = [t \in Tabs |-> FALSE]
      /\ page = [t \in Tabs |-> "login"]
  BY DEF BrowserInit, BoundaryInit
<1>2. ServerTypes
  BY DEF BrowserInit, BoundaryInit, FamiliesInit, ServerTypes, FamiliesTypeOK
<1>3. \A t \in Tabs : "login" \in Pages(t)
  BY DEF Pages
<1>4. BrowserTypeOK
  BY <1>1, <1>2, <1>3 DEF BrowserTypeOK, BoundaryTypeOK, ServerTypes
<1>5. Asked /\ CookiesOwn
  BY <1>1 DEF Asked, CookiesOwn
<1>6. ASSUME NEW t \in Tabs PROVE SignInOK(t) /\ PageOK(t)
  BY <1>1, <1>3 DEF SignInOK, PageOK, SignIn, Authenticated
<1> QED BY <1>4, <1>5, <1>6 DEF BrowserInv

LEMMA BrowserInvStep == BrowserInv /\ [BrowserNext]_browserVars => BrowserInv'
<1> SUFFICES ASSUME BrowserInv, [BrowserNext]_browserVars PROVE BrowserInv'
  OBVIOUS
<1>1. CASE BrowserNext
  BY <1>1, UserStep, NetworkStep, ResumeStep, ElsewhereStep DEF BrowserNext
<1>2. CASE UNCHANGED browserVars
  BY <1>2 DEF browserVars, serverVars, BrowserInv, BrowserTypeOK, BoundaryTypeOK, FamiliesTypeOK,
              Asked, RequestOK, OpenedBy, CookiesOwn, SignInOK, SignIn, PageOK, Authenticated,
              Pages, CookieNames, CookieName, AppOf
<1> QED BY <1>1, <1>2

LEMMA BrowserInvAlways == BrowserSpec => []BrowserInv
  BY BrowserInvInit, BrowserInvStep, PTL DEF BrowserSpec
-----------------------------------------------------------------------------
(* The variables of the browser model keep their types for any tabs,       *)
(* requests and sessions.                                                  *)
THEOREM BrowserTypes == BrowserSpec => []BrowserTypeOK
<1>1. BrowserInv => BrowserTypeOK
  BY DEF BrowserInv
<1> QED BY <1>1, BrowserInvAlways, PTL

(* A form is locked exactly while one sign-in of its tab is under way: no  *)
(* tab runs two of them, and no form stays locked (busy of login and       *)
(* register in stores/auth.ts).                                            *)
THEOREM FormsLocked == BrowserSpec => []BusyWhileSigningIn
<1>1. ASSUME BrowserInv PROVE BusyWhileSigningIn
  <2> SUFFICES ASSUME NEW t \in Tabs
               PROVE  Cardinality({n \in Slots :
                         /\ fetch[t][n] # None
                         /\ fetch[t][n].op \in {"login", "register", "access-check"}})
                      = IF busy[t] THEN 1 ELSE 0
    BY DEF BusyWhileSigningIn
  <2> DEFINE signIns == {n \in Slots :
                /\ fetch[t][n] # None
                /\ fetch[t][n].op \in {"login", "register", "access-check"}}
  <2>1. SignInOK(t)
    BY <1>1, InvTabs
  <2>2. CASE busy[t]
    <3>1. PICK n \in Slots : SignIn(t, n)
      BY <2>1, <2>2 DEF SignInOK
    <3>2. signIns = {n}
      BY <2>1, <3>1 DEF SignInOK, SignIn
    <3> HIDE DEF signIns
    <3> QED BY <2>2, <3>2, FS_Singleton DEF signIns
  <2>3. CASE ~busy[t]
    <3>1. signIns = {}
      BY <2>1, <2>3, NoSignIn DEF SignIn
    <3> QED BY <2>3, <3>1, FS_EmptySet
  <2> QED BY <2>2, <2>3
<1> QED BY <1>1, BrowserInvAlways, PTL

(* Whatever answers come late, the admin app opens its pages to sessions   *)
(* with MFA only, keeps one for enrolment on the enrolment page, and the   *)
(* user app never shows a sign-in form to a signed-in tab (the guards of   *)
(* both routers, and what AfterLogin and AfterAccessCheck let in).         *)
THEOREM PagesAreGuarded == BrowserSpec => []GuardedPages
<1>1. ASSUME BrowserInv PROVE GuardedPages
  <2>1. ASSUME NEW t \in AdminTabs
        PROVE  /\ page[t] = "home" => Authenticated(store[t]) /\ store[t].family \in mfa
               /\ page[t] = "totp-setup" => store[t] # None /\ store[t].enrollmentOnly
    BY <1>1, InvTabs DEF PageOK, Tabs
  <2>2. ASSUME NEW t \in WebTabs PROVE page[t] = "login" => store[t] = None
    BY <1>1, InvTabs DEF PageOK, Tabs
  <2> QED BY <2>1, <2>2 DEF GuardedPages
<1> QED BY <1>1, BrowserInvAlways, PTL

(* A step that signs a tab of the user app in is the answer to a form that *)
(* was submitted after the last logout of that tab was asked for.          *)
LEMMA SignsIn ==
    ASSUME BrowserInv, [BrowserNext]_browserVars,
           NEW t \in WebTabs, store[t] = None, store'[t] # None
    PROVE  \E n \in Slots : Back(t, n, "login") /\ ~fetch[t][n].overtaken /\ fetch'[t][n] = None
<1>0. t \in Tabs /\ t \notin AdminTabs /\ store \in [Tabs -> Sessions \cup {None}]
  BY TabsAssumption, TabTyped DEF Tabs
<1>1. \A u \in Tabs : ~Submit(u) /\ ~Logout(u) /\ ~RevokeSession(u) /\ ~ConfirmTotp(u)
                      /\ ~Navigate(u) /\ ~Reload(u)
  BY DEF Submit, Logout, RevokeSession, ConfirmTotp, Navigate, Reload
<1>2. store' # store
  OBVIOUS
<1>3. PICK u \in Tabs, n \in Slots : Resume(u, n)
  BY <1>1, <1>2 DEF BrowserNext, browserVars, User, Network
<1>4. CASE AfterLogin(u, n)
  <2>1. fetch[u][n].reply = "ok" /\ u \in WebTabs
    BY <1>2, <1>4 DEF AfterLogin, FailIn
  <2>2. Done(u, n) /\ Enter(u, fetch[u][n].family, FALSE)
    BY <1>4, <2>1 DEF AfterLogin
  <2>3. u = t
    BY <1>0, <2>2 DEF Enter, Keep
  <2>4. Back(t, n, "login")
    BY <1>4, <2>3 DEF AfterLogin
  <2>5. SignIn(t, n)
    BY <2>4, BackWas DEF SignIn
  <2>6. ~fetch[t][n].overtaken
    BY <1>0, <2>5, InvTabs DEF SignInOK
  <2>7. fetch'[t][n] = None
    BY <1>0, <2>2, <2>3, DonePuts DEF Puts
  <2> QED BY <2>4, <2>6, <2>7
<1>5. CASE AfterAccessCheck(u, n)
  <2>1. fetch[u][n] # None /\ fetch[u][n].op = "access-check"
    BY <1>5, BackWas DEF AfterAccessCheck
  <2>2. u # t
    BY <2>1, RequestTyped DEF RequestOK
  <2>3. \E s : Keep(u, s)
    BY <1>2, <1>5 DEF AfterAccessCheck, FailIn, Enter
  <2> QED BY <1>0, <2>2, <2>3 DEF Keep
<1>6. CASE AfterRegister(u, n) \/ AfterRevoke(u, n)
  BY <1>2, <1>6 DEF AfterRegister, AfterRevoke, FailIn
<1>7. CASE AfterLogout(u, n) \/ AfterList(u, n) \/ AfterConfirm(u, n)
  <2>1. store' = store \/ store' = [store EXCEPT ![u] = None]
    BY <1>7 DEF AfterLogout, AfterList, AfterConfirm, Keep
  <2> QED BY <1>0, <2>1
<1> QED BY <1>3, <1>4, <1>5, <1>6, <1>7 DEF Resume

(* A tab of the user app that asked for a logout is signed in again only   *)
(* by a form submitted after that (login and logout of stores/auth.ts).    *)
THEOREM LogoutSticks == BrowserSpec => SignedOutStays
<1> DEFINE Stays == \A t \in WebTabs :
              store[t] = None /\ store'[t] # None =>
                  \E n \in Slots : Back(t, n, "login") /\ ~fetch[t][n].overtaken
                                   /\ fetch'[t][n] = None
<1>1. BrowserInv /\ [BrowserNext]_browserVars => [Stays]_browserVars
  BY SignsIn
<1> QED BY <1>1, BrowserInvAlways, PTL DEF BrowserSpec, SignedOutStays

(* A logout in one app leaves the sessions of the other app alone, because *)
(* each app has a cookie of its own (cookie_name and cookie_path of        *)
(* auth/router.py).                                                        *)
THEOREM AppsStayApart == BrowserSpec => AppsApart
<1> DEFINE Apart == \A t \in Tabs, n \in Slots :
              ServeLogout(t, n) =>
                  \A f \in Families : phase'[f] # phase[f] => app[f] = AppOf(t)
<1>1. ASSUME BrowserInv PROVE Apart
  <2> SUFFICES ASSUME NEW t \in Tabs, NEW n \in Slots, ServeLogout(t, n),
                      NEW f \in Families, phase'[f] # phase[f]
               PROVE  app[f] = AppOf(t)
    OBVIOUS
  <2>1. fetch[t][n] # None /\ fetch[t][n].op = "logout" /\ End(Live \cap {fetch[t][n].family})
    BY DEF ServeLogout, At, Named
  <2>2. f = fetch[t][n].family
    BY <1>1, <2>1, ServerTyped DEF End, ServerTypes, FamiliesTypeOK
  <2>3. f # None
    BY TabsAssumption
  <2> QED BY <1>1, <2>1, <2>2, <2>3, RequestTyped DEF RequestOK, OpenedBy
<1>2. BrowserInv => [Apart]_browserVars
  BY <1>1
<1> QED BY <1>2, BrowserInvAlways, PTL DEF BrowserSpec, AppsApart
=============================================================================
