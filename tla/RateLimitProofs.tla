--------------------------- MODULE RateLimitProofs ---------------------------
(***************************************************************************)
(* What TLAPS proves about the two back ends of the rate limiter, and of   *)
(* the limiter of a running application, for any limit, window and number  *)
(* of requests under way.                                                  *)
(***************************************************************************)
EXTENDS RateLimit, FiniteSetTheorems, WellFoundedInduction, TLAPS
-----------------------------------------------------------------------------
(* The back end that counts in Redis.                                      *)

First(b) == b * WindowSeconds  \* the first second of bucket b

(* A second belongs to its bucket. *)
LEMMA BucketSpan ==
    ASSUME NEW t \in Time
    PROVE  /\ Bucket(t) \in Buckets
           /\ First(Bucket(t)) \in Nat
           /\ First(Bucket(t)) <= t
           /\ t < First(Bucket(t)) + WindowSeconds
<1> DEFINE last == MaxTime
<1>1. t \in Nat /\ t <= last /\ last \in Nat /\ WindowSeconds \in Nat \ {0}
  BY LimitAssumption, DelayAssumption DEF Time
<1>2. t \div WindowSeconds \in Nat /\ last \div WindowSeconds \in Nat
  BY <1>1, SMT
<1>3. t \div WindowSeconds <= last \div WindowSeconds
  BY <1>1, SMT
<1>4. (t \div WindowSeconds) * WindowSeconds <= t /\ t < (t \div WindowSeconds) * WindowSeconds + WindowSeconds
  BY <1>1, SMT
<1>5. (t \div WindowSeconds) * WindowSeconds \in Nat
  BY <1>1, <1>2, SMT
<1> QED BY <1>2, <1>3, <1>4, <1>5 DEF Bucket, Buckets, First

LEMMA FirstNat == \A b \in Buckets : First(b) \in Nat
<1>1. MaxTime \div WindowSeconds \in Nat
  BY LimitAssumption, DelayAssumption, SMT
<1> SUFFICES ASSUME NEW b \in Buckets PROVE First(b) \in Nat
  OBVIOUS
<1>2. b \in Nat
  BY <1>1, SMT DEF Buckets, Bucket
<1> QED BY <1>2, LimitAssumption, DelayAssumption, SMT DEF First

LEMMA InitTyped == Init => TypeOK
  BY LimitAssumption, DelayAssumption DEF Init, TypeOK, Time

LEMMA CountedTyped ==
    ASSUME TypeOK, NEW b \in Buckets
    PROVE  Counted(b) \in Counter
<1>1. now \in Nat /\ WindowSeconds \in Nat
  BY LimitAssumption, DelayAssumption DEF TypeOK, Time
<1>2. CASE counters[b] = None
  BY <1>1, <1>2 DEF Counted, Counter
<1>3. CASE counters[b] # None
  BY <1>3 DEF TypeOK, Counted, Counter
<1> QED BY <1>2, <1>3

LEMMA CountTyped ==
    ASSUME TypeOK, NEW p \in Procs, sent[p] # None, Count(p)
    PROVE  counters' \in [Buckets -> Counter \cup {None}]
<1>1. sent[p] \in Time
  BY DEF TypeOK
<1>2. Bucket(sent[p]) \in Buckets
  BY <1>1, BucketSpan
<1> QED BY <1>2, CountedTyped DEF TypeOK, Count

LEMMA TypeStep == TypeOK /\ [Next]_vars => TypeOK'
<1> SUFFICES ASSUME TypeOK, [Next]_vars PROVE TypeOK'
  OBVIOUS
<1>1. CASE Tick
  <2>1. now' \in Time
    BY <1>1, LimitAssumption, DelayAssumption DEF TypeOK, Tick, Time
  <2> QED BY <1>1, <2>1 DEF TypeOK, Tick
<1>2. ASSUME NEW p \in Procs, Call(p) PROVE TypeOK'
  <2>1. Bucket(now) \in Buckets
    BY BucketSpan DEF TypeOK
  <2>2. calls' \in [Buckets -> Nat]
    BY <1>2, <2>1 DEF TypeOK, Call
  <2> QED BY <1>2, <2>2 DEF TypeOK, Call
<1>3. ASSUME NEW p \in Procs, Admit(p) PROVE TypeOK'
  <2>1. counters' \in [Buckets -> Counter \cup {None}]
    BY <1>3, CountTyped DEF Admit
  <2>2. Bucket(sent[p]) \in Buckets
    BY <1>3, BucketSpan DEF TypeOK, Admit
  <2>3. admitted' \in [Buckets -> Nat]
    BY <1>3, <2>2 DEF TypeOK, Admit
  <2> QED BY <1>3, <2>1, <2>3 DEF TypeOK, Admit, Return
<1>4. ASSUME NEW p \in Procs, Refuse(p) PROVE TypeOK'
  <2>1. counters' \in [Buckets -> Counter \cup {None}]
    BY <1>4, CountTyped DEF Refuse
  <2> QED BY <1>4, <2>1 DEF TypeOK, Refuse, Return
<1>5. ASSUME NEW p \in Procs, Unavailable(p) PROVE TypeOK'
  <2>1. counters' \in [Buckets -> Counter \cup {None}]
    BY <1>5, CountTyped DEF Unavailable, TypeOK
  <2> QED BY <1>5, <2>1 DEF TypeOK, Unavailable, Return
<1>6. CASE UNCHANGED vars
  BY <1>6 DEF TypeOK, vars
<1> QED BY <1>1, <1>2, <1>3, <1>4, <1>5, <1>6 DEF Next

(* The variables of RedisRateLimit keep their types for all constants. *)
THEOREM LimiterTypeOK == Spec => []TypeOK
  BY InitTyped, TypeStep, PTL DEF Spec
-----------------------------------------------------------------------------
(* A request is under way for at most MaxDelay seconds. *)
OnTheWay ==
    \A p \in Procs : sent[p] # None => sent[p] <= now /\ now <= sent[p] + MaxDelay

(* A counter knows all that its bucket let through, and lives until a      *)
(* second after the window; when it is gone although requests were let     *)
(* through, that second has come.                                          *)
CounterOK(b) ==
    IF counters[b] # None
    THEN /\ admitted[b] <= counters[b].count
         /\ counters[b].expires > First(b) + WindowSeconds
    ELSE admitted[b] = 0 \/ now > First(b) + WindowSeconds

(* BucketBound is not inductive by itself: that a counter that starts anew *)
(* starts for a bucket that has let nobody through takes the two others.   *)
IInv ==
    /\ TypeOK
    /\ OnTheWay
    /\ \A b \in Buckets : CounterOK(b)
    /\ BucketBound

LEMMA InitIInv == ASSUME Init PROVE IInv
<1>1. TypeOK
  BY InitTyped
<1> QED BY <1>1, LimitAssumption, DelayAssumption DEF Init, IInv, OnTheWay, CounterOK, BucketBound

(* What the INCR finds for a request that is at most a second late. *)
LEMMA LateByASecond ==
    ASSUME IInv, MaxDelay <= 1, NEW p \in Procs, sent[p] # None
    PROVE  LET b == Bucket(sent[p]) IN
           /\ b \in Buckets
           /\ Counted(b) \in Counter
           /\ admitted[b] < Counted(b).count
           /\ Counted(b).expires > First(b) + WindowSeconds
<1> DEFINE b == Bucket(sent[p])
<1>1. sent[p] \in Time /\ sent[p] \in Nat /\ now \in Nat
  BY DEF IInv, TypeOK, Time
<1>2. /\ b \in Buckets /\ First(b) \in Nat
      /\ First(b) <= sent[p] /\ sent[p] < First(b) + WindowSeconds
  BY <1>1, BucketSpan
<1>3. sent[p] <= now /\ now <= sent[p] + 1
  BY <1>1, LimitAssumption, DelayAssumption DEF IInv, OnTheWay
<1>4. WindowSeconds \in Nat
  BY LimitAssumption, DelayAssumption
<1>5. now <= First(b) + WindowSeconds /\ First(b) <= now
  BY <1>1, <1>2, <1>3, <1>4
<1>6. Counted(b) \in Counter
  BY <1>2, CountedTyped DEF IInv
<1>7. CASE counters[b] = None
  <2>1. admitted[b] = 0
    BY <1>1, <1>2, <1>4, <1>5, <1>7 DEF IInv, CounterOK
  <2>2. Counted(b).count = 1 /\ Counted(b).expires = now + WindowSeconds + 1
    BY <1>7 DEF Counted
  <2> QED BY <1>1, <1>2, <1>4, <1>5, <1>6, <2>1, <2>2
<1>8. CASE counters[b] # None
  <2>1. /\ counters[b] \in Counter /\ admitted[b] \in Nat
        /\ admitted[b] <= counters[b].count
        /\ counters[b].expires > First(b) + WindowSeconds
    BY <1>2, <1>8 DEF IInv, TypeOK, CounterOK
  <2>2. Counted(b) = [counters[b] EXCEPT !.count = @ + 1]
    BY <1>8 DEF Counted
  <2>3. /\ Counted(b).count = counters[b].count + 1
        /\ Counted(b).expires = counters[b].expires
    BY <2>1, <2>2 DEF Counter
  <2> QED BY <1>2, <1>6, <2>1, <2>3 DEF Counter
<1> QED BY <1>2, <1>6, <1>7, <1>8

(* A request that Redis counted is over: the invariant holds again if it   *)
(* was let through only while the new count is within the limit.           *)
LEMMA CountStep ==
    ASSUME IInv, MaxDelay <= 1, NEW p \in Procs, sent[p] # None, TypeOK',
           Count(p), Return(p), now' = now,
           \/ admitted' = admitted
           \/ /\ Counted(Bucket(sent[p])).count <= Limit
              /\ admitted' = [admitted EXCEPT ![Bucket(sent[p])] = @ + 1]
    PROVE  IInv'
<1>0. PICK b \in Buckets : b = Bucket(sent[p])
  BY LateByASecond
<1>1. /\ Counted(b) \in Counter /\ Counted(b) # None
      /\ admitted[b] \in Nat /\ admitted[b] < Counted(b).count
      /\ Counted(b).expires > First(b) + WindowSeconds
  BY <1>0, NotACounter, LateByASecond DEF IInv, TypeOK
<1>2. /\ counters'[b] = Counted(b)
      /\ \A c \in Buckets \ {b} : counters'[c] = counters[c] /\ admitted'[c] = admitted[c]
  BY <1>0 DEF IInv, TypeOK, Count
<1>3. /\ admitted'[b] \in Nat
      /\ admitted'[b] <= Counted(b).count
      /\ admitted'[b] <= Limit
  BY <1>0, <1>1, LimitAssumption, DelayAssumption DEF IInv, TypeOK, BucketBound, Counter
<1>4. OnTheWay'
  BY DEF IInv, TypeOK, OnTheWay, Return
<1>5. CounterOK(b)'
  <2>1. counters'[b] # None /\ admitted'[b] <= counters'[b].count
    BY <1>1, <1>2, <1>3
  <2>2. counters'[b].expires > First(b) + WindowSeconds
    BY <1>1, <1>2
  <2> QED BY <2>1, <2>2 DEF CounterOK, First
<1>6. \A c \in Buckets \ {b} : CounterOK(c)'
  BY <1>2 DEF IInv, CounterOK, First
<1>7. BucketBound'
  BY <1>2, <1>3 DEF IInv, BucketBound, Buckets, Bucket
<1> QED BY <1>4, <1>5, <1>6, <1>7 DEF IInv

LEMMA TickStep == ASSUME IInv, MaxDelay <= 1, Tick, TypeOK' PROVE IInv'
<1>1. now \in Nat /\ now' = now + 1 /\ admitted' = admitted /\ sent' = sent
  BY DEF IInv, TypeOK, Time, Tick
<1>2. OnTheWay'
  <2> SUFFICES ASSUME NEW p \in Procs, sent[p] # None
               PROVE  sent[p] <= now + 1 /\ now + 1 <= sent[p] + MaxDelay
    BY <1>1 DEF OnTheWay
  <2>1. sent[p] \in Nat /\ sent[p] <= now
    BY DEF IInv, TypeOK, OnTheWay, Time
  <2>2. now < sent[p] + MaxDelay
    BY DEF Tick
  <2> QED BY <1>1, <2>1, <2>2, LimitAssumption, DelayAssumption
<1>3. ASSUME NEW b \in Buckets PROVE CounterOK(b)'
  <2>1. First(b) \in Nat /\ First(b)' = First(b) /\ WindowSeconds \in Nat
    BY FirstNat, LimitAssumption, DelayAssumption DEF First
  <2>2. counters'[b] = IF counters[b] # None /\ counters[b].expires <= now + 1
                       THEN None ELSE counters[b]
    BY DEF Tick
  <2>3. CASE counters[b] = None
    BY <1>1, <2>1, <2>2, <2>3 DEF IInv, CounterOK
  <2>4. CASE counters[b] # None
    <3>1. counters[b] \in Counter
      BY <2>4 DEF IInv, TypeOK
    <3>2. CASE counters[b].expires <= now + 1
      BY <1>1, <2>1, <2>2, <2>4, <3>1, <3>2 DEF IInv, CounterOK, Counter
    <3>3. CASE ~(counters[b].expires <= now + 1)
      BY <1>1, <2>1, <2>2, <2>4, <3>3 DEF IInv, CounterOK
    <3> QED BY <3>2, <3>3
  <2> QED BY <2>3, <2>4
<1>4. BucketBound'
  BY <1>1 DEF IInv, BucketBound
<1> QED BY <1>2, <1>3, <1>4 DEF IInv

LEMMA CallStep == ASSUME IInv, NEW p \in Procs, Call(p), TypeOK' PROVE IInv'
<1>1. OnTheWay'
  BY LimitAssumption, DelayAssumption DEF IInv, TypeOK, Time, OnTheWay, Call
<1>2. \A b \in Buckets : CounterOK(b)'
  BY DEF IInv, CounterOK, Call, First
<1> QED BY <1>1, <1>2 DEF IInv, BucketBound, Call

(* A request that Redis never saw, and nothing else. *)
LEMMA LostStep ==
    ASSUME IInv, NEW p \in Procs, Return(p), UNCHANGED <<now, counters, admitted>>, TypeOK'
    PROVE  IInv'
<1>1. OnTheWay'
  BY DEF IInv, TypeOK, OnTheWay, Return
<1>2. \A b \in Buckets : CounterOK(b)'
  BY DEF IInv, CounterOK, First
<1> QED BY <1>1, <1>2 DEF IInv, BucketBound

LEMMA IInvStep == ASSUME IInv, MaxDelay <= 1, [Next]_vars PROVE IInv'
<1>1. TypeOK'
  BY TypeStep DEF IInv
<1>2. CASE Tick
  BY <1>1, <1>2, TickStep
<1>3. ASSUME NEW p \in Procs, Call(p) PROVE IInv'
  BY <1>1, <1>3, CallStep
<1>4. ASSUME NEW p \in Procs, Admit(p) PROVE IInv'
  BY <1>1, <1>4, CountStep DEF Admit
<1>5. ASSUME NEW p \in Procs, Refuse(p) PROVE IInv'
  BY <1>1, <1>5, CountStep DEF Refuse
<1>6. ASSUME NEW p \in Procs, Unavailable(p) PROVE IInv'
  BY <1>1, <1>6, CountStep, LostStep DEF Unavailable
<1>7. CASE UNCHANGED vars
  BY <1>1, <1>7 DEF IInv, OnTheWay, CounterOK, BucketBound, vars, First
<1> QED BY <1>2, <1>3, <1>4, <1>5, <1>6, <1>7 DEF Next

(* With requests at most one second under way, the instances together let  *)
(* no more than the limit through in any bucket: the shared counter of     *)
(* RedisRateLimiter.check is exact as long as it lives.                    *)
THEOREM LimitHolds == ASSUME MaxDelay <= 1 PROVE Spec => []BucketBound
<1>1. Init => IInv
  BY InitIInv
<1>2. IInv /\ [Next]_vars => IInv'
  BY IInvStep
<1>3. IInv => BucketBound
  BY DEF IInv
<1> QED BY <1>1, <1>2, <1>3, PTL DEF Spec

(* The requests under way that will count in bucket b. *)
UnderWay(b) == {p \in Procs : sent[p] # None /\ Bucket(sent[p]) = b}

CountSoFar(b) == IF counters[b] = None THEN 0 ELSE counters[b].count

(* A call is either under way or over, and each counts at most once: the   *)
(* count never runs ahead of the calls.                                    *)
CallsCounted ==
    \A b \in Buckets :
        /\ IsFiniteSet(UnderWay(b))
        /\ CountSoFar(b) + Cardinality(UnderWay(b)) <= calls[b]

LEMMA CountedIsNext ==
    ASSUME TypeOK, NEW b \in Buckets
    PROVE  CountSoFar(b) \in Nat /\ Counted(b).count = CountSoFar(b) + 1
<1>1. CASE counters[b] = None
  BY <1>1 DEF CountSoFar, Counted
<1>2. CASE counters[b] # None
  <2>1. counters[b] \in Counter
    BY <1>2 DEF TypeOK
  <2> QED BY <1>2, <2>1 DEF CountSoFar, Counted, Counter
<1> QED BY <1>1, <1>2

(* One request of bucket c is over, counted or not. *)
LEMMA ReturnCounted ==
    ASSUME TypeOK, CallsCounted, NEW p \in Procs, sent[p] # None, Return(p), calls' = calls,
           Count(p) \/ counters' = counters
    PROVE  CallsCounted'
<1>1. sent \in [Procs -> Time \cup {None}] /\ sent[p] \in Time
  BY DEF TypeOK
<1>2. PICK c \in Buckets : c = Bucket(sent[p])
  BY <1>1, BucketSpan
<1>3. sent' = [sent EXCEPT ![p] = None]
  BY DEF Return
<1>4. UnderWay(c)' = UnderWay(c) \ {p} /\ p \in UnderWay(c)
  BY <1>1, <1>2, <1>3 DEF UnderWay, Bucket
<1>5. \A b \in Buckets : b # c => UnderWay(b)' = UnderWay(b)
  BY <1>1, <1>2, <1>3 DEF UnderWay, Bucket
<1>6. /\ IsFiniteSet(UnderWay(c)')
      /\ Cardinality(UnderWay(c)') = Cardinality(UnderWay(c)) - 1
      /\ Cardinality(UnderWay(c)) \in Nat
  BY <1>4, FS_RemoveElement, FS_CardinalityType DEF CallsCounted
<1>7. CountSoFar(c)' <= CountSoFar(c) + 1 /\ CountSoFar(c) \in Nat /\ CountSoFar(c)' \in Nat
  <2>1. CASE counters' = counters
    BY <2>1, CountedIsNext DEF CountSoFar
  <2>2. CASE Count(p)
    <3>1. counters'[c] = Counted(c)
      BY <1>2, <2>2 DEF TypeOK, Count
    <3>2. Counted(c) \in Counter /\ Counted(c) # None
      BY CountedTyped, NotACounter
    <3> QED BY <3>1, <3>2, CountedIsNext DEF CountSoFar, Counter
  <2> QED BY <2>1, <2>2
<1>8. \A b \in Buckets : b # c => CountSoFar(b)' = CountSoFar(b)
  BY <1>2 DEF TypeOK, Count, CountSoFar
<1>9. calls[c] \in Nat
  BY DEF TypeOK
<1>10. /\ IsFiniteSet(UnderWay(c))'
       /\ (CountSoFar(c) + Cardinality(UnderWay(c)) <= calls[c])'
  <2>1. CountSoFar(c) + Cardinality(UnderWay(c)) <= calls[c]
    BY DEF CallsCounted
  <2> QED BY <1>6, <1>7, <1>9, <2>1
<1>11. ASSUME NEW b \in Buckets, b # c
       PROVE  /\ IsFiniteSet(UnderWay(b))'
              /\ (CountSoFar(b) + Cardinality(UnderWay(b)) <= calls[b])'
  BY <1>5, <1>8, <1>11 DEF CallsCounted
<1> QED BY <1>10, <1>11 DEF CallsCounted, Buckets, Bucket

LEMMA CallCounted ==
    ASSUME TypeOK, CallsCounted, NEW p \in Procs, Call(p)
    PROVE  CallsCounted'
<1>1. PICK c \in Buckets : c = Bucket(now)
  BY BucketSpan DEF TypeOK
<1>2. /\ sent \in [Procs -> Time \cup {None}] /\ now \in Time /\ now # None
      /\ sent[p] = None /\ sent' = [sent EXCEPT ![p] = now]
      /\ calls' = [calls EXCEPT ![c] = @ + 1] /\ counters' = counters
  BY <1>1, LimitAssumption DEF TypeOK, Call, Time
<1>3. UnderWay(c)' = UnderWay(c) \cup {p} /\ p \notin UnderWay(c)
  BY <1>1, <1>2 DEF UnderWay, Bucket
<1>4. \A b \in Buckets : b # c => UnderWay(b)' = UnderWay(b)
  BY <1>1, <1>2 DEF UnderWay, Bucket
<1>5. /\ IsFiniteSet(UnderWay(c)')
      /\ Cardinality(UnderWay(c)') = Cardinality(UnderWay(c)) + 1
      /\ Cardinality(UnderWay(c)) \in Nat
  BY <1>3, FS_AddElement, FS_CardinalityType DEF CallsCounted
<1>6. /\ calls'[c] = calls[c] + 1 /\ calls[c] \in Nat
      /\ \A b \in Buckets : b # c => calls'[b] = calls[b]
  BY <1>2 DEF TypeOK
<1>7. \A b \in Buckets : CountSoFar(b)' = CountSoFar(b) /\ CountSoFar(b) \in Nat
  BY <1>2, CountedIsNext DEF CountSoFar
<1>8. /\ IsFiniteSet(UnderWay(c))'
      /\ (CountSoFar(c) + Cardinality(UnderWay(c)) <= calls[c])'
  <2>1. CountSoFar(c) + Cardinality(UnderWay(c)) <= calls[c]
    BY DEF CallsCounted
  <2> QED BY <1>5, <1>6, <1>7, <2>1
<1>9. ASSUME NEW b \in Buckets, b # c
      PROVE  /\ IsFiniteSet(UnderWay(b))'
             /\ (CountSoFar(b) + Cardinality(UnderWay(b)) <= calls[b])'
  BY <1>4, <1>6, <1>7, <1>9 DEF CallsCounted
<1> QED BY <1>8, <1>9 DEF CallsCounted, Buckets, Bucket

LEMMA CallsCountedStep == TypeOK /\ CallsCounted /\ [Next]_vars => CallsCounted'
<1> SUFFICES ASSUME TypeOK, CallsCounted, [Next]_vars PROVE CallsCounted'
  OBVIOUS
<1>1. CASE Tick
  <2> SUFFICES ASSUME NEW b \in Buckets
               PROVE  /\ IsFiniteSet(UnderWay(b)')
                      /\ CountSoFar(b)' + Cardinality(UnderWay(b)') <= calls'[b]
    BY DEF CallsCounted, Buckets, Bucket
  <2>1. UnderWay(b)' = UnderWay(b) /\ calls' = calls
    BY <1>1 DEF Tick, UnderWay, Bucket
  <2>2. CountSoFar(b)' \in {CountSoFar(b), 0} /\ CountSoFar(b) \in Nat
    BY <1>1, CountedIsNext DEF Tick, CountSoFar
  <2>3. IsFiniteSet(UnderWay(b)) /\ Cardinality(UnderWay(b)) \in Nat
    BY FS_CardinalityType DEF CallsCounted
  <2>4. CountSoFar(b) + Cardinality(UnderWay(b)) <= calls[b] /\ calls[b] \in Nat
    BY DEF CallsCounted, TypeOK
  <2>5. CountSoFar(b)' + Cardinality(UnderWay(b)) <= calls[b]
    BY <2>2, <2>3, <2>4
  <2> QED BY <2>1, <2>3, <2>5
<1>2. ASSUME NEW p \in Procs, Call(p) PROVE CallsCounted'
  BY <1>2, CallCounted
<1>3. ASSUME NEW p \in Procs, Admit(p) \/ Refuse(p) \/ Unavailable(p) PROVE CallsCounted'
  BY <1>3, ReturnCounted DEF Admit, Refuse, Unavailable
<1>4. CASE UNCHANGED vars
  BY <1>4 DEF vars, CallsCounted, UnderWay, CountSoFar, Buckets, Bucket
<1> QED BY <1>1, <1>2, <1>3, <1>4 DEF Next

LEMMA CallsCountedAlways == Spec => [](TypeOK /\ CallsCounted)
<1>1. Init => TypeOK /\ CallsCounted
  <2> SUFFICES ASSUME Init PROVE CallsCounted
    BY InitTyped
  <2>1. \A b \in Buckets : UnderWay(b) = {} /\ CountSoFar(b) = 0 /\ calls[b] = 0
    BY DEF Init, UnderWay, CountSoFar
  <2> QED BY <2>1, FS_EmptySet DEF CallsCounted
<1>2. TypeOK /\ CallsCounted /\ [Next]_vars => (TypeOK /\ CallsCounted)'
  BY TypeStep, CallsCountedStep
<1> QED BY <1>1, <1>2, PTL DEF Spec

(* Nobody is told 429 unless the limit was used up by other calls of the   *)
(* same bucket, however long requests are under way (RedisRateLimiter).    *)
THEOREM RefusalsAreDue == Spec => RefusedOnlyWhenUsedUp
<1> DEFINE Due == \A p \in Procs : Refuse(p) => calls[Bucket(sent[p])] > Limit
<1>1. ASSUME TypeOK, CallsCounted PROVE Due
  <2> SUFFICES ASSUME NEW p \in Procs, Refuse(p) PROVE calls[Bucket(sent[p])] > Limit
    OBVIOUS
  <2>1. sent[p] # None /\ sent[p] \in Time
    BY <1>1 DEF Refuse, TypeOK
  <2>2. PICK b \in Buckets : b = Bucket(sent[p])
    BY <2>1, BucketSpan
  <2>3. CountSoFar(b) + 1 > Limit /\ CountSoFar(b) \in Nat
    BY <1>1, <2>2, CountedIsNext DEF Refuse
  <2>4. p \in UnderWay(b) /\ IsFiniteSet(UnderWay(b))
    BY <1>1, <2>1, <2>2 DEF UnderWay, CallsCounted
  <2>5. Cardinality(UnderWay(b)) \in Nat /\ Cardinality(UnderWay(b)) # 0
    BY <2>4, FS_CardinalityType, FS_EmptySet
  <2>6. CountSoFar(b) + Cardinality(UnderWay(b)) <= calls[b] /\ calls[b] \in Nat
    BY <1>1 DEF CallsCounted, TypeOK
  <2>7. calls[b] > Limit
    BY <2>3, <2>5, <2>6, LimitAssumption
  <2> QED BY <2>2, <2>7
<1>2. TypeOK /\ CallsCounted => [Due]_vars
  BY <1>1
<1> QED BY <1>2, CallsCountedAlways, PTL DEF Spec, RefusedOnlyWhenUsedUp
-----------------------------------------------------------------------------
(* The back end that keeps a deque in memory.                              *)

LEMMA SmallestOf ==
    ASSUME NEW S \in SUBSET Nat, S # {}
    PROVE  \E x \in S : \A y \in S : x <= y
<1>1. PICK x \in S : \A y \in S : ~(<<y, x>> \in OpToRel(<, Nat))
  BY NatLessThanWellFounded, WFMin
<1>2. ASSUME NEW y \in S PROVE x <= y
  <2>1. ~(y < x)
    BY <1>1 DEF OpToRel
  <2> QED BY <2>1
<1> QED BY <1>2

LEMMA WindowTicksType == WindowTicks \in Nat /\ WindowTicks > 0
<1>1. WindowSeconds \in Nat \ {0} /\ TicksPerSecond \in Nat \ {0}
  BY LimitAssumption, ResolutionAssumption
<1>2. WindowSeconds * TicksPerSecond \in Nat /\ WindowSeconds * TicksPerSecond > 0
  BY <1>1, SMT
<1> QED BY <1>2 DEF WindowTicks

Outdated(t) == {i \in DOMAIN events : \A j \in 1..i : events[j] <= t - WindowTicks}

(* The while loop removes the events up to the first one that is within    *)
(* the window.                                                             *)
LEMMA PrunedPrefix ==
    ASSUME events \in Seq(Ticks), NEW t \in Ticks
    PROVE  \E k \in 0..Len(events) :
              /\ Cardinality(Outdated(t)) = k
              /\ \A i \in 1..k : events[i] <= t - WindowTicks
              /\ k < Len(events) => events[k + 1] > t - WindowTicks
<1>1. /\ Len(events) \in Nat /\ DOMAIN events = 1..Len(events)
      /\ \A i \in 1..Len(events) : events[i] \in Ticks
  OBVIOUS
<1>2. t - WindowTicks \in Int /\ Ticks \subseteq Int
  BY WindowTicksType, ResolutionAssumption DEF Ticks
<1> DEFINE keep == {i \in Nat : i \in 1..(Len(events) + 1) /\ i \notin Outdated(t)}
<1>3. keep \in SUBSET Nat /\ Len(events) + 1 \in keep
  BY <1>1 DEF Outdated
<1>4. PICK m \in keep : \A i \in keep : m <= i
  <2> HIDE DEF keep
  <2>1. keep # {}
    BY <1>3
  <2> QED BY <1>3, <2>1, SmallestOf
<1>5. m \in 1..(Len(events) + 1) /\ m \notin Outdated(t)
  OBVIOUS
<1>6. \A i \in 1..(m - 1) : i \in Outdated(t)
  BY <1>1, <1>4, <1>5
<1>7. \A i \in Outdated(t) : i \in 1..(m - 1)
  <2> SUFFICES ASSUME NEW i \in Outdated(t), ~(i \in 1..(m - 1)) PROVE FALSE
    OBVIOUS
  <2>1. i \in 1..Len(events) /\ \A j \in 1..i : events[j] <= t - WindowTicks
    BY <1>1 DEF Outdated
  <2>2. m <= i
    BY <1>1, <1>5, <2>1
  <2>3. m \in 1..Len(events) /\ \A j \in 1..m : events[j] <= t - WindowTicks
    BY <1>1, <1>5, <2>1, <2>2
  <2> QED BY <1>1, <1>5, <2>3 DEF Outdated
<1>8. Outdated(t) = 1..(m - 1)
  BY <1>6, <1>7
<1>9. m - 1 \in 0..Len(events) /\ m - 1 \in Int
  BY <1>1, <1>5
<1>10. Cardinality(Outdated(t)) = m - 1
  <2>1. Cardinality(1..(m - 1)) = m - 1
    BY <1>5, <1>9, FS_Interval
  <2> QED BY <1>8, <2>1
<1>11. \A i \in 1..(m - 1) : events[i] <= t - WindowTicks
  BY <1>1, <1>6, <1>9 DEF Outdated
<1>12. ASSUME m - 1 < Len(events) PROVE events[m] > t - WindowTicks
  <2>1. m \in 1..Len(events)
    BY <1>1, <1>5, <1>12
  <2>2. PICK j \in 1..m : ~(events[j] <= t - WindowTicks)
    BY <1>1, <1>5, <2>1 DEF Outdated
  <2>3. j = m
    BY <1>5, <1>11, <2>2
  <2>4. events[m] \in Int
    BY <1>1, <1>2, <2>1
  <2>5. ~(events[m] <= t - WindowTicks)
    BY <2>2, <2>3
  <2> QED BY <1>2, <2>4, <2>5
<1>13. (m - 1) + 1 = m
  BY <1>5
<1> QED BY <1>9, <1>10, <1>11, <1>12, <1>13

LEMMA PrunedFacts ==
    ASSUME events \in Seq(Ticks), NEW t \in Ticks
    PROVE  /\ Pruned(t) \in Seq(Ticks)
           /\ Len(Pruned(t)) \in Nat /\ Len(Pruned(t)) <= Len(events)
           /\ Len(Pruned(t)) > 0 => Pruned(t)[1] \in Ticks /\ Pruned(t)[1] > t - WindowTicks
           /\ Len(Pruned(t)) = Len(events) => Pruned(t) = events
           /\ Len(events) > 0 /\ events[1] <= t - WindowTicks => Len(Pruned(t)) < Len(events)
           /\ Len(events) > 0 /\ events[1] > t - WindowTicks => Pruned(t) = events
<1>1. PICK k \in 0..Len(events) :
         /\ Cardinality(Outdated(t)) = k
         /\ \A i \in 1..k : events[i] <= t - WindowTicks
         /\ k < Len(events) => events[k + 1] > t - WindowTicks
  BY PrunedPrefix
<1>2. Pruned(t) = SubSeq(events, k + 1, Len(events))
  BY <1>1 DEF Pruned, Outdated
<1>3. /\ Len(events) \in Nat /\ k \in Nat /\ k <= Len(events)
      /\ \A i \in 1..Len(events) : events[i] \in Ticks
      /\ t - WindowTicks \in Int /\ Ticks \subseteq Int
  BY WindowTicksType, ResolutionAssumption DEF Ticks
<1>4. SubSeq(events, k + 1, Len(events)) \in Seq(Ticks)
  BY <1>3
<1>5. Len(SubSeq(events, k + 1, Len(events))) = Len(events) - k
  BY <1>3
<1>6. k < Len(events) => SubSeq(events, k + 1, Len(events))[1] = events[k + 1]
  BY <1>3
<1>7. k = 0 => SubSeq(events, k + 1, Len(events)) = events
  BY <1>3
<1>8. ASSUME Len(events) > 0, events[1] <= t - WindowTicks PROVE k # 0
  <2>0. 1 \in 1..Len(events)
    BY <1>3, <1>8
  <2>1. events[1] \in Int
    BY <1>3, <2>0
  <2>2. k = 0 => events[1] > t - WindowTicks
    BY <1>1, <1>3, <1>8
  <2> QED BY <1>3, <1>8, <2>1, <2>2
<1>9. ASSUME Len(events) > 0, events[1] > t - WindowTicks PROVE k = 0
  <2>0. 1 \in 1..Len(events)
    BY <1>3, <1>9
  <2>1. events[1] \in Int
    BY <1>3, <2>0
  <2>2. k > 0 => events[1] <= t - WindowTicks
    BY <1>1, <1>3
  <2> QED BY <1>3, <1>9, <2>1, <2>2
<1> QED BY <1>1, <1>2, <1>3, <1>4, <1>5, <1>6, <1>7, <1>8, <1>9

(* What a refusal tells. *)
LEMMA RetryAfterFacts ==
    ASSUME NEW t \in Ticks, NEW queue, queue[1] \in Ticks, queue[1] > t - WindowTicks
    PROVE  /\ RetryAfter(t, queue) \in Nat \ {0}
           /\ queue[1] < t + (RetryAfter(t, queue) + 1) * TicksPerSecond - WindowTicks
<1>1. PICK left : left = WindowTicks - (t - queue[1])
  OBVIOUS
<1>2. /\ t \in Nat /\ queue[1] \in Nat /\ WindowTicks \in Nat /\ TicksPerSecond \in Nat \ {0}
      /\ left \in Nat
  BY <1>1, WindowTicksType, ResolutionAssumption DEF Ticks
<1>3. PICK whole : whole = left \div TicksPerSecond
  OBVIOUS
<1>4. whole \in Nat /\ left < (whole + 1) * TicksPerSecond
  BY <1>2, <1>3, SMT
<1>5. PICK s \in Nat : s = RetryAfter(t, queue) /\ s >= 1 /\ s >= whole
  <2>1. RetryAfter(t, queue) = Max({1, whole})
    BY <1>1, <1>3 DEF RetryAfter
  <2>2. \E x \in {1, whole} : \A y \in {1, whole} : x >= y
    BY <1>4
  <2>3. Max({1, whole}) \in {1, whole} /\ \A y \in {1, whole} : Max({1, whole}) >= y
    BY <2>2 DEF Max
  <2> QED BY <1>4, <2>1, <2>3
<1>6. (s + 1) * TicksPerSecond \in Nat /\ (s + 1) * TicksPerSecond >= (whole + 1) * TicksPerSecond
  BY <1>2, <1>4, <1>5, SMT
<1>7. (whole + 1) * TicksPerSecond \in Nat
  BY <1>2, <1>4, SMT
<1>8. queue[1] < t + (s + 1) * TicksPerSecond - WindowTicks
  BY <1>1, <1>2, <1>4, <1>6, <1>7
<1> QED BY <1>5, <1>8

(* Nobody was let in with a later time than p was refused at. *)
Quiet(p) == \A t \in Ticks : t > told[p].at => letIn[t] = 0

(* As long as nobody gets in with a later time, the deque stays what it    *)
(* was when p was refused: full, its first event within the window then,   *)
(* and out of it a second after the time that p was told.                  *)
StillFull(p) ==
    LET at == told[p].at IN
    /\ Len(events) = Limit
    /\ events[1] \in Ticks /\ events[1] > at - WindowTicks
    /\ events[1] < at + (told[p].seconds + 1) * TicksPerSecond - WindowTicks

(* RetrySecondLater says what a later request would find, so it takes what *)
(* the refused one found.                                                  *)
MemoryInv ==
    /\ MemoryTypeOK
    /\ Len(events) <= Limit
    /\ \A p \in Procs : told[p] # None /\ Quiet(p) => StillFull(p)

LEMMA MemoryInvInit == ASSUME MemoryInit PROVE MemoryInv
<1>1. clock \in Ticks /\ events \in Seq(Ticks) /\ Len(events) = 0
  BY ResolutionAssumption DEF MemoryInit, Ticks
<1> QED BY <1>1, LimitAssumption DEF MemoryInit, MemoryInv, MemoryTypeOK

(* The deque and the requests let in are as before, and so are the         *)
(* refusals that are still known, but for the last one.                    *)
LEMMA StillFullKept ==
    ASSUME MemoryInv, NEW p \in Procs, told'[p] = told[p], UNCHANGED <<events, letIn>>
    PROVE  (told[p] # None /\ Quiet(p) => StillFull(p))'
  BY DEF MemoryInv, Quiet, StillFull, Ticks, WindowTicks

LEMMA ArriveStep ==
    ASSUME MemoryInv, NEW p \in Procs, Arrive(p)
    PROVE  MemoryInv'
<1>1. MemoryTypeOK'
  BY DEF MemoryInv, MemoryTypeOK, Arrive, Ticks
<1>2. ASSUME NEW q \in Procs PROVE (told[q] # None /\ Quiet(q) => StillFull(q))'
  <2>1. told'[q] = IF q = p THEN None ELSE told[q]
    BY DEF MemoryInv, MemoryTypeOK, Arrive
  <2> QED BY <2>1, StillFullKept DEF Arrive
<1> QED BY <1>1, <1>2 DEF MemoryInv, Arrive

LEMMA LetInStep ==
    ASSUME MemoryInv, NEW p \in Procs, LetIn(p)
    PROVE  MemoryInv'
<1>1. PICK a \in Ticks : a = arrived[p]
  BY DEF MemoryInv, MemoryTypeOK, LetIn
<1>2. events \in Seq(Ticks) /\ Limit \in Nat \ {0} /\ Ticks \subseteq Nat
  BY LimitAssumption DEF MemoryInv, MemoryTypeOK, Ticks
<1>3. PICK queue : queue = Pruned(a)
  OBVIOUS
<1>4. /\ queue \in Seq(Ticks) /\ Len(queue) \in Nat /\ Len(queue) <= Len(events)
      /\ Len(events) > 0 /\ events[1] > a - WindowTicks => queue = events
  BY <1>2, <1>3, PrunedFacts
<1>5. ~(Len(queue) >= Limit)
  BY <1>1, <1>3 DEF LetIn, Full
<1>6. /\ events' = Append(queue, a) /\ told' = told /\ clock' = clock
      /\ letIn' = [letIn EXCEPT ![a] = @ + 1]
      /\ arrived' = [arrived EXCEPT ![p] = None]
  BY <1>1, <1>3 DEF LetIn
<1>7. events' \in Seq(Ticks) /\ Len(events') <= Limit
  BY <1>2, <1>4, <1>5, <1>6
<1>8. MemoryTypeOK'
  BY <1>6, <1>7 DEF MemoryInv, MemoryTypeOK, Ticks
<1>9. ASSUME NEW q \in Procs, told[q] # None, Quiet(q)' PROVE FALSE
  <2>1. told[q].at \in Nat /\ a \in Nat
    BY <1>9 DEF MemoryInv, MemoryTypeOK, Ticks
  <2>2. letIn \in [Ticks -> Nat] /\ letIn'[a] = letIn[a] + 1 /\ letIn'[a] # 0
    BY <1>6 DEF MemoryInv, MemoryTypeOK
  <2>3. a <= told[q].at
    <3>1. a > told[q].at => letIn'[a] = 0
      BY <1>6, <1>9 DEF Quiet, Ticks
    <3> QED BY <2>1, <2>2, <3>1
  <2>4. Quiet(q)
    <3> SUFFICES ASSUME NEW t \in Ticks, t > told[q].at PROVE letIn[t] = 0
      BY DEF Quiet
    <3>1. t # a
      <4>1. t \in Nat
        BY DEF Ticks
      <4> QED BY <2>1, <2>3, <4>1
    <3>2. letIn'[t] = letIn[t]
      BY <1>6, <2>2, <3>1
    <3> QED BY <1>6, <1>9, <3>2 DEF Quiet, Ticks
  <2>5. StillFull(q)
    BY <1>9, <2>4 DEF MemoryInv
  <2>6. /\ Len(events) = Limit
        /\ events[1] \in Ticks /\ events[1] > told[q].at - WindowTicks
    BY <2>5 DEF StillFull
  <2>7. events[1] > a - WindowTicks
    <3>1. events[1] \in Nat
      BY <1>2, <2>6
    <3> QED BY <2>1, <2>3, <2>6, <3>1, WindowTicksType
  <2>8. queue = events
    BY <1>2, <1>4, <2>6, <2>7
  <2> QED BY <1>2, <1>5, <2>6, <2>8
<1>10. ASSUME NEW q \in Procs PROVE (told[q] # None /\ Quiet(q) => StillFull(q))'
  BY <1>6, <1>9
<1> QED BY <1>7, <1>8, <1>10 DEF MemoryInv

LEMMA TurnAwayStep ==
    ASSUME MemoryInv, NEW p \in Procs, TurnAway(p)
    PROVE  MemoryInv'
<1>1. PICK a \in Ticks : a = arrived[p]
  BY DEF MemoryInv, MemoryTypeOK, TurnAway
<1>2. events \in Seq(Ticks) /\ Len(events) <= Limit /\ Len(events) \in Nat
      /\ Limit \in Nat \ {0} /\ Ticks \subseteq Nat
  BY LimitAssumption DEF MemoryInv, MemoryTypeOK, Ticks
<1>3. PICK queue : queue = Pruned(a)
  OBVIOUS
<1>4. /\ queue \in Seq(Ticks) /\ Len(queue) \in Nat /\ Len(queue) <= Len(events)
      /\ Len(queue) > 0 => queue[1] \in Ticks /\ queue[1] > a - WindowTicks
      /\ Len(queue) = Len(events) => queue = events
  BY <1>2, <1>3, PrunedFacts
<1>5. Len(queue) >= Limit
  BY <1>1, <1>3 DEF TurnAway, Full
<1>6. Len(queue) = Limit /\ queue = events
  BY <1>2, <1>4, <1>5
<1>7. queue[1] \in Ticks /\ queue[1] > a - WindowTicks
  BY <1>2, <1>4, <1>6
<1>8. PICK s \in Nat \ {0} :
         s = RetryAfter(a, queue) /\ queue[1] < a + (s + 1) * TicksPerSecond - WindowTicks
  BY <1>7, RetryAfterFacts
<1>9. PICK refusal : refusal = [at |-> a, seconds |-> s]
  OBVIOUS
<1>10. refusal \in [at : Ticks, seconds : Nat \ {0}] /\ refusal.at = a /\ refusal.seconds = s
  BY <1>9
<1>11. /\ events' = events /\ letIn' = letIn /\ clock' = clock
       /\ told' = [told EXCEPT ![p] = refusal]
       /\ arrived' = [arrived EXCEPT ![p] = None]
  BY <1>1, <1>3, <1>6, <1>8, <1>9 DEF TurnAway
<1>12. MemoryTypeOK'
  BY <1>10, <1>11 DEF MemoryInv, MemoryTypeOK, Ticks
<1>13. ASSUME NEW q \in Procs PROVE (told[q] # None /\ Quiet(q) => StillFull(q))'
  <2>1. CASE q = p
    <3>1. told'[q] = refusal
      BY <1>11, <2>1 DEF MemoryInv, MemoryTypeOK
    <3> QED BY <1>6, <1>7, <1>8, <1>10, <1>11, <3>1 DEF StillFull, Ticks, WindowTicks
  <2>2. CASE q # p
    <3>1. told'[q] = told[q]
      BY <1>11, <2>2 DEF MemoryInv, MemoryTypeOK
    <3> QED BY <1>11, <3>1, StillFullKept
  <2> QED BY <2>1, <2>2
<1> QED BY <1>2, <1>11, <1>12, <1>13 DEF MemoryInv

LEMMA MemoryInvStep == MemoryInv /\ [MemoryNext]_memoryVars => MemoryInv'
<1> SUFFICES ASSUME MemoryInv, [MemoryNext]_memoryVars PROVE MemoryInv'
  OBVIOUS
<1>1. ASSUME clock' \in Ticks, UNCHANGED <<events, arrived, told, letIn>> PROVE MemoryInv'
  <2>1. MemoryTypeOK'
    BY <1>1 DEF MemoryInv, MemoryTypeOK, Ticks
  <2> QED BY <1>1, <2>1, StillFullKept DEF MemoryInv
<1>2. CASE ClockTick
  BY <1>1, <1>2, ResolutionAssumption DEF ClockTick, MemoryInv, MemoryTypeOK, Ticks
<1>3. CASE UNCHANGED memoryVars
  BY <1>1, <1>3 DEF memoryVars, MemoryInv, MemoryTypeOK
<1> QED BY <1>2, <1>3, ArriveStep, LetInStep, TurnAwayStep DEF MemoryNext

LEMMA MemoryInvAlways == MemorySpec => []MemoryInv
  BY MemoryInvInit, MemoryInvStep, PTL DEF MemorySpec

(* The variables of MemoryRateLimit keep their types: above all, what the  *)
(* while loop leaves is a deque, and retry_after is at least 1.            *)
THEOREM MemoryTypes == MemorySpec => []MemoryTypeOK
<1>1. MemoryInv => MemoryTypeOK
  BY DEF MemoryInv
<1> QED BY <1>1, MemoryInvAlways, PTL

(* A client that waits one second more than it was told, while nobody else *)
(* gets in, gets in: the fraction that int() cuts off in                   *)
(* InMemoryRateLimiter.check is all that retry_after is short of.          *)
THEOREM RetryASecondLater == MemorySpec => []RetrySecondLater
<1>1. ASSUME MemoryInv PROVE RetrySecondLater
  <2> SUFFICES ASSUME NEW p \in Procs, told[p] # None, Quiet(p),
                      clock >= told[p].at + (told[p].seconds + 1) * TicksPerSecond
               PROVE  ~Full(Pruned(clock))
    BY DEF RetrySecondLater, Quiet
  <2>1. StillFull(p) /\ clock \in Ticks /\ events \in Seq(Ticks) /\ Len(events) <= Limit
    BY <1>1 DEF MemoryInv, MemoryTypeOK
  <2>2. told[p].at \in Nat /\ told[p].seconds \in Nat /\ clock \in Nat
    BY <1>1 DEF MemoryInv, MemoryTypeOK, Ticks
  <2>3. (told[p].seconds + 1) * TicksPerSecond \in Nat
    BY <2>2, ResolutionAssumption, SMT
  <2>4. /\ Len(events) = Limit /\ Limit \in Nat \ {0} /\ events[1] \in Nat
        /\ events[1] < told[p].at + (told[p].seconds + 1) * TicksPerSecond - WindowTicks
    BY <2>1, LimitAssumption DEF StillFull, Ticks
  <2>5. events[1] <= clock - WindowTicks
    BY <2>2, <2>3, <2>4, WindowTicksType
  <2>6. Len(Pruned(clock)) < Len(events) /\ Len(Pruned(clock)) \in Nat
    BY <2>1, <2>4, <2>5, PrunedFacts
  <2> QED BY <2>4, <2>6 DEF Full
<1> QED BY <1>1, MemoryInvAlways, PTL
-----------------------------------------------------------------------------
(* How many requests the deque lets through, and whom it keeps out.        *)

(* What the while loop leaves is the deque behind its first k events, all  *)
(* of them out of the window, and none out of it is left in front.         *)
LEMMA PrunedShape ==
    ASSUME events \in Seq(Ticks), NEW t \in Ticks
    PROVE  \E k \in 0..Len(events) :
              /\ Pruned(t) \in Seq(Ticks) /\ Len(Pruned(t)) = Len(events) - k
              /\ \A i \in 1..(Len(events) - k) : Pruned(t)[i] = events[k + i]
              /\ \A i \in 1..k : events[i] <= t - WindowTicks
              /\ k < Len(events) => events[k + 1] > t - WindowTicks
<1>1. PICK k \in 0..Len(events) :
         /\ Cardinality(Outdated(t)) = k
         /\ \A i \in 1..k : events[i] <= t - WindowTicks
         /\ k < Len(events) => events[k + 1] > t - WindowTicks
  BY PrunedPrefix
<1>2. Pruned(t) = SubSeq(events, k + 1, Len(events))
  BY <1>1 DEF Pruned, Outdated
<1>3. Len(events) \in Nat /\ k \in Nat /\ k <= Len(events)
  OBVIOUS
<1>4. /\ SubSeq(events, k + 1, Len(events)) \in Seq(Ticks)
      /\ Len(SubSeq(events, k + 1, Len(events))) = Len(events) - k
  BY <1>3
<1>5. ASSUME NEW i \in 1..(Len(events) - k)
      PROVE  SubSeq(events, k + 1, Len(events))[i] = events[k + i]
  BY <1>3
<1> QED BY <1>1, <1>2, <1>4, <1>5

(* A request let in at a counts in the windows that a lies in.             *)
LEMMA OneMore ==
    ASSUME MemoryTypeOK, NEW a \in Ticks, letIn' = [letIn EXCEPT ![a] = @ + 1],
           NEW x \in Ticks, IsFiniteSet(InWindow(x))
    PROVE  /\ IsFiniteSet(InWindow(x))'
           /\ x - WindowTicks < a /\ a <= x => LetInUpTo(x)' = LetInUpTo(x) + 1
           /\ ~(x - WindowTicks < a /\ a <= x) => LetInUpTo(x)' = LetInUpTo(x)
<1>1. /\ letIn \in [Ticks -> Nat] /\ letIn'[a] = letIn[a] + 1
      /\ \A s \in Ticks : s # a => letIn'[s] = letIn[s]
  BY DEF MemoryTypeOK
<1> DEFINE window == {r \in Ticks : x - WindowTicks < r /\ r <= x}
<1>2. /\ InWindow(x) = UNION {{s} \X (1..letIn[s]) : s \in window}
      /\ InWindow(x)' = UNION {{s} \X (1..letIn'[s]) : s \in window}
  BY DEF InWindow, Ticks, WindowTicks
<1>3. window \subseteq Ticks /\ (a \in window <=> x - WindowTicks < a /\ a <= x)
  OBVIOUS
<1> HIDE DEF window
<1>4. CASE a \notin window
  <2>1. \A s \in window : letIn'[s] = letIn[s]
    BY <1>1, <1>3, <1>4
  <2>2. InWindow(x)' = InWindow(x)
    BY <1>2, <2>1
  <2> QED BY <1>3, <1>4, <2>2 DEF LetInUpTo
<1>5. CASE a \in window
  <2>1. 1..letIn'[a] = (1..letIn[a]) \cup {letIn[a] + 1}
    BY <1>1
  <2>2. InWindow(x)' \subseteq InWindow(x) \cup {<<a, letIn[a] + 1>>}
    <3> SUFFICES ASSUME NEW e \in InWindow(x)', e # <<a, letIn[a] + 1>>
                 PROVE  e \in InWindow(x)
      OBVIOUS
    <3>1. PICK s \in window : e \in {s} \X (1..letIn'[s])
      BY <1>2
    <3>2. e \in {s} \X (1..letIn[s])
      BY <1>1, <1>3, <2>1, <3>1
    <3> QED BY <1>2, <3>2
  <2>3. InWindow(x) \subseteq InWindow(x)'
    <3> SUFFICES ASSUME NEW e \in InWindow(x) PROVE e \in InWindow(x)'
      OBVIOUS
    <3>1. PICK s \in window : e \in {s} \X (1..letIn[s])
      BY <1>2
    <3>2. e \in {s} \X (1..letIn'[s])
      BY <1>1, <1>3, <2>1, <3>1
    <3> QED BY <1>2, <3>2
  <2>4. <<a, letIn[a] + 1>> \in InWindow(x)'
    <3>1. <<a, letIn[a] + 1>> \in {a} \X (1..letIn'[a])
      BY <2>1
    <3> QED BY <1>2, <1>5, <3>1
  <2>5. <<a, letIn[a] + 1>> \notin InWindow(x)
    <3> SUFFICES ASSUME NEW s \in window, <<a, letIn[a] + 1>> \in {s} \X (1..letIn[s])
                 PROVE  FALSE
      BY <1>2
    <3>1. letIn[a] + 1 \in 1..letIn[a] /\ letIn[a] \in Nat
      BY <1>1
    <3> QED BY <3>1
  <2>6. InWindow(x)' = InWindow(x) \cup {<<a, letIn[a] + 1>>}
    BY <2>2, <2>3, <2>4
  <2>7. IsFiniteSet(InWindow(x)') /\ Cardinality(InWindow(x)') = Cardinality(InWindow(x)) + 1
    BY <2>5, <2>6, FS_AddElement
  <2> QED BY <1>3, <1>5, <2>7 DEF LetInUpTo
<1> QED BY <1>4, <1>5

(* The threads that may still bring a request of a time up to x.           *)
Pending(x) == {p \in Procs : arrived[p] # None /\ arrived[p] <= x}

(* No thread came with a later time than x: every request of the window    *)
(* that ends at x is still in the deque, behind what is out of it.         *)
AllKept(x) ==
    \A k \in 0..Len(events) :
        (\A i \in 1..k : events[i] <= x - WindowTicks) => LetInUpTo(x) + k <= Len(events)

(* A thread came with a later time than x, when the deque held no more     *)
(* than Limit; what may come in at x from then on is on its way.           *)
Overtaken(x) ==
    /\ clock > x
    /\ LetInUpTo(x) + Cardinality(Pending(x)) <= Limit + Cardinality(Procs) - 1

(* ExcessBound speaks of every window, and of none whether the deque still *)
(* knows it.                                                               *)
ExcessInv ==
    /\ \A p \in Procs : arrived[p] # None => arrived[p] <= clock
    /\ \A x \in Ticks : IsFiniteSet(InWindow(x)) /\ (AllKept(x) \/ Overtaken(x))

LEMMA ThreadsCounted ==
    /\ Cardinality(Procs) \in Nat
    /\ \A x : IsFiniteSet(Pending(x)) /\ Cardinality(Pending(x)) \in Nat
<1>1. \A x : Pending(x) \in SUBSET Procs
  BY DEF Pending
<1> QED BY <1>1, ThreadsAssumption, FS_Subset, FS_CardinalityType

LEMMA ExcessInvInit == ASSUME MemoryInit PROVE ExcessInv
<1>1. /\ Len(events) = 0 /\ \A p \in Procs : arrived[p] = None
      /\ \A t \in Ticks : letIn[t] = 0
  BY DEF MemoryInit
<1>2. ASSUME NEW x \in Ticks PROVE InWindow(x) = {}
  BY <1>1 DEF InWindow
<1>3. ASSUME NEW x \in Ticks PROVE IsFiniteSet(InWindow(x)) /\ AllKept(x)
  BY <1>1, <1>2, FS_EmptySet DEF AllKept, LetInUpTo
<1> QED BY <1>1, <1>3 DEF ExcessInv

(* A thread gets the lock: the deque is pruned for its time, and takes its *)
(* request or not.  What is said of the window that ends at x follows from *)
(* what was, whichever of the two it was.                                  *)
LEMMA LockStep ==
    ASSUME MemoryInv, ExcessInv, NEW p \in Procs, LetIn(p) \/ TurnAway(p), NEW x \in Ticks
    PROVE  IsFiniteSet(InWindow(x))' /\ (AllKept(x)' \/ Overtaken(x)')
<1>1. PICK a \in Ticks : a = arrived[p]
  BY DEF MemoryInv, MemoryTypeOK, LetIn, TurnAway
<1>2. /\ events \in Seq(Ticks) /\ Len(events) <= Limit /\ Len(events) \in Nat
      /\ Limit \in Nat \ {0} /\ Ticks \subseteq Nat /\ WindowTicks \in Nat
      /\ clock \in Ticks /\ arrived \in [Procs -> Ticks \cup {None}] /\ a # None /\ a <= clock
  BY <1>1, LimitAssumption, WindowTicksType DEF MemoryInv, MemoryTypeOK, ExcessInv, Ticks
<1>3. PICK queue : queue = Pruned(a)
  OBVIOUS
<1>4. PICK k0 \in 0..Len(events) :
         /\ queue \in Seq(Ticks) /\ Len(queue) = Len(events) - k0
         /\ \A i \in 1..(Len(events) - k0) : queue[i] = events[k0 + i]
         /\ \A i \in 1..k0 : events[i] <= a - WindowTicks
  BY <1>2, <1>3, PrunedShape
<1>5. /\ clock' = clock /\ arrived' = [arrived EXCEPT ![p] = None]
      /\ \/ events' = queue /\ letIn' = letIn
         \/ events' = Append(queue, a) /\ letIn' = [letIn EXCEPT ![a] = @ + 1]
  BY <1>1, <1>3 DEF LetIn, TurnAway
<1> DEFINE inside == x - WindowTicks < a /\ a <= x
<1>6. /\ IsFiniteSet(InWindow(x))'
      /\ LetInUpTo(x) \in Nat
      /\ letIn' = letIn => LetInUpTo(x)' = LetInUpTo(x)
      /\ letIn' = [letIn EXCEPT ![a] = @ + 1] =>
            LetInUpTo(x)' = IF inside THEN LetInUpTo(x) + 1 ELSE LetInUpTo(x)
  <2>1. IsFiniteSet(InWindow(x)) /\ MemoryTypeOK
    BY DEF ExcessInv, MemoryInv
  <2>2. LetInUpTo(x) \in Nat
    BY <2>1, FS_CardinalityType DEF LetInUpTo
  <2>3. CASE letIn' = letIn
    <3>1. InWindow(x)' = InWindow(x)
      BY <2>3 DEF InWindow, Ticks, WindowTicks
    <3>2. letIn' # [letIn EXCEPT ![a] = @ + 1]
      BY <2>1, <2>3 DEF MemoryTypeOK
    <3> QED BY <2>1, <2>2, <3>1, <3>2 DEF LetInUpTo
  <2>4. CASE letIn' = [letIn EXCEPT ![a] = @ + 1]
    <3>1. letIn' # letIn
      BY <2>1, <2>4 DEF MemoryTypeOK
    <3> QED BY <2>1, <2>2, <2>4, <3>1, OneMore
  <2> QED BY <1>5, <2>3, <2>4
<1>7. \A q \in Procs : arrived'[q] = IF q = p THEN None ELSE arrived[q]
  BY <1>2, <1>5
<1>8. Pending(x)' = Pending(x) \ {p}
  BY <1>7 DEF Pending
<1>9. /\ IsFiniteSet(Pending(x)) /\ Cardinality(Pending(x)) \in Nat
      /\ Cardinality(Pending(x))' \in Nat /\ Cardinality(Procs) \in Nat
      /\ a <= x => Cardinality(Pending(x))' = Cardinality(Pending(x)) - 1
      /\ Cardinality(Pending(x))' <= Cardinality(Pending(x))
      /\ Cardinality(Pending(x))' <= Cardinality(Procs) - 1
  <2>1. a <= x => p \in Pending(x)
    BY <1>1, <1>2 DEF Pending
  <2>2. IsFiniteSet(Procs \ {p}) /\ Cardinality(Procs \ {p}) = Cardinality(Procs) - 1
    BY ThreadsAssumption, FS_RemoveElement
  <2>3. Pending(x)' \in SUBSET (Procs \ {p})
    BY <1>8 DEF Pending
  <2>4. /\ IsFiniteSet(Pending(x)') /\ Cardinality(Pending(x)') <= Cardinality(Procs) - 1
        /\ Cardinality(Pending(x)') \in Nat
    BY <2>2, <2>3, FS_Subset, FS_CardinalityType
  <2>5. Cardinality(Pending(x)') = IF p \in Pending(x) THEN Cardinality(Pending(x)) - 1
                                   ELSE Cardinality(Pending(x))
    BY <1>8, ThreadsCounted, FS_RemoveElement
  <2> QED BY <2>1, <2>4, <2>5, ThreadsCounted
<1>10. CASE Overtaken(x)
  <2>1. /\ clock > x
        /\ LetInUpTo(x) + Cardinality(Pending(x)) <= Limit + Cardinality(Procs) - 1
    BY <1>10 DEF Overtaken
  <2>2. LetInUpTo(x)' + Cardinality(Pending(x))' <= LetInUpTo(x) + Cardinality(Pending(x))
    BY <1>5, <1>6, <1>9
  <2>3. LetInUpTo(x)' \in Nat
    BY <1>5, <1>6
  <2>4. /\ clock' > x
        /\ LetInUpTo(x)' + Cardinality(Pending(x))' <= Limit + Cardinality(Procs) - 1
    BY <1>2, <1>5, <1>6, <1>9, <2>1, <2>2, <2>3
  <2> QED BY <1>6, <2>4 DEF Overtaken
<1>11. CASE AllKept(x) /\ a > x
  <2>1. LetInUpTo(x) <= Len(events)
    <3>1. LetInUpTo(x) + 0 <= Len(events)
      BY <1>2, <1>11 DEF AllKept
    <3> QED BY <1>6, <3>1
  <2>2. LetInUpTo(x)' = LetInUpTo(x)
    <3>1. ~(a <= x)
      BY <1>2, <1>11
    <3> QED BY <1>5, <1>6, <3>1
  <2>3. clock > x
    BY <1>2, <1>11
  <2>4. LetInUpTo(x)' + Cardinality(Pending(x))' <= Limit + Cardinality(Procs) - 1
    BY <1>2, <1>6, <1>9, <2>1, <2>2
  <2> QED BY <1>5, <1>6, <2>3, <2>4 DEF Overtaken
<1>12. CASE AllKept(x) /\ a <= x
  <2>0. /\ Len(queue) \in Nat /\ k0 \in Nat
        /\ \A i \in 1..Len(events) : events[i] \in Nat
        /\ \A i \in 1..Len(queue) : queue[i] \in Nat
    <3>1. Len(queue) \in Nat /\ k0 \in Nat
      BY <1>2, <1>4
    <3>2. /\ \A i \in 1..Len(events) : events[i] \in Ticks
          /\ \A i \in 1..Len(queue) : queue[i] \in Ticks
      BY <1>2, <1>4
    <3> QED BY <1>2, <3>1, <3>2
  <2>1. ASSUME NEW k \in 0..Len(queue), \A i \in 1..k : queue[i] <= x - WindowTicks
        PROVE  LetInUpTo(x) + k <= Len(queue)
    <3>1. ASSUME NEW i \in 1..(k0 + k) PROVE events[i] <= x - WindowTicks
      <4>1. CASE i <= k0
        <5>1. events[i] <= a - WindowTicks /\ events[i] \in Nat
          BY <1>4, <2>0, <4>1
        <5> QED BY <1>2, <1>12, <5>1
      <4>2. CASE i > k0
        <5>1. i - k0 \in 1..k /\ i - k0 \in 1..(Len(events) - k0) /\ k0 + (i - k0) = i
          BY <1>4, <2>0, <4>2
        <5>2. queue[i - k0] <= x - WindowTicks /\ queue[i - k0] = events[i]
          BY <1>4, <2>1, <5>1
        <5> QED BY <5>2
      <4> QED BY <2>0, <4>1, <4>2
    <3>2. k0 + k \in 0..Len(events)
      BY <1>2, <1>4, <2>0
    <3>3. LetInUpTo(x) + (k0 + k) <= Len(events)
      BY <1>12, <3>1, <3>2 DEF AllKept
    <3> QED BY <1>2, <1>4, <1>6, <2>0, <3>3
  <2>2. CASE events' = queue /\ letIn' = letIn
    BY <1>6, <2>1, <2>2 DEF AllKept
  <2>3. CASE events' = Append(queue, a) /\ letIn' = [letIn EXCEPT ![a] = @ + 1]
    <3>1. /\ Len(events') = Len(queue) + 1 /\ events'[Len(queue) + 1] = a
          /\ \A i \in 1..Len(queue) : events'[i] = queue[i]
      BY <1>4, <2>0, <2>3
    <3>2. LetInUpTo(x)' = IF inside THEN LetInUpTo(x) + 1 ELSE LetInUpTo(x)
      BY <1>6, <2>3
    <3>3. ASSUME NEW k \in 0..Len(events'), \A i \in 1..k : events'[i] <= x - WindowTicks
          PROVE  LetInUpTo(x)' + k <= Len(events')
      <4>1. CASE k <= Len(queue)
        <5>1. k \in 0..Len(queue) /\ \A i \in 1..k : queue[i] <= x - WindowTicks
          BY <2>0, <3>1, <3>3, <4>1
        <5>2. LetInUpTo(x) + k <= Len(queue)
          BY <2>1, <5>1
        <5> QED BY <1>6, <2>0, <3>1, <3>2, <5>1, <5>2
      <4>2. CASE k = Len(queue) + 1
        <5>1. a <= x - WindowTicks
          BY <2>0, <3>1, <3>3, <4>2
        <5>2. LetInUpTo(x)' = LetInUpTo(x)
          BY <1>2, <3>2, <5>1
        <5>3. \A i \in 1..Len(queue) : queue[i] <= x - WindowTicks
          BY <2>0, <3>1, <3>3, <4>2
        <5>4. LetInUpTo(x) + Len(queue) <= Len(queue)
          BY <2>0, <2>1, <5>3
        <5> QED BY <1>6, <2>0, <3>1, <4>2, <5>2, <5>4
      <4> QED BY <2>0, <3>1, <4>1, <4>2
    <3>4. AllKept(x)'
      BY <3>3 DEF AllKept, WindowTicks
    <3> QED BY <1>6, <3>4
  <2> QED BY <1>5, <2>2, <2>3
<1> QED
  <2>1. AllKept(x) \/ Overtaken(x)
    BY DEF ExcessInv
  <2>2. a > x \/ a <= x
    BY <1>2
  <2> QED BY <1>10, <1>11, <1>12, <2>1, <2>2

(* A thread that arrives, or the clock: nobody is let in, and a thread     *)
(* that arrives at x or before does so when the clock is not past x.       *)
LEMMA NoLockStep ==
    ASSUME MemoryInv, ExcessInv, NEW x \in Ticks,
           ClockTick \/ (\E p \in Procs : Arrive(p)) \/ UNCHANGED memoryVars
    PROVE  IsFiniteSet(InWindow(x))' /\ (AllKept(x)' \/ Overtaken(x)')
<1>1. UNCHANGED <<events, letIn>> /\ clock' \in Nat /\ clock' >= clock
  BY DEF ClockTick, Arrive, memoryVars, MemoryInv, MemoryTypeOK, Ticks
<1>2. InWindow(x)' = InWindow(x)
  BY <1>1 DEF InWindow, Ticks, WindowTicks
<1>3. IsFiniteSet(InWindow(x))' /\ LetInUpTo(x)' = LetInUpTo(x)
  BY <1>2 DEF ExcessInv, LetInUpTo
<1>4. CASE AllKept(x)
  BY <1>1, <1>3, <1>4 DEF AllKept, WindowTicks
<1>5. CASE Overtaken(x)
  <2>1. clock > x /\ clock' > x
    BY <1>1, <1>5 DEF Overtaken, MemoryInv, MemoryTypeOK, Ticks
  <2>2. Pending(x)' = Pending(x)
    <3>1. CASE UNCHANGED arrived
      BY <3>1 DEF Pending
    <3>2. CASE \E p \in Procs : Arrive(p)
      <4>1. PICK p \in Procs : Arrive(p)
        BY <3>2
      <4>2. \A q \in Procs : arrived'[q] = IF q = p THEN clock ELSE arrived[q]
        BY <4>1 DEF Arrive, MemoryInv, MemoryTypeOK
      <4>3. arrived[p] = None /\ ~(clock <= x)
        BY <2>1, <4>1 DEF Arrive, MemoryInv, MemoryTypeOK, Ticks
      <4> QED BY <4>2, <4>3 DEF Pending
    <3> QED BY <3>1, <3>2 DEF ClockTick, memoryVars
  <2> QED BY <1>3, <1>5, <2>1, <2>2 DEF Overtaken
<1> QED BY <1>3, <1>4, <1>5 DEF ExcessInv

LEMMA ExcessInvStep ==
    MemoryInv /\ ExcessInv /\ [MemoryNext]_memoryVars => ExcessInv'
<1> SUFFICES ASSUME MemoryInv, ExcessInv, [MemoryNext]_memoryVars PROVE ExcessInv'
  OBVIOUS
<1>1. ASSUME NEW p \in Procs, arrived'[p] # None PROVE arrived'[p] <= clock'
  <2>1. /\ arrived \in [Procs -> Ticks \cup {None}] /\ clock \in Ticks /\ Ticks \subseteq Nat
        /\ arrived[p] # None => arrived[p] <= clock
    BY DEF MemoryInv, MemoryTypeOK, ExcessInv, Ticks
  <2>2. arrived'[p] = clock \/ arrived'[p] = arrived[p]
    BY <1>1, <2>1 DEF MemoryNext, ClockTick, Arrive, LetIn, TurnAway, memoryVars
  <2>3. clock' \in Nat /\ clock' >= clock
    BY <2>1 DEF MemoryNext, ClockTick, Arrive, LetIn, TurnAway, memoryVars
  <2>4. CASE arrived'[p] = clock
    BY <2>1, <2>3, <2>4
  <2>5. CASE arrived'[p] = arrived[p]
    <3>1. arrived[p] \in Nat /\ clock \in Nat /\ arrived[p] <= clock
      BY <1>1, <2>1, <2>5
    <3> QED BY <2>3, <2>5, <3>1
  <2> QED BY <2>2, <2>4, <2>5
<1>2. ASSUME NEW x \in Ticks
      PROVE  IsFiniteSet(InWindow(x))' /\ (AllKept(x)' \/ Overtaken(x)')
  BY <1>2, LockStep, NoLockStep DEF MemoryNext
<1> QED BY <1>1, <1>2 DEF ExcessInv, Ticks

(* The excess of InMemoryRateLimiter over its limit, in any window, is at  *)
(* most one request per further thread, in whatever order the threads read *)
(* the clock and get the lock.                                             *)
THEOREM ExcessIsBounded == MemorySpec => []ExcessBound
<1>1. ASSUME MemoryInv, ExcessInv PROVE ExcessBound
  <2> SUFFICES ASSUME NEW x \in Ticks
               PROVE  LetInUpTo(x) <= Limit + Cardinality(Procs) - 1
    BY DEF ExcessBound
  <2>1. /\ LetInUpTo(x) \in Nat /\ Limit \in Nat /\ Len(events) \in Nat
        /\ Len(events) <= Limit /\ Cardinality(Procs) \in Nat
        /\ Cardinality(Pending(x)) \in Nat
    BY <1>1, ThreadsCounted, LimitAssumption, FS_CardinalityType
       DEF ExcessInv, LetInUpTo, MemoryInv, MemoryTypeOK
  <2>2. Cardinality(Procs) >= 1
    BY <2>1, ThreadsAssumption, FS_EmptySet
  <2>3. AllKept(x) => LetInUpTo(x) + 0 <= Len(events)
    BY <2>1 DEF AllKept
  <2>4. Overtaken(x) =>
           LetInUpTo(x) + Cardinality(Pending(x)) <= Limit + Cardinality(Procs) - 1
    BY DEF Overtaken
  <2>5. AllKept(x) \/ Overtaken(x)
    BY <1>1 DEF ExcessInv
  <2> QED BY <2>1, <2>2, <2>3, <2>4, <2>5
<1> QED BY <1>1, ExcessInvInit, ExcessInvStep, MemoryInvAlways, PTL DEF MemorySpec

(* Every event of the deque is a request let in of its own.                *)
Recorded ==
    \E nth \in [1..Len(events) -> Nat \ {0}] :
        /\ \A i \in 1..Len(events) : nth[i] <= letIn[events[i]]
        /\ \A i, j \in 1..Len(events) :
              i # j /\ events[i] = events[j] => nth[i] # nth[j]

LEMMA RecordedLock ==
    ASSUME MemoryInv, Recorded, NEW p \in Procs, LetIn(p) \/ TurnAway(p)
    PROVE  Recorded'
<1>1. PICK a \in Ticks : a = arrived[p]
  BY DEF MemoryInv, MemoryTypeOK, LetIn, TurnAway
<1>2. /\ events \in Seq(Ticks) /\ Len(events) \in Nat /\ letIn \in [Ticks -> Nat]
      /\ \A i \in 1..Len(events) : events[i] \in Ticks
  BY DEF MemoryInv, MemoryTypeOK
<1>3. PICK queue : queue = Pruned(a)
  OBVIOUS
<1>4. PICK k0 \in 0..Len(events) :
         /\ queue \in Seq(Ticks) /\ Len(queue) = Len(events) - k0
         /\ \A i \in 1..(Len(events) - k0) : queue[i] = events[k0 + i]
  BY <1>2, <1>3, PrunedShape
<1>5. /\ Len(queue) \in Nat /\ k0 \in Nat
      /\ \A i \in 1..Len(queue) : queue[i] \in Ticks /\ k0 + i \in 1..Len(events)
  BY <1>2, <1>4
<1>6. PICK nth \in [1..Len(events) -> Nat \ {0}] :
         /\ \A i \in 1..Len(events) : nth[i] <= letIn[events[i]]
         /\ \A i, j \in 1..Len(events) :
               i # j /\ events[i] = events[j] => nth[i] # nth[j]
  BY DEF Recorded
<1>7. ASSUME NEW i \in 1..Len(queue)
      PROVE  /\ queue[i] \in Ticks /\ nth[k0 + i] \in Nat \ {0}
             /\ nth[k0 + i] <= letIn[queue[i]] /\ letIn[queue[i]] \in Nat
             /\ \A j \in 1..Len(queue) :
                   i # j /\ queue[i] = queue[j] => nth[k0 + i] # nth[k0 + j]
  <2>1. k0 + i \in 1..Len(events) /\ queue[i] = events[k0 + i] /\ queue[i] \in Ticks
    BY <1>4, <1>5
  <2>2. ASSUME NEW j \in 1..Len(queue), i # j, queue[i] = queue[j]
        PROVE  nth[k0 + i] # nth[k0 + j]
    <3>1. k0 + j \in 1..Len(events) /\ queue[j] = events[k0 + j] /\ k0 + i # k0 + j
      BY <1>4, <1>5, <2>2
    <3> QED BY <1>6, <2>1, <2>2, <3>1
  <2>3. nth[k0 + i] \in Nat \ {0} /\ nth[k0 + i] <= letIn[queue[i]]
    BY <1>6, <2>1
  <2>4. letIn[queue[i]] \in Nat
    BY <1>2, <2>1
  <2> QED BY <2>1, <2>2, <2>3, <2>4
<1>8. CASE events' = queue /\ letIn' = letIn
  <2> DEFINE kept == [i \in 1..Len(queue) |-> nth[k0 + i]]
  <2>1. kept \in [1..Len(events') -> Nat \ {0}]
    BY <1>7, <1>8
  <2>2. /\ \A i \in 1..Len(events') : kept[i] <= letIn'[events'[i]]
        /\ \A i, j \in 1..Len(events') :
              i # j /\ events'[i] = events'[j] => kept[i] # kept[j]
    BY <1>7, <1>8
  <2> HIDE DEF kept
  <2> QED BY <2>1, <2>2 DEF Recorded
<1>9. CASE events' = Append(queue, a) /\ letIn' = [letIn EXCEPT ![a] = @ + 1]
  <2> DEFINE n == Len(queue) + 1
             grown == [i \in 1..n |-> IF i = n THEN letIn[a] + 1 ELSE nth[k0 + i]]
  <2>1. /\ Len(events') = n /\ events'[n] = a
        /\ \A i \in 1..Len(queue) : events'[i] = queue[i]
    BY <1>4, <1>5, <1>9
  <2>2. \A i \in 1..n : i = n \/ (i \in 1..Len(queue) /\ i # n)
    BY <1>5
  <2>3. n \in 1..n
    BY <1>5
  <2>4. /\ letIn[a] \in Nat /\ letIn'[a] = letIn[a] + 1
        /\ \A t \in Ticks : letIn'[t] >= letIn[t] /\ letIn'[t] \in Nat
    BY <1>2, <1>9
  <2> HIDE DEF n
  <2>5. grown \in [1..n -> Nat \ {0}]
    <3> SUFFICES ASSUME NEW i \in 1..n
                 PROVE  (IF i = n THEN letIn[a] + 1 ELSE nth[k0 + i]) \in Nat \ {0}
      OBVIOUS
    <3> QED BY <1>7, <2>2, <2>4
  <2>6. /\ grown[n] = letIn[a] + 1
        /\ \A i \in 1..Len(queue) : i \in 1..n => i = n \/ grown[i] = nth[k0 + i]
    BY <2>3
  <2>7. ASSUME NEW i \in 1..n PROVE grown[i] <= letIn'[events'[i]]
    <3>1. CASE i = n
      BY <2>1, <2>4, <2>6, <3>1
    <3>2. CASE i \in 1..Len(queue) /\ i # n
      <4>1. grown[i] = nth[k0 + i] /\ events'[i] = queue[i]
        BY <2>1, <2>6, <3>2
      <4>2. /\ nth[k0 + i] \in Nat /\ nth[k0 + i] <= letIn[queue[i]]
            /\ letIn[queue[i]] \in Nat /\ queue[i] \in Ticks
        BY <1>7, <3>2
      <4>3. letIn'[queue[i]] \in Nat /\ letIn'[queue[i]] >= letIn[queue[i]]
        BY <2>4, <4>2
      <4> QED BY <4>1, <4>2, <4>3
    <3> QED BY <2>2, <3>1, <3>2
  <2>8. ASSUME NEW i \in 1..n, i # n, events'[i] = a PROVE grown[i] # grown[n]
    <3>1. i \in 1..Len(queue) /\ grown[i] = nth[k0 + i] /\ queue[i] = a
      BY <2>1, <2>2, <2>6, <2>8
    <3>2. nth[k0 + i] \in Nat /\ nth[k0 + i] <= letIn[a]
      BY <1>7, <3>1
    <3> QED BY <2>4, <2>6, <3>1, <3>2
  <2>9. ASSUME NEW i \in 1..n, NEW j \in 1..n, i # j, events'[i] = events'[j]
        PROVE  grown[i] # grown[j]
    <3>1. CASE i = n
      BY <2>1, <2>8, <2>9, <3>1
    <3>2. CASE j = n
      BY <2>1, <2>8, <2>9, <3>2
    <3>3. CASE i # n /\ j # n
      <4>1. /\ i \in 1..Len(queue) /\ j \in 1..Len(queue) /\ queue[i] = queue[j]
            /\ grown[i] = nth[k0 + i] /\ grown[j] = nth[k0 + j]
        BY <2>1, <2>2, <2>6, <2>9, <3>3
      <4> QED BY <1>7, <2>9, <4>1
    <3> QED BY <3>1, <3>2, <3>3
  <2> HIDE DEF grown
  <2> QED BY <2>1, <2>5, <2>7, <2>9 DEF Recorded
<1>10. \/ events' = queue /\ letIn' = letIn
       \/ events' = Append(queue, a) /\ letIn' = [letIn EXCEPT ![a] = @ + 1]
  BY <1>1, <1>3 DEF LetIn, TurnAway
<1> QED BY <1>8, <1>9, <1>10

LEMMA RecordedStep ==
    MemoryInv /\ Recorded /\ [MemoryNext]_memoryVars => Recorded'
<1>1. ASSUME UNCHANGED <<events, letIn>>, Recorded PROVE Recorded'
  BY <1>1 DEF Recorded
<1> QED BY <1>1, RecordedLock DEF MemoryNext, ClockTick, Arrive, memoryVars

LEMMA RecordedAlways == MemorySpec => []Recorded
<1>1. ASSUME MemoryInit PROVE Recorded
  <2>1. Len(events) = 0 /\ 1..0 = {}
    BY <1>1 DEF MemoryInit
  <2>2. [i \in 1..0 |-> 1] \in [1..Len(events) -> Nat \ {0}]
    BY <2>1
  <2> QED BY <2>1, <2>2 DEF Recorded
<1> QED BY <1>1, RecordedStep, MemoryInvAlways, PTL DEF MemorySpec

(* As long as the lock was given in the order in which the clock was read, *)
(* InMemoryRateLimiter refuses nobody while the limit is not used up       *)
(* within the window.                                                      *)
THEOREM RefusalsAreDeserved == MemorySpec => RefusedOnlyWhenFull
<1> DEFINE Deserved == \A p \in Procs : TurnAway(p) /\ InOrder(arrived[p]) =>
                          LetInUpTo(arrived[p]) >= Limit
<1>1. ASSUME MemoryInv, ExcessInv, Recorded, NEW p \in Procs,
             TurnAway(p), InOrder(arrived[p])
      PROVE  LetInUpTo(arrived[p]) >= Limit
  <2>1. PICK a \in Ticks : a = arrived[p]
    BY <1>1 DEF MemoryInv, MemoryTypeOK, TurnAway
  <2>2. /\ events \in Seq(Ticks) /\ Len(events) \in Nat /\ Limit \in Nat
        /\ Ticks \subseteq Nat /\ WindowTicks \in Nat /\ letIn \in [Ticks -> Nat]
        /\ \A i \in 1..Len(events) : events[i] \in Ticks
    <3>1. events \in Seq(Ticks) /\ letIn \in [Ticks -> Nat]
      BY <1>1 DEF MemoryInv, MemoryTypeOK
    <3>2. Len(events) \in Nat /\ \A i \in 1..Len(events) : events[i] \in Ticks
      BY <3>1
    <3>3. Ticks \subseteq Nat
      BY DEF Ticks
    <3> QED BY <3>1, <3>2, <3>3, LimitAssumption, WindowTicksType
  <2>3. PICK k0 \in 0..Len(events) :
           /\ Len(Pruned(a)) = Len(events) - k0
           /\ k0 < Len(events) => events[k0 + 1] > a - WindowTicks
    BY <2>2, PrunedShape
  <2>4. PICK n \in Nat : n = Len(events) - k0 /\ n >= Limit
    <3>1. Len(Pruned(a)) >= Limit
      BY <1>1, <2>1 DEF TurnAway, Full
    <3>2. Len(events) - k0 \in Nat
      BY <2>2
    <3> QED BY <2>3, <3>1, <3>2
  <2>5. ASSUME NEW i \in 1..n
        PROVE  /\ k0 + i \in 1..Len(events) /\ events[k0 + i] \in Ticks
               /\ a - WindowTicks < events[k0 + i] /\ events[k0 + i] <= a
    <3>1. k0 + 1 \in 1..Len(events) /\ k0 + i \in 1..Len(events) /\ k0 + 1 <= k0 + i
      BY <2>2, <2>4
    <3>2. events[k0 + 1] > a - WindowTicks
      BY <2>2, <2>3, <3>1
    <3>3. events[k0 + 1] <= events[k0 + i] /\ events[k0 + i] <= a
      BY <1>1, <2>1, <3>1 DEF InOrder
    <3>4. events[k0 + 1] \in Nat /\ events[k0 + i] \in Nat /\ a \in Nat
      BY <2>2, <3>1
    <3> QED BY <2>2, <3>1, <3>2, <3>3, <3>4
  <2>6. PICK nth \in [1..Len(events) -> Nat \ {0}] :
           /\ \A i \in 1..Len(events) : nth[i] <= letIn[events[i]]
           /\ \A i, j \in 1..Len(events) :
                 i # j /\ events[i] = events[j] => nth[i] # nth[j]
    BY <1>1 DEF Recorded
  <2> DEFINE f == [i \in 1..n |-> <<events[k0 + i], nth[k0 + i]>>]
  <2>7. ASSUME NEW i \in 1..n PROVE f[i] \in InWindow(a)
    <3>1. PICK s \in Ticks : s = events[k0 + i] /\ a - WindowTicks < s /\ s <= a
      BY <2>5
    <3>2. nth[k0 + i] \in Nat \ {0} /\ nth[k0 + i] <= letIn[s] /\ letIn[s] \in Nat
      BY <2>2, <2>5, <2>6, <3>1
    <3>3. f[i] \in {s} \X (1..letIn[s])
      BY <3>1, <3>2
    <3> HIDE DEF f
    <3> QED BY <3>1, <3>3 DEF InWindow
  <2>8. ASSUME NEW i \in 1..n, NEW j \in 1..n, f[i] = f[j] PROVE i = j
    <3>1. events[k0 + i] = events[k0 + j] /\ nth[k0 + i] = nth[k0 + j]
      BY <2>8
    <3>2. k0 + i = k0 + j
      BY <2>5, <2>6, <3>1
    <3> QED BY <2>4, <3>2
  <2>9. f \in Injection(1..n, InWindow(a))
    BY <2>7, <2>8 DEF Injection, IsInjective
  <2>10. IsFiniteSet(InWindow(a))
    BY <1>1 DEF ExcessInv
  <2>11. Cardinality(1..n) <= Cardinality(InWindow(a)) /\ Cardinality(1..n) = n
         /\ Cardinality(InWindow(a)) \in Nat
    <3> HIDE DEF f
    <3> QED BY <2>9, <2>10, FS_Injection, FS_Interval, FS_CardinalityType
  <2> QED BY <2>1, <2>2, <2>4, <2>11 DEF LetInUpTo
<1>2. MemoryInv /\ ExcessInv /\ Recorded => [Deserved]_memoryVars
  BY <1>1
<1>3. MemorySpec => []ExcessInv
  BY ExcessInvInit, ExcessInvStep, MemoryInvAlways, PTL DEF MemorySpec
<1> QED BY <1>2, <1>3, RecordedAlways, MemoryInvAlways, PTL
        DEF MemorySpec, RefusedOnlyWhenFull
-----------------------------------------------------------------------------
(* The limiter of a running application.                                   *)

(* An application behaves as the back end it was configured with, and the  *)
(* other one never moves (create_app of main.py): what is proved of each   *)
(* back end holds of the limiter.                                          *)
THEOREM OneBackEnd == LimiterSpec => MemorySpec /\ Spec
<1>1. LimiterInit => MemoryInit /\ Init
  BY DEF LimiterInit
<1>2. [LimiterNext]_limiterVars => [MemoryNext]_memoryVars /\ [Next]_vars
  BY DEF LimiterNext, limiterVars
<1> QED BY <1>1, <1>2, PTL DEF LimiterSpec, MemorySpec, Spec

(* Of the limiter of a running application: the types of the in-memory     *)
(* back end, the wait it tells a refused client, the excess it may let in, *)
(* and that it refuses nobody while there is room.                         *)
COROLLARY LimiterInMemory ==
    LimiterSpec => /\ []MemoryTypeOK /\ []RetrySecondLater
                   /\ []ExcessBound /\ RefusedOnlyWhenFull
  BY OneBackEnd, MemoryTypes, RetryASecondLater, ExcessIsBounded, RefusalsAreDeserved, PTL

(* Of the limiter of a running application: the types of the Redis back    *)
(* end, and that it refuses only when the limit is used up.                *)
COROLLARY LimiterRefusals == LimiterSpec => []TypeOK /\ RefusedOnlyWhenUsedUp
  BY OneBackEnd, LimiterTypeOK, RefusalsAreDue, PTL
=============================================================================
