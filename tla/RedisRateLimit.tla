---------------------------- MODULE RedisRateLimit ----------------------------
(***************************************************************************)
(* RedisRateLimiter of core/rate_limit.py: one counter per key and time    *)
(* bucket in a Redis that all instances share, shown for one key.  A       *)
(* request reads the clock of its host, and its INCR and EXPIRE NX, one    *)
(* transaction, reach Redis later.  All clocks show the same time, in      *)
(* whole seconds.  MaxDelay is how long a request may be under way: the    *)
(* client sets no timeout, so it is an assumption on the network.          *)
(***************************************************************************)
EXTENDS RateLimiter, Integers

CONSTANTS
    MaxDelay,   \* the longest way of a request to Redis, in seconds
    MaxTime,    \* bound on the clock (model checking only)
    MaxCalls    \* bound on the calls in one bucket (model checking only)

ASSUME DelayAssumption == MaxDelay \in Nat /\ MaxTime \in Nat /\ MaxCalls \in Nat

VARIABLES
    now,       \* time.time(), in whole seconds
    counters,  \* Redis: bucket -> [count, expires], or None
    sent,      \* the second at which each request under way read the clock, or None
    admitted,  \* bucket -> requests let through (history)
    calls      \* bucket -> requests made (history)

vars == <<now, counters, sent, admitted, calls>>

Time == 0..MaxTime

Bucket(t) == t \div WindowSeconds

Buckets == 0..Bucket(MaxTime)

Counter == [count : Nat \ {0}, expires : Nat]

ASSUME NotACounter == None \notin Counter

TypeOK ==
    /\ now \in Time
    /\ counters \in [Buckets -> Counter \cup {None}]
    /\ sent \in [Procs -> Time \cup {None}]
    /\ admitted \in [Buckets -> Nat]
    /\ calls \in [Buckets -> Nat]

Init ==
    /\ now = 0
    /\ counters = [b \in Buckets |-> None]
    /\ sent = [p \in Procs |-> None]
    /\ admitted = [b \in Buckets |-> 0]
    /\ calls = [b \in Buckets |-> 0]

(* Mutant of Counted: the first request is not counted. *)
CountedFromZero(b) ==
    IF counters[b] = None
    THEN [count |-> 0, expires |-> now + WindowSeconds + 1]
    ELSE [counters[b] EXCEPT !.count = @ + 1]

(* Mutant of Counted: the counter expires with the window, not after it. *)
CountedShort(b) ==
    IF counters[b] = None
    THEN [count |-> 1, expires |-> now + WindowSeconds]
    ELSE [counters[b] EXCEPT !.count = @ + 1]

(* Mutant of Counted: the pipeline is sent again and counts twice. *)
CountedTwice(b) ==
    IF counters[b] = None
    THEN [count |-> 2, expires |-> now + WindowSeconds + 1]
    ELSE [counters[b] EXCEPT !.count = @ + 2]

(* INCR, then EXPIRE NX: only a counter without an expiry gets one. *)
Counted(b) ==
    IF counters[b] = None
    THEN [count |-> 1, expires |-> now + WindowSeconds + 1]
    ELSE [counters[b] EXCEPT !.count = @ + 1]

Call(p) ==
    /\ sent[p] = None
    /\ calls[Bucket(now)] < MaxCalls
    /\ sent' = [sent EXCEPT ![p] = now]
    /\ calls' = [calls EXCEPT ![Bucket(now)] = @ + 1]
    /\ UNCHANGED <<now, counters, admitted>>

Count(p) == counters' = [counters EXCEPT ![Bucket(sent[p])] = Counted(Bucket(sent[p]))]

Return(p) == sent' = [sent EXCEPT ![p] = None]

Admit(p) ==
    /\ sent[p] # None
    /\ Counted(Bucket(sent[p])).count <= Limit
    /\ Count(p)
    /\ admitted' = [admitted EXCEPT ![Bucket(sent[p])] = @ + 1]
    /\ Return(p)
    /\ UNCHANGED <<now, calls>>

Refuse(p) ==
    /\ sent[p] # None
    /\ Counted(Bucket(sent[p])).count > Limit
    /\ Count(p)
    /\ Return(p)
    /\ UNCHANGED <<now, admitted, calls>>

(* A RedisError: the request is turned away with a 503, whether or not     *)
(* Redis had executed the transaction before the connection failed.        *)
Unavailable(p) ==
    /\ sent[p] # None
    /\ Count(p) \/ UNCHANGED counters
    /\ Return(p)
    /\ UNCHANGED <<now, admitted, calls>>

(* A second passes; Redis drops the counters whose time has come. *)
Tick ==
    /\ now < MaxTime
    /\ \A p \in Procs : sent[p] # None => now < sent[p] + MaxDelay
    /\ now' = now + 1
    /\ counters' = [b \in Buckets |->
          IF counters[b] # None /\ counters[b].expires <= now + 1 THEN None ELSE counters[b]]
    /\ UNCHANGED <<sent, admitted, calls>>

Next ==
    \/ Tick
    \/ \E p \in Procs : Call(p) \/ Admit(p) \/ Refuse(p) \/ Unavailable(p)

Spec == Init /\ [][Next]_vars
-----------------------------------------------------------------------------
(* All instances together let no more than the limit through in a bucket.  *)
(* It rests on the second that the counter outlives its window for: with a *)
(* MaxDelay of 2 a late request finds its counter gone and starts a new    *)
(* one.                                                                    *)
BucketBound == \A b \in Buckets : admitted[b] <= Limit

(* Nobody is told 429 unless the limit was used up by other calls of the   *)
(* same bucket, be they answered, refused or lost on the way.              *)
RefusedOnlyWhenUsedUp ==
    [][\A p \in Procs : Refuse(p) => calls[Bucket(sent[p])] > Limit]_vars
=============================================================================
