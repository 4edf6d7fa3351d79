--------------------------- MODULE MemoryRateLimit ---------------------------
(***************************************************************************)
(* InMemoryRateLimiter of core/rate_limit.py: the deque of one key.  The   *)
(* deques of different keys share nothing but the lock.  Each request runs *)
(* on a thread of the pool, reads the clock, and only then waits for the   *)
(* lock; so the lock may be given in another order than the clock was      *)
(* read.  Seconds are floats: TicksPerSecond ticks make one.               *)
(***************************************************************************)
EXTENDS RateLimiter, Integers, Sequences, FiniteSetsExt

CONSTANTS
    TicksPerSecond,   \* resolution of the clock
    MaxTicks          \* bound on the clock (model checking only)

ASSUME ResolutionAssumption == TicksPerSecond \in Nat \ {0} /\ MaxTicks \in Nat

(* The threads of the pool. *)
ASSUME ThreadsAssumption == IsFiniteSet(Procs) /\ Procs # {}

VARIABLES
    clock,     \* time.monotonic()
    events,    \* the deque of the key
    arrived,   \* thread -> the time it read before the lock, or None
    told,      \* thread -> its last refusal, as [at, seconds], or None
    letIn      \* time -> requests let through with that time (history)

memoryVars == <<clock, events, arrived, told, letIn>>

WindowTicks == WindowSeconds * TicksPerSecond

Ticks == 0..MaxTicks

MemoryTypeOK ==
    /\ clock \in Ticks
    /\ events \in Seq(Ticks)
    /\ arrived \in [Procs -> Ticks \cup {None}]
    /\ told \in [Procs -> [at : Ticks, seconds : Nat \ {0}] \cup {None}]
    /\ letIn \in [Ticks -> Nat]

MemoryInit ==
    /\ clock = 0
    /\ events = << >>
    /\ arrived = [p \in Procs |-> None]
    /\ told = [p \in Procs |-> None]
    /\ letIn = [t \in Ticks |-> 0]

(* Mutant of Pruned: an event exactly one window old still counts. *)
PrunedLate(t) ==
    LET old == {i \in DOMAIN events : \A j \in 1..i : events[j] < t - WindowTicks}
    IN  SubSeq(events, Cardinality(old) + 1, Len(events))

(* The while loop: events leave at the left end as long as the first one   *)
(* is out of the window.                                                   *)
Pruned(t) ==
    LET old == {i \in DOMAIN events : \A j \in 1..i : events[j] <= t - WindowTicks}
    IN  SubSeq(events, Cardinality(old) + 1, Len(events))

(* Mutant of Full: one more request gets in. *)
FullTooLate(queue) == Len(queue) > Limit

Full(queue) == Len(queue) >= Limit

(* Mutant of RetryAfter: without the max. *)
RetryAfterZero(t, queue) == (WindowTicks - (t - queue[1])) \div TicksPerSecond

(* Mutant of RetryAfter: whatever is left of the window, one second. *)
RetryAfterBlind(t, queue) == 1

(* max(1, int(window_seconds - (clock - events[0]))) *)
RetryAfter(t, queue) ==
    Max({1, (WindowTicks - (t - queue[1])) \div TicksPerSecond})

Arrive(p) ==
    /\ arrived[p] = None
    /\ arrived' = [arrived EXCEPT ![p] = clock]
    /\ told' = [told EXCEPT ![p] = None]
    /\ UNCHANGED <<clock, events, letIn>>

LetIn(p) ==
    /\ arrived[p] # None
    /\ ~Full(Pruned(arrived[p]))
    /\ events' = Append(Pruned(arrived[p]), arrived[p])
    /\ letIn' = [letIn EXCEPT ![arrived[p]] = @ + 1]
    /\ arrived' = [arrived EXCEPT ![p] = None]
    /\ UNCHANGED <<clock, told>>

TurnAway(p) ==
    /\ arrived[p] # None
    /\ Full(Pruned(arrived[p]))
    /\ events' = Pruned(arrived[p])
    /\ told' = [told EXCEPT ![p] =
          [at |-> arrived[p], seconds |-> RetryAfter(arrived[p], Pruned(arrived[p]))]]
    /\ arrived' = [arrived EXCEPT ![p] = None]
    /\ UNCHANGED <<clock, letIn>>

ClockTick ==
    /\ clock < MaxTicks
    /\ clock' = clock + 1
    /\ UNCHANGED <<events, arrived, told, letIn>>

MemoryNext == ClockTick \/ \E p \in Procs : Arrive(p) \/ LetIn(p) \/ TurnAway(p)

MemorySpec == MemoryInit /\ [][MemoryNext]_memoryVars
-----------------------------------------------------------------------------
(* Requests let through in the window that ends at t: time and number. *)
InWindow(t) ==
    UNION {{s} \X (1..letIn[s]) : s \in {r \in Ticks : t - WindowTicks < r /\ r <= t}}

LetInUpTo(t) == Cardinality(InWindow(t))

(* Threads that read the clock in one order and get the lock in another    *)
(* may each bring one request in behind a deque that was already pruned    *)
(* for a later time: that is all the excess there is, in any window.  With *)
(* one thread the limit is exact.                                          *)
ExcessBound ==
    \A t \in Ticks : LetInUpTo(t) <= Limit + Cardinality(Procs) - 1

(* The lock was given in the order in which the clock was read, so far. *)
InOrder(t) == \A i, j \in 1..Len(events) : i <= j => events[i] <= events[j] /\ events[j] <= t

(* Nobody is refused unless the limit was really used up within the window *)
(* that ends now, as long as no thread got the lock out of order.          *)
RefusedOnlyWhenFull ==
    [][\A p \in Procs : TurnAway(p) /\ InOrder(arrived[p]) =>
          LetInUpTo(arrived[p]) >= Limit]_memoryVars

(* A client that is refused and waits one second more than it is told,     *)
(* while nobody else gets in, gets in: the fraction that int() cuts off    *)
(* is all that the answer is short of.                                     *)
RetrySecondLater ==
    \A p \in Procs :
        /\ told[p] # None
        /\ clock >= told[p].at + (told[p].seconds + 1) * TicksPerSecond
        /\ \A t \in Ticks : t > told[p].at => letIn[t] = 0
        => ~Full(Pruned(clock))
=============================================================================
