------------------------------ MODULE RateLimit ------------------------------
(***************************************************************************)
(* The limiter of a running application: create_app of main.py takes one   *)
(* back end or the other, by the setting rate_limit_backend, for good.     *)
(***************************************************************************)
EXTENDS MemoryRateLimit, RedisRateLimit

VARIABLE backend   \* rate_limit_backend

limiterVars == <<backend, memoryVars, vars>>

LimiterInit ==
    /\ backend \in {"memory", "redis"}
    /\ MemoryInit
    /\ Init

LimiterNext ==
    \/ backend = "memory" /\ MemoryNext /\ UNCHANGED <<backend, vars>>
    \/ backend = "redis" /\ Next /\ UNCHANGED <<backend, memoryVars>>

LimiterSpec == LimiterInit /\ [][LimiterNext]_limiterVars
=============================================================================
