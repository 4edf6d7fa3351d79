----------------------------- MODULE RateLimiter -----------------------------
(***************************************************************************)
(* The RateLimiter protocol of core/rate_limit.py, check(key, limit,       *)
(* window_seconds): what its two back ends have in common.                 *)
(***************************************************************************)
EXTENDS Naturals, FiniteSets

CONSTANTS
    Procs,           \* requests under way at a time
    Limit,           \* limit
    WindowSeconds,   \* window_seconds
    None

ASSUME LimitAssumption ==
    /\ Limit \in Nat \ {0}
    /\ WindowSeconds \in Nat \ {0}
    /\ None \notin Nat
=============================================================================
