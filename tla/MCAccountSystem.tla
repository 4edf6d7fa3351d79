--------------------------- MODULE MCAccountSystem ---------------------------
(* AccountSystem on small instances.  Rows, families, workers, tokens and   *)
(* secrets are interchangeable.                                            *)
EXTENDS AccountSystem, TLC

Symmetry ==
    Permutations(Sids) \cup Permutations(Families) \cup Permutations(Procs)
        \cup Permutations(Tokens) \cup Permutations(Secrets)

Registered(role, stale) ==
    [status |-> "active", role |-> role, hash |-> [password |-> "old", stale |-> stale],
     fails |-> 0, lockedUntil |-> None, totp |-> None, pending |-> None]

OutdatedMember == {Registered("user", TRUE)}

(* A member whose hash is outdated, an admin, a disabled account. *)
AnyAccount ==
    {Registered("user", TRUE), Registered("admin", FALSE),
     [Registered("user", FALSE) EXCEPT !.status = "disabled"]}
=============================================================================
