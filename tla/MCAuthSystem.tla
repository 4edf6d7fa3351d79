----------------------------- MODULE MCAuthSystem -----------------------------
(* AuthSystem on small instances.  Rows, families, workers and secrets are *)
(* interchangeable, so their permutations are symmetries of the states.    *)
EXTENDS AuthSystem, TLC

Symmetry ==
    Permutations(Sids) \cup Permutations(Families) \cup Permutations(Procs)
        \cup Permutations(Secrets)

Registered(role, stale) ==
    [status |-> "active", role |-> role, hash |-> [password |-> "right", stale |-> stale],
     fails |-> 0, lockedUntil |-> None, totp |-> None, pending |-> None]

Members == {Registered("user", FALSE)}

AdminsAndMembers == {Registered("admin", FALSE), Registered("user", FALSE)}

=============================================================================
