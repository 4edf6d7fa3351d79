----------------------------- MODULE MCRateLimit -----------------------------
(* The requests under way are interchangeable. *)
EXTENDS RateLimit, TLC

Symmetry == Permutations(Procs)
=============================================================================
