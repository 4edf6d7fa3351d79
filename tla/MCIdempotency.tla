---------------------------- MODULE MCIdempotency ----------------------------
(* Keys, digests and workers are interchangeable. *)
EXTENDS Idempotency, TLC

Symmetry == Permutations(Keys) \cup Permutations(Digests) \cup Permutations(Procs)
=============================================================================
