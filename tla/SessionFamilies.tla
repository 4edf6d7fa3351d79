--------------------------- MODULE SessionFamilies ---------------------------
(***************************************************************************)
(* What a session family promises whatever runs concurrently: it is opened *)
(* once, by a sign-in, and it ends for good.  Rotation, reuse detection,   *)
(* logout, MFA and dying workers are all invisible here, or an end.        *)
(***************************************************************************)
CONSTANT Families

VARIABLE phase

FamiliesTypeOK == phase \in [Families -> {"unused", "live", "ended"}]

FamiliesInit == phase = [f \in Families |-> "unused"]

Open(f) ==
    /\ phase[f] = "unused"
    /\ phase' = [phase EXCEPT ![f] = "live"]

(* Any number of live families end together (logout-all). *)
End(S) ==
    /\ \A f \in S : phase[f] = "live"
    /\ phase' = [f \in Families |-> IF f \in S THEN "ended" ELSE phase[f]]

FamiliesNext == (\E f \in Families : Open(f)) \/ (\E S \in SUBSET Families : End(S))

FamiliesSpec == FamiliesInit /\ [][FamiliesNext]_phase
=============================================================================
