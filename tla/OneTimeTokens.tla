---------------------------- MODULE OneTimeTokens ----------------------------
(***************************************************************************)
(* What a mailed token promises: it is issued once, for one account and    *)
(* one purpose; it serves that purpose for that account at most once, and  *)
(* nothing else; and once it is dead it is dead for good.                  *)
(***************************************************************************)
CONSTANT Tokens

VARIABLES
    purpose,   \* issued token -> what it is for, as [user, kind]
    live,      \* tokens that may still take effect
    done       \* purposes that were served

TokensInit ==
    /\ purpose = [t \in {} |-> t]
    /\ live = {}
    /\ done = {}

(* Issuing a token may put an end to others. *)
Issue(t) ==
    /\ t \in Tokens \ DOMAIN purpose
    /\ DOMAIN purpose' = DOMAIN purpose \cup {t}
    /\ \A o \in DOMAIN purpose : purpose'[o] = purpose[o]
    /\ live' \subseteq live \cup {t}
    /\ UNCHANGED done

(* Single use: what is used is dead. *)
Use(t) ==
    /\ t \in live
    /\ done' = done \cup {purpose[t]}
    /\ live' \subseteq live \ {t}
    /\ UNCHANGED purpose

Drop == live' \subseteq live /\ UNCHANGED <<purpose, done>>

TokensNext == Drop \/ \E t \in Tokens : Issue(t) \/ Use(t)

TokensSpec == TokensInit /\ [][TokensNext]_<<purpose, live, done>>
-----------------------------------------------------------------------------
(* What is left of it when uses overlap: a use may leave the token live    *)
(* for others that are on their way already.                               *)
OverlappingUse(t) ==
    /\ t \in live
    /\ done' = done \cup {purpose[t]}
    /\ live' \subseteq live
    /\ UNCHANGED purpose

OverlappingNext == Drop \/ \E t \in Tokens : Issue(t) \/ OverlappingUse(t)

OverlappingSpec == TokensInit /\ [][OverlappingNext]_<<purpose, live, done>>
=============================================================================
