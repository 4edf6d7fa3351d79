----------------------------- MODULE SessionChain -----------------------------
(***************************************************************************)
(* Decisions 3 to 5 of ADR-0003 as a state machine: a family has exactly   *)
(* one refresh token that works.  A refresh replaces it by a token never   *)
(* seen before; reuse of an old token or a logout leaves none, for good.   *)
(***************************************************************************)
CONSTANTS Families, Tokens, Unused, Ended

VARIABLES current,   \* family -> its working token, or Unused, or Ended
          issued     \* every token ever handed out

ChainInit ==
    /\ current = [f \in Families |-> Unused]
    /\ issued = {}

Issue(f, t) ==
    /\ t \in Tokens \ issued
    /\ issued' = issued \cup {t}
    /\ current' = [current EXCEPT ![f] = t]

SignIn(f) == current[f] = Unused /\ \E t \in Tokens : Issue(f, t)

Replace(f) == current[f] \in Tokens /\ \E t \in Tokens : Issue(f, t)

RevokeAll(S) ==
    /\ \A f \in S : current[f] \in Tokens
    /\ current' = [f \in Families |-> IF f \in S THEN Ended ELSE current[f]]
    /\ UNCHANGED issued

ChainNext ==
    \/ \E f \in Families : SignIn(f) \/ Replace(f)
    \/ \E S \in SUBSET Families : RevokeAll(S)

ChainSpec == ChainInit /\ [][ChainNext]_<<current, issued>>
=============================================================================
