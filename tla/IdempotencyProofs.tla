-------------------------- MODULE IdempotencyProofs --------------------------
(***************************************************************************)
(* What TLAPS proves about Idempotency for every set of keys, digests and  *)
(* workers: the lease is exclusive and a replayed answer is faithful,      *)
(* whatever races and whatever fails.                                      *)
(***************************************************************************)
EXTENDS Idempotency, TLAPS

Completed(k) == records[k] # None /\ records[k].status = "completed"

(* A worker that holds a lease has the record of its own request, still    *)
(* unfinished, and has committed the operation once it is to complete.     *)
HolderOK(p) ==
    At(p, Holding) =>
        /\ Leased(p)
        /\ records[work[p].key].status = "in_progress"
        /\ records[work[p].key].digest = work[p].digest
        /\ work[p].phase = "complete" => <<work[p].lease, work[p].key>> \in effects

(* A worker that answers with a result has a completed record to show. *)
AnswerOK(p) ==
    At(p, {"cached", "fresh"}) =>
        Completed(work[p].key) /\ records[work[p].key].digest = work[p].digest

Exclusive ==
    \A p, q \in Procs :
        At(p, Holding) /\ At(q, Holding) /\ work[q].key = work[p].key => q = p

CompletedInv == \A k \in Keys : Completed(k) => <<records[k].id, k>> \in effects

(* LeaseExclusive is not inductive by itself: a new lease is exclusive     *)
(* because every holder still has its record, and an answer is faithful    *)
(* because the lease carried the digest and the effect of its request.     *)
IInv ==
    /\ TypeOK
    /\ \A p \in Procs : HolderOK(p) /\ AnswerOK(p)
    /\ Exclusive
    /\ CompletedInv

LEMMA InitIInv == Init => IInv
  BY DEF Init, IInv, TypeOK, HolderOK, AnswerOK, Exclusive, CompletedInv, Completed, At

Untouched == UNCHANGED <<records, created, effects>>

(* A step of worker p leaves the other workers where they are. *)
OthersStay(p) == \A q \in Procs \ {p} : work'[q] = work[q]

Phases == {"insert", "reread"} \cup Holding \cup Answers

LEMMA GotoEffect ==
    ASSUME TypeOK, NEW p \in Procs, work[p] # None, NEW phase \in Phases, Goto(p, phase)
    PROVE  /\ work' \in [Procs -> Job \cup {None}]
           /\ work'[p].phase = phase /\ work'[p].key = work[p].key
           /\ work'[p].digest = work[p].digest /\ work'[p].lease = work[p].lease
           /\ OthersStay(p)
<1>1. work[p] \in Job
  BY DEF TypeOK
<1>2. [work[p] EXCEPT !.phase = phase] \in Job
  BY <1>1 DEF Job, Phases
<1>3. work'[p] = [work[p] EXCEPT !.phase = phase]
  BY DEF TypeOK, Goto
<1> QED BY <1>1, <1>2, <1>3 DEF TypeOK, Goto, OthersStay, Job

(* What is left to show for a step of p that keeps its key: its own part   *)
(* of the invariant, and that no other worker's record was touched.        *)
LEMMA WorkerStep ==
    ASSUME IInv, NEW p \in Procs, OthersStay(p), TypeOK', effects \subseteq effects',
           HolderOK(p)', AnswerOK(p)', CompletedInv',
           \A q \in Procs \ {p} :
              At(q, Holding) \/ At(q, {"cached", "fresh"})
                  => records'[work[q].key] = records[work[q].key],
           \A q \in Procs \ {p} :
              At(p, Holding)' /\ At(q, Holding) => work'[p].key # work[q].key
    PROVE  IInv'
<1>1. \A q \in Procs \ {p} : At(q, Holding)' <=> At(q, Holding)
  BY DEF OthersStay, At
<1>2. \A q \in Procs \ {p} : HolderOK(q)' /\ AnswerOK(q)'
  BY DEF IInv, HolderOK, AnswerOK, OthersStay, At, Leased, Completed
<1>3. Exclusive'
  BY <1>1 DEF IInv, Exclusive, OthersStay
<1> QED BY <1>2, <1>3 DEF IInv

LEMMA AcquireStep == ASSUME IInv, NEW p \in Procs, Acquire(p) PROVE IInv'
<1>1. PICK k \in Keys, d \in Digests :
        work' = [work EXCEPT ![p] =
                  [phase  |-> IF records[k] = None THEN "insert" ELSE Existing(records[k], d),
                   key    |-> k, digest |-> d, lease |-> 0]]
  BY DEF Acquire
<1> DEFINE job == [phase  |-> IF records[k] = None THEN "insert" ELSE Existing(records[k], d),
                   key    |-> k, digest |-> d, lease |-> 0]
<1>2. job.phase \in {"insert", "conflict", "cached", "in_progress"}
  BY DEF Existing
<1>3. job \in Job
  BY <1>2 DEF Job, Answers
<1>4. work'[p] = job /\ OthersStay(p) /\ work' \in [Procs -> Job \cup {None}]
  BY <1>1, <1>3 DEF IInv, TypeOK, OthersStay
<1>5. Untouched
  BY DEF Acquire, Untouched
<1>6. TypeOK'
  BY <1>4, <1>5 DEF IInv, TypeOK, Untouched
<1>7. ~At(p, Holding)'
  BY <1>2, <1>4 DEF At, Holding
<1>8. AnswerOK(p)'
  BY <1>4, <1>5 DEF AnswerOK, At, Completed, Existing, Untouched
<1>9. CompletedInv'
  BY <1>5 DEF IInv, CompletedInv, Completed, Untouched
<1> QED BY <1>4, <1>5, <1>6, <1>7, <1>8, <1>9, WorkerStep DEF HolderOK, Untouched

LEMMA InsertStep == ASSUME IInv, NEW p \in Procs, InsertRecord(p) PROVE IInv'
<1> DEFINE k == work[p].key
           row == [id |-> created + 1, digest |-> work[p].digest, status |-> "in_progress"]
<1>1. work[p] \in Job /\ k \in Keys /\ ~At(p, Holding)
  BY DEF IInv, TypeOK, InsertRecord, At, Job, Holding
<1>2. CASE records[k] = None
  <2>1. /\ records' = [records EXCEPT ![k] = row] /\ created' = created + 1
        /\ work' = [work EXCEPT ![p].phase = "run", ![p].lease = created + 1]
        /\ effects' = effects
    BY <1>2 DEF InsertRecord
  <2>2. created + 1 \in Nat
    BY DEF IInv, TypeOK
  <2>3. row \in Record
    BY <1>1, <2>2 DEF Record, Job
  <2>4. /\ work'[p] = [work[p] EXCEPT !.phase = "run", !.lease = created + 1]
        /\ OthersStay(p)
    BY <2>1 DEF IInv, TypeOK, OthersStay
  <2>5. [work[p] EXCEPT !.phase = "run", !.lease = created + 1] \in Job
    BY <1>1, <2>2 DEF Job, Holding
  <2>6. work' \in [Procs -> Job \cup {None}]
    BY <2>1, <2>5 DEF IInv, TypeOK
  <2>7. TypeOK'
    BY <2>1, <2>2, <2>3, <2>6 DEF IInv, TypeOK
  <2>8. /\ work'[p].phase = "run" /\ work'[p].key = k
        /\ work'[p].lease = created + 1 /\ work'[p].digest = work[p].digest
    BY <1>1, <2>4 DEF Job
  <2>9. records'[k] = row /\ \A j \in Keys \ {k} : records'[j] = records[j]
    BY <1>1, <2>1 DEF IInv, TypeOK
  <2>10. row # None
    BY <2>3, NotARow DEF Record
  <2>11. HolderOK(p)' /\ AnswerOK(p)'
    BY <2>8, <2>9, <2>10 DEF HolderOK, AnswerOK, At, Leased
  <2>12. CompletedInv'
    BY <2>1, <2>9 DEF IInv, CompletedInv, Completed
  <2>13. \A q \in Procs \ {p} :
           At(q, Holding) \/ At(q, {"cached", "fresh"}) => work[q].key # k /\ work[q].key \in Keys
    BY <1>2 DEF IInv, HolderOK, AnswerOK, Leased, Completed, TypeOK, At, Job
  <2> QED BY <2>1, <2>4, <2>7, <2>8, <2>9, <2>11, <2>12, <2>13, WorkerStep
<1>3. CASE records[k] # None
  <2>1. Goto(p, "reread") /\ Untouched /\ work[p] # None
    BY <1>3 DEF InsertRecord, Untouched, At
  <2>2. /\ work' \in [Procs -> Job \cup {None}] /\ OthersStay(p)
        /\ work'[p].phase = "reread"
    <3>1. "reread" \in Phases /\ TypeOK
      BY DEF Phases, IInv
    <3> QED BY <2>1, <3>1, GotoEffect
  <2>3. TypeOK' /\ CompletedInv'
    BY <2>1, <2>2 DEF IInv, TypeOK, CompletedInv, Completed, Untouched
  <2>4. ~At(p, Holding)' /\ ~At(p, {"cached", "fresh"})'
    BY <2>2 DEF At, Holding
  <2> QED BY <2>1, <2>2, <2>3, <2>4, WorkerStep DEF HolderOK, AnswerOK, Untouched
<1> QED BY <1>2, <1>3

(* A worker moves on without touching the records. *)
LEMMA QuietStep ==
    ASSUME IInv, NEW p \in Procs, work[p] # None, NEW phase \in Phases, Goto(p, phase),
           UNCHANGED <<records, created>>, effects \subseteq effects',
           effects' \subseteq Nat \X Keys,
           phase \in Holding => At(p, Holding),
           phase = "complete" => <<work[p].lease, work[p].key>> \in effects',
           phase \in {"cached", "fresh"} =>
              Completed(work[p].key) /\ records[work[p].key].digest = work[p].digest
    PROVE  IInv'
<1>1. TypeOK
  BY DEF IInv
<1>2. /\ work' \in [Procs -> Job \cup {None}]
      /\ work'[p].phase = phase /\ work'[p].key = work[p].key
      /\ work'[p].digest = work[p].digest /\ work'[p].lease = work[p].lease
      /\ OthersStay(p)
  BY <1>1, GotoEffect
<1>3. TypeOK'
  BY <1>1, <1>2 DEF TypeOK
<1>4. CompletedInv'
  BY DEF IInv, CompletedInv, Completed
<1>5. At(p, Holding)' => At(p, Holding)
  BY <1>2 DEF At
<1>6. HolderOK(p)'
  BY <1>2, <1>5 DEF IInv, HolderOK, At, Leased
<1>7. AnswerOK(p)'
  BY <1>2 DEF AnswerOK, At, Completed
<1>8. \A q \in Procs \ {p} : At(p, Holding)' /\ At(q, Holding) => work'[p].key # work[q].key
  BY <1>2, <1>5 DEF IInv, Exclusive
<1> QED BY <1>2, <1>3, <1>4, <1>6, <1>7, <1>8, WorkerStep

LEMMA RereadStep == ASSUME IInv, NEW p \in Procs, Reread(p) PROVE IInv'
<1> DEFINE record == records[work[p].key]
           phase == IF record = None THEN "error" ELSE Existing(record, work[p].digest)
<1>1. /\ work[p] # None /\ Goto(p, phase)
      /\ UNCHANGED <<records, created>> /\ effects' = effects
  BY DEF Reread, At
<1>2. phase \in {"error", "conflict", "cached", "in_progress"}
  BY DEF Existing
<1>3. phase \in Phases /\ phase \notin Holding /\ phase # "complete" /\ phase # "fresh"
  BY <1>2 DEF Phases, Answers, Holding
<1>4. phase = "cached" => Completed(work[p].key) /\ record.digest = work[p].digest
  BY DEF Existing, Completed
<1>5. effects' \subseteq Nat \X Keys
  BY <1>1 DEF IInv, TypeOK
<1> HIDE DEF phase
<1> QED BY <1>1, <1>3, <1>4, <1>5, QuietStep

LEMMA OperateStep ==
    ASSUME IInv, NEW p \in Procs, Operate(p) \/ OperateFails(p) PROVE IInv'
<1>1. /\ work[p] # None /\ At(p, Holding)
      /\ UNCHANGED <<records, created>> /\ effects \subseteq effects'
  BY DEF Operate, OperateFails, At, Holding
<1>2. work[p].lease \in Nat /\ work[p].key \in Keys
  BY <1>1 DEF IInv, TypeOK, Job
<1>3. effects' \subseteq Nat \X Keys
  BY <1>2 DEF IInv, TypeOK, Operate, OperateFails
<1>4. PICK next \in {"complete", "abandon", "broken"} :
        /\ Goto(p, next)
        /\ next = "complete" => <<work[p].lease, work[p].key>> \in effects'
  BY DEF Operate, OperateFails
<1>5. next \in Phases /\ next \notin {"cached", "fresh"}
  BY DEF Phases, Holding
<1> QED BY <1>1, <1>3, <1>4, <1>5, QuietStep

LEMMA CompleteStep ==
    ASSUME IInv, NEW p \in Procs, Complete(p)
    PROVE  IInv' /\ Leased(p)
<1> DEFINE k == work[p].key
           row == [records[k] EXCEPT !.status = "completed"]
<1>1. work[p] # None /\ At(p, Holding) /\ work[p].phase = "complete" /\ TypeOK
  BY DEF Complete, At, Holding, IInv
<1>2. /\ Leased(p) /\ records[k].digest = work[p].digest
      /\ <<work[p].lease, k>> \in effects
  BY <1>1 DEF IInv, HolderOK
<1>3. /\ records' = [records EXCEPT ![k].status = "completed"] /\ Goto(p, "fresh")
      /\ created' = created /\ effects' = effects
  BY <1>2 DEF Complete
<1>4. k \in Keys /\ records[k] \in Record /\ records[k].id = work[p].lease
  BY <1>1, <1>2 DEF TypeOK, Job, Leased
<1>5. /\ row \in Record /\ row.id = work[p].lease /\ row.digest = work[p].digest
      /\ row.status = "completed" /\ row # None
  <2>1. row \in Record
    BY <1>4 DEF Record
  <2> QED BY <1>2, <1>4, <2>1, NotARow DEF Record
<1>6. records'[k] = row /\ \A j \in Keys \ {k} : records'[j] = records[j]
  BY <1>1, <1>3, <1>4 DEF TypeOK
<1>7. "fresh" \in Phases
  BY DEF Phases, Answers
<1>8. /\ work' \in [Procs -> Job \cup {None}]
      /\ work'[p].phase = "fresh" /\ work'[p].key = k
      /\ work'[p].digest = work[p].digest
      /\ OthersStay(p)
  BY <1>1, <1>3, <1>7, GotoEffect
<1>9. TypeOK'
  BY <1>1, <1>3, <1>5, <1>8 DEF TypeOK
<1>10. CompletedInv'
  BY <1>2, <1>3, <1>5, <1>6 DEF IInv, CompletedInv, Completed
<1>11. HolderOK(p)' /\ AnswerOK(p)' /\ ~At(p, Holding)'
  BY <1>5, <1>6, <1>8 DEF HolderOK, AnswerOK, At, Holding, Completed
<1>12. \A q \in Procs \ {p} :
         At(q, Holding) \/ At(q, {"cached", "fresh"}) => work[q].key # k /\ work[q].key \in Keys
  <2>1. records[k].status = "in_progress"
    BY <1>1 DEF IInv, HolderOK
  <2> QED BY <1>1, <2>1 DEF IInv, Exclusive, AnswerOK, Completed, At, TypeOK, Job
<1> QED BY <1>2, <1>3, <1>6, <1>8, <1>9, <1>10, <1>11, <1>12, WorkerStep

LEMMA AbandonStep == ASSUME IInv, NEW p \in Procs, Abandon(p) PROVE IInv'
<1> DEFINE k == work[p].key
<1>1. work[p] # None /\ At(p, Holding) /\ TypeOK
  BY DEF Abandon, At, Holding, IInv
<1>2. Leased(p) /\ records[k].status = "in_progress" /\ k \in Keys
  BY <1>1 DEF IInv, HolderOK, TypeOK, Job
<1>3. /\ records' = [records EXCEPT ![k] = None] /\ Goto(p, "error")
      /\ created' = created /\ effects' = effects
  BY <1>2 DEF Abandon
<1>4. "error" \in Phases
  BY DEF Phases, Answers
<1>5. /\ work' \in [Procs -> Job \cup {None}]
      /\ work'[p].phase = "error" /\ OthersStay(p)
  BY <1>1, <1>3, <1>4, GotoEffect
<1>6. records'[k] = None /\ \A j \in Keys \ {k} : records'[j] = records[j]
  BY <1>1, <1>2, <1>3 DEF TypeOK
<1>7. TypeOK' /\ CompletedInv'
  BY <1>1, <1>3, <1>5, <1>6 DEF TypeOK, IInv, CompletedInv, Completed
<1>8. HolderOK(p)' /\ AnswerOK(p)' /\ ~At(p, Holding)'
  BY <1>5 DEF HolderOK, AnswerOK, At, Holding
<1>9. \A q \in Procs \ {p} :
        At(q, Holding) \/ At(q, {"cached", "fresh"}) => work[q].key # k /\ work[q].key \in Keys
  BY <1>1, <1>2 DEF IInv, Exclusive, AnswerOK, Completed, At, TypeOK, Job
<1> QED BY <1>3, <1>5, <1>6, <1>7, <1>8, <1>9, WorkerStep

LEMMA FailStep ==
    ASSUME IInv, NEW p \in Procs, CompleteFails(p) \/ AbandonFails(p) PROVE IInv'
<1>1. /\ work[p] # None /\ At(p, Holding) /\ UNCHANGED <<records, created>>
      /\ effects' = effects /\ effects' \subseteq Nat \X Keys
  BY DEF CompleteFails, AbandonFails, At, Holding, IInv, TypeOK
<1>2. PICK next \in {"broken", "error"} : Goto(p, next)
  BY DEF CompleteFails, AbandonFails
<1>3. next \in Phases
  BY DEF Phases, Holding, Answers
<1> QED BY <1>1, <1>2, <1>3, QuietStep

LEMMA LeaveStep == ASSUME IInv, NEW p \in Procs, Answer(p) \/ Crash(p) PROVE IInv'
<1>1. work' = [work EXCEPT ![p] = None] /\ UNCHANGED <<records, created, effects>>
  BY DEF Answer, Crash
<1>2. work'[p] = None /\ OthersStay(p)
  BY <1>1 DEF IInv, TypeOK, OthersStay
<1>3. TypeOK' /\ CompletedInv'
  BY <1>1 DEF IInv, TypeOK, CompletedInv, Completed
<1>4. ~At(p, Holding)' /\ ~At(p, {"cached", "fresh"})'
  BY <1>2 DEF At
<1> QED BY <1>1, <1>2, <1>3, <1>4, WorkerStep DEF HolderOK, AnswerOK

LEMMA IInvStep == IInv /\ [Next]_vars => IInv'
<1> SUFFICES ASSUME IInv, [Next]_vars PROVE IInv'
  OBVIOUS
<1>1. CASE Next
  BY <1>1, AcquireStep, InsertStep, RereadStep, OperateStep, CompleteStep, AbandonStep,
     FailStep, LeaveStep DEF Next
<1>2. CASE UNCHANGED vars
  BY <1>2 DEF vars, IInv, TypeOK, HolderOK, AnswerOK, Exclusive, CompletedInv, Completed,
              At, Leased
<1> QED BY <1>1, <1>2

LEMMA IInvAlways == Spec => []IInv
  BY InitIInv, IInvStep, PTL DEF Spec

(* The variables of Idempotency keep their types for all keys, workers and *)
(* digests.                                                                *)
THEOREM LeaseTypeOK == Spec => []TypeOK
<1>1. IInv => TypeOK
  BY DEF IInv
<1> QED BY <1>1, IInvAlways, PTL

(* The lease is exclusive: two workers never process requests under one    *)
(* key at once, and the record a worker leased is there, unfinished, until *)
(* that worker completes or abandons it.                                   *)
THEOREM LeaseIsExclusive == Spec => []LeaseExclusive
<1>1. IInv => LeaseExclusive
  BY DEF IInv, HolderOK, Exclusive, LeaseExclusive
<1> QED BY <1>1, IInvAlways, PTL

(* An answer given for a key, first or replayed, is the answer to a        *)
(* request with the same digest whose operation was committed.             *)
THEOREM ReplayIsFaithful == Spec => []ReplayFaithful
<1>1. IInv => ReplayFaithful
  BY DEF IInv, AnswerOK, CompletedInv, Completed, ReplayFaithful, At, TypeOK, Job
<1> QED BY <1>1, IInvAlways, PTL

(* A completed key is final: its record never changes again and the        *)
(* operation is never committed again under it.                            *)
THEOREM CompletedForGood == Spec => CompletedIsFinal
<1> DEFINE Final == \A k \in Keys : Completed(k) =>
                      /\ records'[k] = records[k]
                      /\ \A e \in effects' \ effects : e[2] # k
<1>1. IInv /\ [Next]_vars => Final
  <2> SUFFICES ASSUME IInv, [Next]_vars, NEW k \in Keys, Completed(k)
               PROVE  /\ records'[k] = records[k]
                      /\ \A e \in effects' \ effects : e[2] # k
    OBVIOUS
  <2>1. \A p \in Procs : At(p, Holding) => work[p].key # k
    BY DEF IInv, HolderOK, Completed
  <2>2. ASSUME NEW p \in Procs, InsertRecord(p)
        PROVE  records'[k] = records[k] /\ effects' = effects
    BY <2>2 DEF InsertRecord, Completed, IInv, TypeOK
  <2>3. ASSUME NEW p \in Procs, Operate(p)
        PROVE  records' = records /\ \A e \in effects' \ effects : e[2] # k
    <3>1. At(p, Holding)
      BY <2>3 DEF Operate, At, Holding
    <3> QED BY <2>1, <2>3, <3>1 DEF Operate
  <2>4. ASSUME NEW p \in Procs, Complete(p) \/ Abandon(p)
        PROVE  records'[k] = records[k] /\ effects' = effects
    <3>1. At(p, Holding)
      BY <2>4 DEF Complete, Abandon, At, Holding
    <3> QED BY <2>1, <2>4, <3>1 DEF Complete, Abandon, IInv, TypeOK
  <2>5. ASSUME NEW p \in Procs,
               \/ Acquire(p) \/ Reread(p) \/ OperateFails(p) \/ CompleteFails(p)
               \/ AbandonFails(p) \/ Answer(p) \/ Crash(p)
        PROVE  records' = records /\ effects' = effects
    BY <2>5 DEF Acquire, Reread, OperateFails, CompleteFails, AbandonFails, Answer, Crash
  <2>6. CASE UNCHANGED vars
    BY <2>6 DEF vars
  <2> QED BY <2>2, <2>3, <2>4, <2>5, <2>6 DEF Next
<1>2. IInv /\ [Next]_vars => [Final]_vars
  BY <1>1
<1> QED BY <1>2, IInvAlways, PTL DEF Spec, CompletedIsFinal, Completed
=============================================================================
