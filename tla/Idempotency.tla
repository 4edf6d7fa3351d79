----------------------------- MODULE Idempotency -----------------------------
(***************************************************************************)
(* core/idempotency.py around the operation it protects, as the endpoint   *)
(* for a forgotten password uses it: acquire a lease on the key, do the    *)
(* operation (which commits on its own and then sends its notification),   *)
(* complete the record; on an exception, abandon it.                       *)
(*                                                                         *)
(* Each database transaction of a worker is one step.  A failure inside a  *)
(* flush leaves the session unusable until a rollback that nobody issues,  *)
(* so the abandon that follows fails too ("broken"); a failure outside a   *)
(* transaction, such as the notification's, lets it succeed.               *)
(* expires_at is written and never read: it is left out.                   *)
(***************************************************************************)
EXTENDS Naturals, FiniteSets

CONSTANTS
    Keys,      \* (scope, owner, key digest) triples: the unique constraint
    Digests,   \* digests of request payloads
    Procs,     \* workers
    MaxLeases, \* bound on the records ever created (model checking only)
    None

ASSUME LeasesAssumption == MaxLeases \in Nat
ASSUME NotARow == None \notin [id : Nat, digest : Digests, status : {"in_progress", "completed"}]

VARIABLES
    records,  \* idempotency_records: key -> row or None
    created,  \* number of records created so far; the next one's id
    effects,  \* committed operations, as <<id of the lease, key>>
    work      \* worker -> what it is doing, or None

vars == <<records, created, effects, work>>

Record == [id : Nat, digest : Digests, status : {"in_progress", "completed"}]

(* "run", "complete", "abandon" and "broken" hold the lease id. *)
Holding == {"run", "complete", "abandon", "broken"}

Answers == {"fresh", "cached", "conflict", "in_progress", "error"}

Job == [phase : {"insert", "reread"} \cup Holding \cup Answers,
        key : Keys, digest : Digests, lease : Nat]

TypeOK ==
    /\ records \in [Keys -> Record \cup {None}]
    /\ created \in Nat
    /\ effects \subseteq Nat \X Keys
    /\ work \in [Procs -> Job \cup {None}]

Init ==
    /\ records = [k \in Keys |-> None]
    /\ created = 0
    /\ effects = {}
    /\ work = [p \in Procs |-> None]

At(p, phases) == work[p] # None /\ work[p].phase \in phases

Goto(p, phase) == work' = [work EXCEPT ![p].phase = phase]

(* Mutant of Existing: the request digest is not compared. *)
ExistingAnyDigest(record, digest) ==
    IF record.status = "completed" THEN "cached" ELSE "in_progress"

(* _existing_lease: what a request with this digest gets from a record.    *)
Existing(record, digest) ==
    IF record.digest # digest THEN "conflict"
    ELSE IF record.status = "completed" THEN "cached"
    ELSE "in_progress"

(* acquire_idempotency: the first SELECT. *)
Acquire(p) ==
    /\ work[p] = None
    /\ \E k \in Keys, d \in Digests :
          work' = [work EXCEPT ![p] =
              [phase  |-> IF records[k] = None THEN "insert" ELSE Existing(records[k], d),
               key    |-> k, digest |-> d, lease |-> 0]]
    /\ UNCHANGED <<records, created, effects>>

(* Mutant of InsertRecord: no unique constraint, the later record wins. *)
InsertRecordOver(p) ==
    /\ At(p, {"insert"})
    /\ created < MaxLeases
    /\ created' = created + 1
    /\ records' = [records EXCEPT ![work[p].key] = [id     |-> created + 1,
                                                   digest |-> work[p].digest,
                                                   status |-> "in_progress"]]
    /\ work' = [work EXCEPT ![p].phase = "run", ![p].lease = created + 1]
    /\ UNCHANGED effects

(* The INSERT commits, unless another worker's record took the key first:  *)
(* IntegrityError, rollback.                                               *)
InsertRecord(p) ==
    /\ At(p, {"insert"})
    /\ LET k == work[p].key IN
        IF records[k] = None
        THEN /\ created < MaxLeases
             /\ created' = created + 1
             /\ records' = [records EXCEPT ![k] = [id     |-> created + 1,
                                                   digest |-> work[p].digest,
                                                   status |-> "in_progress"]]
             /\ work' = [work EXCEPT ![p].phase = "run", ![p].lease = created + 1]
        ELSE /\ Goto(p, "reread")
             /\ UNCHANGED <<records, created>>
    /\ UNCHANGED effects

(* The SELECT after the IntegrityError; the record may be gone again, and  *)
(* then the error is raised.                                               *)
Reread(p) ==
    /\ At(p, {"reread"})
    /\ LET record == records[work[p].key] IN
          Goto(p, IF record = None THEN "error" ELSE Existing(record, work[p].digest))
    /\ UNCHANGED <<records, created, effects>>

(* The protected operation commits and its notification is sent, or the    *)
(* notification fails after the commit.  (For an unknown address there is  *)
(* nothing to commit; that the operation ran counts as its effect.)        *)
Operate(p) ==
    /\ At(p, {"run"})
    /\ effects' = effects \cup {<<work[p].lease, work[p].key>>}
    /\ \E next \in {"complete", "abandon"} : Goto(p, next)
    /\ UNCHANGED <<records, created>>

(* The operation fails before its commit: inside a flush or outside one.   *)
OperateFails(p) ==
    /\ At(p, {"run"})
    /\ \E next \in {"abandon", "broken"} : Goto(p, next)
    /\ UNCHANGED <<records, created, effects>>

Leased(p) ==
    LET record == records[work[p].key] IN record # None /\ record.id = work[p].lease

(* complete_idempotency; a record that is gone is a RuntimeError. *)
Complete(p) ==
    /\ At(p, {"complete"})
    /\ IF Leased(p)
       THEN /\ records' = [records EXCEPT ![work[p].key].status = "completed"]
            /\ Goto(p, "fresh")
       ELSE /\ Goto(p, "abandon")
            /\ UNCHANGED records
    /\ UNCHANGED <<created, effects>>

(* The flush of the completed record fails. *)
CompleteFails(p) ==
    /\ At(p, {"complete"})
    /\ Goto(p, "broken")
    /\ UNCHANGED <<records, created, effects>>

(* Mutant of Abandon: the key is freed in the row, the row is kept. *)
AbandonKeepingRow(p) ==
    /\ At(p, {"abandon"})
    /\ records' = IF Leased(p) THEN [records EXCEPT ![work[p].key].status = "abandoned"]
                  ELSE records
    /\ Goto(p, "error")
    /\ UNCHANGED <<created, effects>>

(* abandon_idempotency *)
Abandon(p) ==
    /\ At(p, {"abandon"})
    /\ records' = IF Leased(p) /\ records[work[p].key].status = "in_progress"
                  THEN [records EXCEPT ![work[p].key] = None]
                  ELSE records
    /\ Goto(p, "error")
    /\ UNCHANGED <<created, effects>>

(* abandon_idempotency raises on the broken session. *)
AbandonFails(p) ==
    /\ At(p, {"broken"})
    /\ Goto(p, "error")
    /\ UNCHANGED <<records, created, effects>>

Answer(p) ==
    /\ At(p, Answers)
    /\ work' = [work EXCEPT ![p] = None]
    /\ UNCHANGED <<records, created, effects>>

(* The worker dies at any point of its request. *)
Crash(p) ==
    /\ At(p, {"insert", "reread"} \cup Holding)
    /\ work' = [work EXCEPT ![p] = None]
    /\ UNCHANGED <<records, created, effects>>

Next ==
    \E p \in Procs :
        \/ Acquire(p) \/ InsertRecord(p) \/ Reread(p)
        \/ Operate(p) \/ OperateFails(p)
        \/ Complete(p) \/ CompleteFails(p)
        \/ Abandon(p) \/ AbandonFails(p)
        \/ Answer(p) \/ Crash(p)

Spec == Init /\ [][Next]_vars
-----------------------------------------------------------------------------
(* One worker at a time works under a key, and the record it leased is     *)
(* there, unfinished, for as long as it works: neither the RuntimeError of *)
(* complete_idempotency nor an abandon of somebody else's record happens.  *)
LeaseExclusive ==
    \A p \in Procs : At(p, Holding) =>
        /\ Leased(p)
        /\ records[work[p].key].status = "in_progress"
        /\ \A q \in Procs : At(q, Holding) /\ work[q].key = work[p].key => q = p

(* A replayed answer is the answer to this very request, and the operation *)
(* behind it was committed under the lease that completed the record.      *)
ReplayFaithful ==
    \A p \in Procs : At(p, {"cached", "fresh"}) =>
        LET record == records[work[p].key] IN
        /\ record # None /\ record.digest = work[p].digest /\ record.status = "completed"
        /\ <<record.id, work[p].key>> \in effects

(* Once a key has an answer, it is final: the record stays as it is, and   *)
(* the operation is never committed again under the key.                   *)
CompletedIsFinal ==
    [][\A k \in Keys : records[k] # None /\ records[k].status = "completed" =>
          /\ records'[k] = records[k]
          /\ \A e \in effects' \ effects : e[2] # k]_vars

(* What the refusal request.idempotency_in_progress tells the caller: a    *)
(* record in progress has a worker that is processing its request.         *)
InProgressMeansRunning ==
    \A k \in Keys : records[k] # None /\ records[k].status = "in_progress" =>
        \E p \in Procs : At(p, Holding) /\ work[p].key = k
=============================================================================
