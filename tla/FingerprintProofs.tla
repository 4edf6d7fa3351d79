--------------------------- MODULE FingerprintProofs ---------------------------
(***************************************************************************)
(* The window's safety properties, for any number of files, contents and   *)
(* blocks: the type, the buttons, the fingerprint and its progress bar.    *)
(***************************************************************************)
EXTENDS FingerprintWindow, FiniteSetTheorems, TLAPS

Active == {"opening", "reading", "returning"}

(* IsBusy, _running and the buttons in every stage of a calculation.  When *)
(* there is none, Calculate shows the last answer of File.Exists.          *)
ButtonsInStep ==
    /\ job # None /\ job.stage \in Active =>
          /\ isBusy /\ running
          /\ enabled = [b \in Buttons |-> b = "cancel"]
    /\ job # None /\ job.stage = "ending" =>
          /\ ~isBusy /\ enabled["select"] /\ ~enabled["cancel"]
    /\ job = None =>
          /\ ~isBusy /\ ~running
          /\ enabled["select"] /\ ~enabled["cancel"]
          /\ enabled["calculate"] = seen

(* A calculation is about the selected file, and hashes the one version    *)
(* that lies on the disk as long as it reads.                              *)
JobOfSelected ==
    job # None =>
        /\ job.file = selected
        /\ job.stage = "opening" => job.read = {}
        /\ job.stage = "reading" =>
              disk[job.file] # None /\ job.read \subseteq {disk[job.file].version}
        /\ \E v : job.read \subseteq {v}

ResultOfSelected ==
    result # None => result.file = selected /\ \E v : result.read \subseteq {v}

(* What the progress bar will show when every report has been shown. *)
LastReport == IF posted = << >> THEN progress ELSE posted[Len(posted)]

FullBeforeResult ==
    /\ job # None /\ job.stage \in Active => result = None
    /\ job # None /\ job.outcome = "done" => job.stage \notin {"opening", "reading"}
    /\ job # None /\ job.stage = "returning" /\ job.outcome = "done" => LastReport = 100
    /\ result # None => LastReport = 100

WindowInv == TypeOK /\ ButtonsInStep /\ JobOfSelected /\ ResultOfSelected /\ FullBeforeResult
-----------------------------------------------------------------------------
LEMMA PercentType ==
    ASSUME NEW n \in Nat, NEW size \in Nat
    PROVE  Percent(n, size) \in Nat
<1>1. CASE size = 0
    BY <1>1 DEF Percent
<1>2. CASE size # 0
    <2> DEFINE q == (n * 100) \div size
    <2>1. q \in Int /\ size * q <= n * 100 /\ n * 100 < size * q + size /\ size > 0
        BY <1>2, Z3
    <2>2. q >= 0
        BY <2>1, Z3
    <2> QED BY <1>2, <2>1, <2>2 DEF Percent
<1> QED BY <1>1, <1>2

(* Showing the oldest report leaves the last one to be the last. *)
LEMMA LastReportShown ==
    ASSUME posted \in Seq(Nat), ShowProgress
    PROVE  LastReport' = LastReport
<1>1. posted # << >> /\ Len(posted) \in Nat \ {0} /\ Len(posted') = Len(posted) - 1
    BY DEF ShowProgress
<1>2. CASE Len(posted) = 1
    <2>1. posted' = << >>
        BY <1>1, <1>2 DEF ShowProgress
    <2> QED BY <1>1, <1>2, <2>1 DEF ShowProgress, LastReport
<1>3. CASE Len(posted) # 1
    <2> DEFINE n == Len(posted)
    <2>1. posted' = Tail(posted) /\ n > 1
        BY <1>1, <1>3 DEF ShowProgress
    <2>2. Tail(posted)[n - 1] = posted[n]
        BY <1>1, <2>1
    <2>3. posted' # << >> /\ posted'[Len(posted')] = posted[n]
        BY <1>1, <2>1, <2>2
    <2> QED BY <1>1, <2>3 DEF LastReport
<1> QED BY <1>2, <1>3

LEMMA LastReportAppended ==
    ASSUME posted \in Seq(Nat), NEW n \in Nat, Report(n)
    PROVE  LastReport' = n
BY DEF Report, LastReport

LEMMA JobRunning ==
    ASSUME TypeOK, job # None
    PROVE  /\ job \in Job
           /\ job.stage \in {"opening", "reading", "returning", "ending"}
           /\ job.file \in Files /\ job.size \in Nat /\ job.blocks \in Nat
           /\ disk[job.file] # None =>
                 disk[job.file].version \in Versions /\ disk[job.file].blocks \in 0..MaxBlocks
BY FilesAssumption DEF TypeOK, Job, Content

LEMMA Opened ==
    ASSUME job \in Job, job' = [job EXCEPT !.stage = "reading"]
    PROVE  /\ job' \in Job /\ job' # None /\ job'.stage = "reading"
           /\ job'.file = job.file /\ job'.outcome = job.outcome /\ job'.read = job.read
<1>1. job' \in Job
    BY DEF Job
<1> QED BY <1>1, NoneAssumption DEF Job

LEMMA Ended ==
    ASSUME job \in Job, job' = [job EXCEPT !.stage = "ending"]
    PROVE  /\ job' \in Job /\ job' # None /\ job'.stage = "ending"
           /\ job'.file = job.file /\ job'.outcome = job.outcome /\ job'.read = job.read
<1>1. job' \in Job
    BY DEF Job
<1> QED BY <1>1, NoneAssumption DEF Job

LEMMA Returned ==
    ASSUME job \in Job, NEW outcome \in Outcomes, Return(outcome)
    PROVE  /\ job' \in Job /\ job' # None /\ job'.stage = "returning"
           /\ job'.file = job.file /\ job'.outcome = outcome /\ job'.read = job.read
<1>1. job' \in Job
    BY DEF Job, Return
<1> QED BY <1>1, NoneAssumption DEF Job, Return

LEMMA BlockRead ==
    ASSUME TypeOK, ReadBlock, disk[job.file] # None
    PROVE  /\ job' \in Job /\ job' # None
           /\ job'.stage \in {"reading", "returning"}
           /\ job'.outcome = IF job'.stage = "reading" THEN job.outcome ELSE "cancelled"
           /\ job'.file = job.file
           /\ job'.read = job.read \cup {disk[job.file].version}
<1>1. job \in Job /\ job.stage = "reading"
    BY JobRunning DEF ReadBlock, At
<1>2. job.blocks + 1 \in 0..MaxBlocks /\ disk[job.file].version \in Versions
    BY <1>1, JobRunning, FilesAssumption DEF ReadBlock, At, MoreToRead
<1> DEFINE more == [job EXCEPT !.blocks = @ + 1, !.read = @ \cup {disk[job.file].version}]
<1>3. /\ more \in Job /\ more.stage = "reading" /\ more.outcome = job.outcome
      /\ more.file = job.file /\ more.read = job.read \cup {disk[job.file].version}
    BY <1>1, <1>2 DEF Job
<1>4. CASE cancellation = "requested"
    <2>1. job' = [more EXCEPT !.stage = "returning", !.outcome = "cancelled"]
        BY <1>4 DEF ReadBlock
    <2> HIDE DEF more
    <2>2. job' \in Job
        BY <1>3, <2>1 DEF Job, Outcomes
    <2> QED BY <1>3, <2>1, <2>2, NoneAssumption DEF Job
<1>5. CASE cancellation # "requested"
    BY <1>1, <1>3, <1>5, NoneAssumption DEF ReadBlock
<1> QED BY <1>4, <1>5

(* The fields of a new calculation. *)
LEMMA Started ==
    ASSUME TypeOK, Calculate
    PROVE  /\ job' \in Job /\ job' # None /\ selected \in Files
           /\ job'.stage = "opening" /\ job'.outcome = None
           /\ job'.file = selected /\ job'.read = {}
<1>1. selected \in Files /\ disk[selected] \in Content
    BY DEF Calculate, Clicked, CanExecute, Exists, TypeOK
<1>2. disk[selected].blocks \in 0..MaxBlocks
    BY <1>1 DEF Content
<1>3. job' = [stage |-> "opening", outcome |-> None, file |-> selected,
              size |-> disk[selected].blocks, read |-> {}, blocks |-> 0]
    BY DEF Calculate
<1>4. job' \in Job
    BY <1>1, <1>2, <1>3, FilesAssumption DEF Job
<1> QED BY <1>1, <1>3, <1>4, NoneAssumption
-----------------------------------------------------------------------------
LEMMA WindowInit == Init => WindowInv
<1> SUFFICES ASSUME Init PROVE WindowInv
    OBVIOUS
<1>1. enabled \in [Buttons -> BOOLEAN]
    BY DEF Init
<1>2. TypeOK
    <2>1. << >> \in Seq(Nat)
        OBVIOUS
    <2> QED BY <1>1, <2>1 DEF Init, TypeOK
<1>3. ButtonsInStep
    BY DEF Init, ButtonsInStep, Buttons
<1> QED BY <1>2, <1>3 DEF Init, WindowInv, JobOfSelected, ResultOfSelected, FullBeforeResult

LEMMA NotifyType ==
    ASSUME NEW busy \in BOOLEAN, NEW run \in BOOLEAN, NEW file, Notify(busy, run, file)
    PROVE  /\ enabled' \in [Buttons -> BOOLEAN]
           /\ enabled'["select"] = ~busy
           /\ enabled'["calculate"] = (~run /\ ~busy /\ Exists(file))
           /\ enabled'["cancel"] = busy
           /\ seen' = Exists(file) /\ seen' \in BOOLEAN
<1>1. \A b \in Buttons : CanExecute(b, busy, run, file) \in BOOLEAN
    BY DEF Buttons, CanExecute, Exists
<1>2. /\ CanExecute("select", busy, run, file) = ~busy
      /\ CanExecute("calculate", busy, run, file) = (~run /\ ~busy /\ Exists(file))
      /\ CanExecute("cancel", busy, run, file) = busy
    BY DEF CanExecute
<1>3. seen' = Exists(file) /\ seen' \in BOOLEAN
    BY DEF Notify, Exists
<1>4. /\ enabled' \in [Buttons -> BOOLEAN]
      /\ enabled'["select"] = ~busy
      /\ enabled'["calculate"] = (~run /\ ~busy /\ Exists(file))
      /\ enabled'["cancel"] = busy
    BY <1>1, <1>2 DEF Notify, Buttons
<1> QED BY <1>3, <1>4
-----------------------------------------------------------------------------
LEMMA TypeStep ==
    ASSUME TypeOK, JobOfSelected, [Next]_vars
    PROVE  TypeOK'
<1> USE DEF TypeOK
<1>1. CASE Select
    <2>1. enabled' \in [Buttons -> BOOLEAN] /\ seen' \in BOOLEAN
        BY <1>1, NotifyType DEF Select
    <2> QED BY <1>1, <2>1 DEF Select
<1>2. CASE Calculate
    <2>1. enabled' \in [Buttons -> BOOLEAN] /\ seen' \in BOOLEAN
        BY <1>2, NotifyType DEF Calculate
    <2> QED BY <1>2, <2>1, Started DEF Calculate
<1>3. CASE Cancel
    BY <1>3 DEF Cancel, buttonVars
<1>4. CASE Open
    BY <1>4, JobRunning, Opened, Returned DEF Open, At, Outcomes, windowVars, buttonVars
<1>5. CASE ReadBlock
    <2>1. job \in Job /\ disk[job.file] # None /\ job.blocks + 1 \in Nat /\ job.size \in Nat
        BY <1>5, JobRunning DEF ReadBlock, At, JobOfSelected
    <2>2. posted' \in Seq(Nat)
        BY <1>5, <2>1, PercentType DEF ReadBlock, Report
    <2> QED BY <1>5, <2>1, <2>2, BlockRead DEF ReadBlock, windowVars, buttonVars
<1>6. CASE ReadEnd
    BY <1>6, JobRunning, Returned DEF ReadEnd, At, Outcomes, ReportEnd, Report, windowVars, buttonVars
<1>7. CASE ReadCancelled \/ ReadFails
    BY <1>7, JobRunning, Returned DEF ReadCancelled, ReadFails, At, Outcomes, windowVars, buttonVars
<1>8. CASE Complete
    <2>1. job' \in Job /\ job \in Job
        BY <1>8, JobRunning, Ended DEF Complete, At
    <2>2. result' \in Result \cup {None}
        BY <1>8, <2>1 DEF Complete, Job, Result
    <2>3. enabled' \in [Buttons -> BOOLEAN] /\ seen' \in BOOLEAN
        BY <1>8, NotifyType DEF Complete, Finally
    <2> QED BY <1>8, <2>1, <2>2, <2>3 DEF Complete, Finally
<1>9. CASE EndExecute
    <2>1. CanExecute("calculate", isBusy, FALSE, selected) \in BOOLEAN
          /\ Exists(selected) \in BOOLEAN
        BY DEF CanExecute, Exists
    <2> QED BY <1>9, <2>1 DEF EndExecute
<1>10. CASE ShowProgress
    BY <1>10 DEF ShowProgress, buttonVars
<1>11. CASE WriteFile \/ DeleteFile
    BY <1>11 DEF WriteFile, DeleteFile, windowVars, buttonVars
<1>12. CASE UNCHANGED vars
    BY <1>12 DEF vars, windowVars, buttonVars
<1> QED BY <1>1, <1>2, <1>3, <1>4, <1>5, <1>6, <1>7, <1>8, <1>9, <1>10, <1>11, <1>12
       DEF Next, Reading

LEMMA ButtonsStep ==
    ASSUME TypeOK, ButtonsInStep, JobOfSelected, [Next]_vars
    PROVE  ButtonsInStep'
<1> USE DEF ButtonsInStep, Active
<1>1. CASE Select
    <2>1. enabled["select"] /\ ~isBusy
        BY <1>1 DEF Select, Clicked, CanExecute
    <2>2. job = None
        BY <1>1, <2>1 DEF Select, Clicked, TakesInput, At
    <2> QED BY <1>1, <2>1, <2>2, NotifyType DEF Select, TypeOK
<1>2. CASE Calculate
    <2>1. isBusy' /\ running' /\ Notify(TRUE, TRUE, selected)
        BY <1>2 DEF Calculate
    <2>2. enabled' = [b \in Buttons |-> b = "cancel"]
        BY <2>1, NotifyType DEF Buttons
    <2> QED BY <1>2, <2>1, <2>2, Started
<1>3. CASE Cancel
    BY <1>3 DEF Cancel, buttonVars
<1>4. CASE Open
    BY <1>4, JobRunning, Opened, Returned DEF Open, At, Outcomes, windowVars, buttonVars
<1>5. CASE ReadBlock
    <2>1. disk[job.file] # None
        BY <1>5 DEF ReadBlock, At, JobOfSelected
    <2> QED BY <1>5, <2>1, BlockRead DEF ReadBlock, At, windowVars, buttonVars
<1>6. CASE ReadEnd \/ ReadCancelled \/ ReadFails
    BY <1>6, JobRunning, Returned
       DEF ReadEnd, ReadCancelled, ReadFails, At, Outcomes, windowVars, buttonVars
<1>7. CASE Complete
    <2>1. ~isBusy' /\ enabled'["select"] /\ ~enabled'["cancel"]
        BY <1>7, NotifyType DEF Complete, Finally, TypeOK
    <2> QED BY <1>7, <2>1, JobRunning, Ended DEF Complete, At
<1>8. CASE EndExecute
    <2>1. CanExecute("calculate", isBusy, FALSE, selected) = (~isBusy /\ Exists(selected))
        BY DEF CanExecute
    <2>2. ~isBusy /\ enabled["select"] /\ ~enabled["cancel"]
        BY <1>8 DEF EndExecute, At
    <2>3. enabled'["calculate"] = seen'
        BY <1>8, <2>1, <2>2 DEF EndExecute, TypeOK, Buttons, Exists
    <2>4. enabled'["select"] /\ ~enabled'["cancel"]
        BY <1>8, <2>2 DEF EndExecute, TypeOK, Buttons
    <2> QED BY <1>8, <2>2, <2>3, <2>4 DEF EndExecute
<1>9. CASE ShowProgress
    BY <1>9 DEF ShowProgress, buttonVars
<1>10. CASE WriteFile \/ DeleteFile
    BY <1>10 DEF WriteFile, DeleteFile, windowVars, buttonVars
<1>11. CASE UNCHANGED vars
    BY <1>11 DEF vars, windowVars, buttonVars
<1> QED BY <1>1, <1>2, <1>3, <1>4, <1>5, <1>6, <1>7, <1>8, <1>9, <1>10, <1>11
       DEF Next, Reading

(* The stream shares the file for reading only: what is being hashed does  *)
(* not change before the calculation has returned.                         *)
LEMMA JobStep ==
    ASSUME TypeOK, ButtonsInStep, JobOfSelected, [Next]_vars
    PROVE  JobOfSelected'
<1> USE DEF JobOfSelected
<1>1. CASE Select
    <2>1. job = None
        BY <1>1 DEF Select, Clicked, CanExecute, TakesInput, At, ButtonsInStep, Active
    <2> QED BY <1>1, <2>1 DEF Select
<1>2. CASE Calculate
    <2>1. selected' = selected
        BY <1>2 DEF Calculate
    <2> QED BY <1>2, <2>1, Started
<1>3. CASE Cancel
    BY <1>3 DEF Cancel
<1>4. CASE Open
    <2>1. job \in Job /\ disk' = disk /\ selected' = selected /\ job.read = {}
        BY <1>4, JobRunning DEF Open, At, windowVars, buttonVars
    <2>2. CASE Exists(job.file) /\ job' = [job EXCEPT !.stage = "reading"]
        BY <1>4, <2>1, <2>2, Opened DEF Open, At, Exists
    <2>3. CASE Return("failed")
        BY <1>4, <2>1, <2>3, Returned DEF Open, At, Outcomes
    <2> QED BY <1>4, <2>2, <2>3 DEF Open
<1>5. CASE ReadBlock
    <2>1. /\ disk[job.file] # None /\ disk' = disk /\ selected' = selected
          /\ job.file = selected /\ job.read \subseteq {disk[job.file].version}
        BY <1>5 DEF ReadBlock, At, windowVars, buttonVars
    <2>2. job'.file = selected /\ job'.read \subseteq {disk[job.file].version}
          /\ job'.stage \in {"reading", "returning"}
        BY <1>5, <2>1, BlockRead
    <2> QED BY <2>1, <2>2
<1>6. CASE ReadEnd \/ ReadCancelled \/ ReadFails
    BY <1>6, JobRunning, Returned
       DEF ReadEnd, ReadCancelled, ReadFails, At, Outcomes, windowVars, buttonVars
<1>7. CASE Complete
    BY <1>7, JobRunning, Ended DEF Complete, At
<1>8. CASE EndExecute
    BY <1>8 DEF EndExecute
<1>9. CASE ShowProgress
    BY <1>9 DEF ShowProgress
<1>10. CASE WriteFile \/ DeleteFile
    <2>1. job' = job /\ selected' = selected
        BY <1>10 DEF WriteFile, DeleteFile, windowVars, buttonVars
    <2>2. job # None /\ job.stage = "reading" => disk'[job.file] = disk[job.file]
        BY <1>10, JobRunning DEF WriteFile, DeleteFile, Writable, At, TypeOK
    <2> QED BY <2>1, <2>2
<1>11. CASE UNCHANGED vars
    BY <1>11 DEF vars, windowVars, buttonVars
<1> QED BY <1>1, <1>2, <1>3, <1>4, <1>5, <1>6, <1>7, <1>8, <1>9, <1>10, <1>11
       DEF Next, Reading

LEMMA ResultStep ==
    ASSUME TypeOK, ButtonsInStep, JobOfSelected, ResultOfSelected, [Next]_vars
    PROVE  ResultOfSelected'
<1> USE DEF ResultOfSelected
<1>1. CASE Select
    BY <1>1 DEF Select
<1>2. CASE Calculate
    BY <1>2 DEF Calculate
<1>3. CASE Complete
    <2>1. CASE job.outcome = "done"
        <3>1. result'.file = job.file /\ result'.read = job.read /\ selected' = selected
            BY <1>3, <2>1 DEF Complete
        <3> QED BY <1>3, <3>1 DEF Complete, At, JobOfSelected
    <2>2. CASE job.outcome # "done"
        BY <1>3, <2>2 DEF Complete
    <2> QED BY <2>1, <2>2
<1>4. CASE UNCHANGED <<result, selected>>
    BY <1>4
<1>5. CASE Cancel \/ Open \/ Reading \/ EndExecute \/ ShowProgress \/ WriteFile \/ DeleteFile
           \/ UNCHANGED vars
    BY <1>4, <1>5
       DEF Cancel, Open, Reading, ReadBlock, ReadEnd, ReadCancelled, ReadFails, EndExecute,
           ShowProgress, WriteFile, DeleteFile, windowVars, buttonVars, vars
<1> QED BY <1>1, <1>2, <1>3, <1>5 DEF Next

(* The last report of a whole reading is 100, and it stays the last until  *)
(* the next calculation, which takes the result away.                      *)
LEMMA FullStep ==
    ASSUME TypeOK, ButtonsInStep, JobOfSelected, FullBeforeResult, [Next]_vars
    PROVE  FullBeforeResult'
<1> USE DEF FullBeforeResult
<1>1. CASE Select
    <2>1. job = None
        BY <1>1 DEF Select, Clicked, CanExecute, TakesInput, At, ButtonsInStep, Active
    <2> QED BY <1>1, <2>1 DEF Select
<1>2. CASE Calculate
    <2>1. result' = None
        BY <1>2 DEF Calculate
    <2>2. job'.outcome # "done"
        BY <1>2, Started, NoneAssumption DEF Outcomes
    <2> QED BY <2>1, <2>2
<1>3. CASE Cancel
    <2>1. LastReport' = LastReport
        BY <1>3 DEF Cancel, LastReport
    <2> QED BY <1>3, <2>1 DEF Cancel
<1>4. CASE Open
    <2>1. /\ job \in Job /\ job # None /\ job.stage = "opening"
          /\ result' = result /\ result = None /\ job.outcome # "done"
        BY <1>4, JobRunning DEF Open, At, windowVars, buttonVars, Active
    <2>2. job'.outcome # "done"
        BY <1>4, <2>1, Opened, Returned DEF Open, Outcomes
    <2> QED BY <2>1, <2>2
<1>5. CASE ReadBlock
    <2>1. /\ disk[job.file] # None /\ result' = result /\ result = None
          /\ job.outcome # "done"
        BY <1>5 DEF ReadBlock, At, windowVars, buttonVars, Active, JobOfSelected
    <2>2. job'.outcome # "done"
        BY <1>5, <2>1, BlockRead
    <2> QED BY <2>1, <2>2
<1>6. CASE ReadEnd
    <2>1. job \in Job /\ result' = result /\ result = None
        BY <1>6, JobRunning DEF ReadEnd, At, windowVars, buttonVars, Active
    <2>2. job'.stage = "returning"
        BY <1>6, <2>1, Returned DEF ReadEnd, Outcomes
    <2>3. LastReport' = 100
        BY <1>6, LastReportAppended DEF ReadEnd, ReportEnd, TypeOK
    <2> QED BY <2>1, <2>2, <2>3
<1>7. CASE ReadCancelled \/ ReadFails
    <2>1. job \in Job /\ result' = result /\ result = None
        BY <1>7, JobRunning DEF ReadCancelled, ReadFails, At, windowVars, buttonVars, Active
    <2>2. job'.outcome # "done"
        BY <1>7, <2>1, Returned DEF ReadCancelled, ReadFails, Outcomes
    <2> QED BY <2>1, <2>2
<1>8. CASE Complete
    <2>1. /\ job \in Job /\ job # None /\ job.stage = "returning" /\ result = None
          /\ LastReport' = LastReport
        BY <1>8, JobRunning DEF Complete, At, Active, LastReport
    <2>2. job' # None /\ job'.stage = "ending"
        BY <1>8, <2>1, Ended DEF Complete
    <2>3. result' # None => LastReport' = 100
        BY <1>8, <2>1 DEF Complete
    <2> QED BY <2>2, <2>3 DEF Active
<1>9. CASE EndExecute
    <2>1. LastReport' = LastReport
        BY <1>9 DEF EndExecute, LastReport
    <2> QED BY <1>9, <2>1 DEF EndExecute
<1>10. CASE ShowProgress
    <2>1. LastReport' = LastReport
        BY <1>10, LastReportShown DEF TypeOK
    <2> QED BY <1>10, <2>1 DEF ShowProgress
<1>11. CASE WriteFile \/ DeleteFile \/ UNCHANGED vars
    <2>1. LastReport' = LastReport
        BY <1>11 DEF WriteFile, DeleteFile, windowVars, buttonVars, vars, LastReport
    <2> QED BY <1>11, <2>1 DEF WriteFile, DeleteFile, windowVars, buttonVars, vars
<1> QED BY <1>1, <1>2, <1>3, <1>4, <1>5, <1>6, <1>7, <1>8, <1>9, <1>10, <1>11
       DEF Next, Reading
-----------------------------------------------------------------------------
(* The inductive invariant of the window: buttons, calculation, result and *)
(* progress reports agree in every step.                                   *)
THEOREM WindowInvariant == Spec => []WindowInv
<1>1. WindowInv /\ [Next]_vars => WindowInv'
    BY TypeStep, ButtonsStep, JobStep, ResultStep, FullStep DEF WindowInv
<1> QED BY WindowInit, <1>1, PTL DEF Spec

(* The values of the window's properties and of the calculation. *)
THEOREM WindowTypeOK == Spec => []TypeOK
<1>1. WindowInv => TypeOK
    BY DEF WindowInv
<1> QED BY WindowInvariant, <1>1, PTL

(* At rest the buttons show what their CanExecute says, Calculate with the *)
(* last answer of File.Exists, for any files, contents and other programs  *)
(* that create and remove them.                                            *)
THEOREM WindowButtonsUsable == Spec => []ButtonsUsable
<1>1. WindowInv => ButtonsUsable
    BY DEF WindowInv, ButtonsInStep, Active, ButtonsUsable, At, AtRest
<1> QED BY WindowInvariant, <1>1, PTL

(* The fingerprint shown is the selected file's, of one version of it.     *)
THEOREM WindowFingerprintOfSelected == Spec => []FingerprintOfSelected
<1>1. ASSUME WindowInv PROVE FingerprintOfSelected
    <2> SUFFICES ASSUME result # None
                 PROVE  result.file = selected /\ Cardinality(result.read) <= 1
        BY DEF FingerprintOfSelected
    <2>1. PICK v : result.file = selected /\ result.read \subseteq {v}
        BY <1>1 DEF WindowInv, ResultOfSelected
    <2>2. result.read = {} \/ result.read = {v}
        BY <2>1
    <2>3. Cardinality(result.read) \in {0, 1}
        BY <2>2, FS_EmptySet, FS_Singleton
    <2> QED BY <2>1, <2>3
<1> QED BY WindowInvariant, <1>1, PTL

(* A result at rest stands beside a full progress bar. *)
THEOREM WindowResultMeansFull == Spec => []ResultMeansFull
<1>1. WindowInv => ResultMeansFull
    BY DEF WindowInv, FullBeforeResult, ResultMeansFull, AtRest, LastReport
<1> QED BY WindowInvariant, <1>1, PTL
=============================================================================
