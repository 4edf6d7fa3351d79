--------------------------- MODULE FingerprintWindow ---------------------------
(***************************************************************************)
(* The Windows client: one window that fingerprints a local file.          *)
(* Everything runs on the UI thread, in pieces: a click is handled up to   *)
(* the first await, every read of the file resumes the loop, and progress  *)
(* reports and continuations are posted to the dispatcher, which runs them *)
(* before it looks at the next click.  Other programs write, remove and    *)
(* create the files.                                                       *)
(***************************************************************************)
EXTENDS Naturals, FiniteSets, Sequences

CONSTANTS
    Files,       \* paths the user can select
    Versions,    \* contents a file can have
    MaxBlocks,   \* longest file, in reads of BufferSize
    None

ASSUME FilesAssumption ==
    /\ MaxBlocks \in Nat
    /\ None \notin Files

VARIABLES
    disk,          \* path -> [version, blocks] of the file there, or None
    selected,      \* SelectedFile, or None
    result,        \* Result: what was read of which file, or None
    progress,      \* Progress, in percent
    isBusy,        \* IsBusy
    running,       \* _running of the calculate command
    cancellation,  \* _cancellation: None, "live" or "requested"
    enabled,       \* button -> what CanExecute answered when it was last asked
    seen,          \* the selected file was there when Calculate was last asked (history)
    job,           \* the calculation under way, or None
    posted         \* progress reports the dispatcher has yet to run

buttonVars == <<enabled, seen>>

windowVars == <<selected, result, progress, isBusy, running, cancellation, buttonVars>>

vars == <<disk, windowVars, job, posted>>

Buttons == {"select", "calculate", "cancel"}

Outcomes == {"done", "cancelled", "failed"}

Content == [version : Versions, blocks : 0..MaxBlocks]

Result == [file : Files, size : 0..MaxBlocks, read : SUBSET Versions, blocks : 0..MaxBlocks]

(* stage: where the calculation is; size: file.Length, as it was when      *)
(* file.Exists was asked; read, blocks: what went into the hashes so far.  *)
Job ==
    [stage : {"opening", "reading", "returning", "ending"},
     outcome : Outcomes \cup {None},
     file : Files, size : 0..MaxBlocks, read : SUBSET Versions, blocks : 0..MaxBlocks]

ASSUME NoneAssumption ==
    /\ None \notin Content
    /\ None \notin Result
    /\ None \notin Job
    /\ None \notin Outcomes

TypeOK ==
    /\ disk \in [Files -> Content \cup {None}]
    /\ selected \in Files \cup {None}
    /\ result \in Result \cup {None}
    /\ progress \in Nat
    /\ isBusy \in BOOLEAN
    /\ running \in BOOLEAN
    /\ cancellation \in {None, "live", "requested"}
    /\ enabled \in [Buttons -> BOOLEAN]
    /\ seen \in BOOLEAN
    /\ job \in Job \cup {None}
    /\ posted \in Seq(Nat)

At(stage) == job # None /\ job.stage = stage

Exists(f) == f # None /\ disk[f] # None

(* The CanExecute of a button's command. *)
CanExecute(button, busy, run, file) ==
    CASE button = "select" -> ~busy
      [] button = "calculate" -> ~run /\ ~busy /\ Exists(file)
      [] button = "cancel" -> busy

(* NotifyCommands: all buttons ask again. *)
Notify(busy, run, file) ==
    /\ enabled' = [b \in Buttons |-> CanExecute(b, busy, run, file)]
    /\ seen' = Exists(file)

Init ==
    /\ disk \in [Files -> Content \cup {None}]
    /\ selected = None /\ result = None /\ progress = 0
    /\ isBusy = FALSE /\ running = FALSE /\ cancellation = None
    /\ enabled = [b \in Buttons |-> b = "select"] /\ seen = FALSE
    /\ job = None /\ posted = << >>
-----------------------------------------------------------------------------
(* Clicks.  The dispatcher takes input only when nothing is posted; a      *)
(* calculation lets it by waiting for the disk.                            *)

TakesInput == posted = << >> /\ (job = None \/ At("reading"))

(* A button that is enabled asks its command once more when it is clicked. *)
Clicked(button) ==
    TakesInput /\ enabled[button] /\ CanExecute(button, isBusy, running, selected)

(* SelectFile, when the dialog is closed with a file.  The dialog checked  *)
(* that it exists; it may be gone again when the buttons ask.              *)
Select ==
    /\ Clicked("select")
    /\ \E f \in Files : selected' = f /\ Notify(isBusy, running, f)
    /\ result' = None
    /\ progress' = 0
    /\ UNCHANGED <<disk, isBusy, running, cancellation, job, posted>>

(* Execute of the command, CalculateAsync and the service's CalculateAsync *)
(* up to file.Exists.                                                      *)
Calculate ==
    /\ Clicked("calculate")
    /\ running' = TRUE
    /\ isBusy' = TRUE
    /\ Notify(TRUE, TRUE, selected)
    /\ result' = None
    /\ progress' = 0
    /\ cancellation' = "live"
    /\ job' = [stage |-> "opening", outcome |-> None, file |-> selected,
               size |-> disk[selected].blocks, read |-> {}, blocks |-> 0]
    /\ UNCHANGED <<disk, selected, posted>>

Cancel ==
    /\ Clicked("cancel")
    /\ cancellation' = IF cancellation = None THEN None ELSE "requested"
    /\ UNCHANGED <<disk, selected, result, progress, isBusy, running, buttonVars, job, posted>>
-----------------------------------------------------------------------------
(* FileFingerprintService.CalculateAsync.                                  *)

Return(outcome) ==
    job' = [job EXCEPT !.stage = "returning", !.outcome = outcome]

(* Another program may have got in between file.Exists and here. *)
Open ==
    /\ At("opening")
    /\ \/ Exists(job.file) /\ job' = [job EXCEPT !.stage = "reading"]
       \/ Return("failed")
    /\ UNCHANGED <<disk, windowVars, posted>>

Percent(blocks, size) == IF size = 0 THEN 100 ELSE (blocks * 100) \div size

Report(percent) == posted' = Append(posted, percent)

(* Mutant of MoreToRead: an empty read does not end the loop. *)
MoreToReadAtEnd == job.blocks <= disk[job.file].blocks

(* The next ReadAsync brings something. *)
MoreToRead == job.blocks < disk[job.file].blocks

(* A read that was under way when the token was cancelled may still bring  *)
(* its block; the next one does not start.                                 *)
ReadBlock ==
    /\ At("reading")
    /\ MoreToRead
    /\ LET more == [job EXCEPT !.blocks = @ + 1, !.read = @ \cup {disk[job.file].version}]
       IN  job' = IF cancellation = "requested"
                  THEN [more EXCEPT !.stage = "returning", !.outcome = "cancelled"]
                  ELSE more
    /\ Report(Percent(job.blocks + 1, job.size))
    /\ UNCHANGED <<disk, windowVars>>

(* Mutant of ReportEnd: the loop has reported it all already. *)
ReportEndNever == UNCHANGED posted

ReportEnd == Report(100)

(* The last read brings nothing. *)
ReadEnd ==
    /\ At("reading")
    /\ job.blocks >= disk[job.file].blocks
    /\ Return("done")
    /\ ReportEnd
    /\ UNCHANGED <<disk, windowVars>>

ReadCancelled ==
    /\ At("reading")
    /\ cancellation = "requested"
    /\ Return("cancelled")
    /\ UNCHANGED <<disk, windowVars, posted>>

ReadFails ==
    /\ At("reading")
    /\ Return("failed")
    /\ UNCHANGED <<disk, windowVars, posted>>
-----------------------------------------------------------------------------
(* Mutant of Finally: these lines follow the try statement. *)
FinallyUnlessFailed ==
    IF job.outcome = "failed" THEN UNCHANGED <<cancellation, isBusy, buttonVars>>
    ELSE cancellation' = None /\ isBusy' = FALSE /\ Notify(FALSE, running, selected)

Finally == cancellation' = None /\ isBusy' = FALSE /\ Notify(FALSE, running, selected)

(* CalculateAsync goes on, before or after the reports that are posted:    *)
(* the result if there is one, and the finally block.                      *)
Complete ==
    /\ At("returning")
    /\ result' = IF job.outcome = "done"
                 THEN [file |-> job.file, size |-> job.size, read |-> job.read,
                       blocks |-> job.blocks]
                 ELSE result
    /\ Finally
    /\ job' = [job EXCEPT !.stage = "ending"]
    /\ UNCHANGED <<disk, selected, progress, running, posted>>

(* Mutant of EndExecute: the button is not told. *)
EndExecuteQuietly ==
    /\ At("ending")
    /\ running' = FALSE
    /\ job' = None
    /\ UNCHANGED <<disk, selected, result, progress, isBusy, cancellation, buttonVars, posted>>

(* The finally block of Execute. *)
EndExecute ==
    /\ At("ending")
    /\ running' = FALSE
    /\ enabled' = [enabled EXCEPT !["calculate"] =
          CanExecute("calculate", isBusy, FALSE, selected)]
    /\ seen' = Exists(selected)
    /\ job' = None
    /\ UNCHANGED <<disk, selected, result, progress, isBusy, cancellation, posted>>

ShowProgress ==
    /\ posted # << >>
    /\ progress' = Head(posted)
    /\ posted' = Tail(posted)
    /\ UNCHANGED <<disk, selected, result, isBusy, running, cancellation, buttonVars, job>>
-----------------------------------------------------------------------------
(* Mutant of Writable: the stream is opened for shared writing. *)
WritableAlways(f) == TRUE

(* FileShare.Read: while the stream is open nobody else writes. *)
Writable(f) == ~(At("reading") /\ job.file = f)

(* Other programs write a file, or create one that is missing, be it one   *)
(* that was there before (an editor that saves by delete and re-create).   *)
WriteFile ==
    /\ \E f \in Files, c \in Content :
          /\ Writable(f)
          /\ disk' = [disk EXCEPT ![f] = c]
    /\ UNCHANGED <<windowVars, job, posted>>

(* The stream does not share deletion either. *)
DeleteFile ==
    /\ \E f \in Files :
          /\ Exists(f) /\ ~(At("reading") /\ job.file = f)
          /\ disk' = [disk EXCEPT ![f] = None]
    /\ UNCHANGED <<windowVars, job, posted>>

Reading == ReadBlock \/ ReadEnd \/ ReadCancelled \/ ReadFails

Next ==
    \/ Select \/ Calculate \/ Cancel
    \/ Open \/ Reading \/ Complete \/ EndExecute \/ ShowProgress
    \/ WriteFile \/ DeleteFile

(* The disk answers every read, and the UI thread runs what it was given.  *)
(* The user and the other programs need not do anything.                   *)
Fairness ==
    /\ WF_vars(Open) /\ WF_vars(Reading)
    /\ WF_vars(Complete) /\ WF_vars(EndExecute) /\ WF_vars(ShowProgress)

Spec == Init /\ [][Next]_vars /\ Fairness
-----------------------------------------------------------------------------
AtRest == job = None /\ posted = << >>

(* When the window waits for the user, it is either computing and can only *)
(* be cancelled, or idle and ready for the next file; then Calculate shows *)
(* what File.Exists said of the selected file when it was last asked, and  *)
(* no button keeps the state it had in the middle (IsBusy and _running,    *)
(* which change one after the other).  Nothing asks when a file comes or   *)
(* goes while the window is idle: seen may be out of date by then.         *)
ButtonsUsable ==
    /\ At("reading") => enabled = [b \in Buttons |-> b = "cancel"]
    /\ AtRest => /\ enabled["select"] /\ ~enabled["cancel"]
                 /\ enabled["calculate"] <=> seen

(* The fingerprint shown is that of the selected file, and of one version  *)
(* of it, whatever other programs do meanwhile.  (Its size was read before *)
(* the file was opened, and may be that of an older version.)              *)
FingerprintOfSelected ==
    result # None =>
        /\ result.file = selected
        /\ Cardinality(result.read) <= 1

(* Once the window rests, a result stands beside a full progress bar: no   *)
(* report is missing, and none comes late or out of order.                 *)
ResultMeansFull == AtRest /\ result # None => progress = 100

(* Every calculation comes to rest, done, cancelled or failed, and the     *)
(* user can start another one.                                             *)
CalculationEnds == isBusy ~> AtRest /\ ~isBusy
=============================================================================
