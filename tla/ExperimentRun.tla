---------------------------- MODULE ExperimentRun ---------------------------
(***************************************************************************)
(* One experiment and the calls that work on its directory: calls of       *)
(* run_experiment_pipeline (pipeline.py) from job threads, synchronous     *)
(* requests and the command line, in several processes, and packaging      *)
(* requests.  A run takes two locks, goes through the stages of a          *)
(* production adapter (adapters/local_tasks.py), whose work is done by     *)
(* external commands, and packages the result.                             *)
(*                                                                         *)
(* Abstractions: the content of a file is the call whose command wrote it  *)
(* and the call whose file that command read (it reads when it writes, and *)
(* writes once); manifests, thresholds and ONNX checks pass or fail; the   *)
(* package is copied in one step.                                          *)
(***************************************************************************)
CONSTANTS
    Calls,         \* the calls of the experiment; each is made at most once
    Packagers,     \* those that are requests to /api/packages/create
    WithPackage,   \* the runs with package=True
    Cancellable,   \* the runs of job threads, which have a cancel check
    Processes,     \* processes: API instances, the command line
    Home,          \* the process of a call
    HasPreflight,  \* whether training.preflight_command is configured
    Crashes,       \* whether processes die
    StoreMayFail,  \* whether the store raises in a cancel check
    FilesMayFail,  \* whether creating and writing files raises
    Stubborn,      \* whether commands have descendants that ignore SIGTERM
    None

Commands == {"preflight", "training", "export", "evaluation"}
Stages == {"training", "export", "evaluation"}

ASSUME RunAssumption ==
    /\ Packagers \subseteq Calls
    /\ WithPackage \subseteq Calls \ Packagers
    /\ Cancellable \subseteq Calls \ Packagers
    /\ Home \in [Calls -> Processes]
    /\ {HasPreflight, Crashes, StoreMayFail, FilesMayFail, Stubborn} \subseteq BOOLEAN
    /\ None \notin Calls

VARIABLES
    threadLock,  \* of each process: the call that holds the lock in _PIPELINE_LOCKS
    fileLock,    \* the call whose open file has the flock
    down,        \* the processes that have died
    pc,          \* where a call is
    cmd,         \* the command it is at
    asked,       \* the runs whose job is in cancellation_requested
    seen,        \* the runs whose _CancelCheck has seen that
    alive,       \* the commands <<call, command>> of which a process is left
    written,     \* the commands that have written their file
    exited,      \* how the command a call waits for has exited
    before,      \* the fingerprint of the produced file taken before the command
    result,      \* what the command, then the stage, came to
    file,        \* the produced checkpoint, ONNX and metrics files
    target,      \* the ONNX file of the experiment's export directory
    reports,     \* the report files of the stages
    evidence,    \* stage_payloads of a run, the reports a packaging request has read
    package,     \* the model package
    report       \* what a call returned

lockVars == <<threadLock, fileLock>>
cancelVars == <<asked, seen>>
commandVars == <<alive, written, exited>>
stageVars == <<before, result>>
fileVars == <<file, target, package>>
stageFiles == <<reports, evidence>>
vars == <<lockVars, down, pc, cmd, cancelVars, commandVars, stageVars, fileVars, stageFiles,
          report>>

Content == [by : Calls \cup {None}, from : Calls \cup {None}]
Blank == [by |-> None, from |-> None]
Absent == [status |-> "absent", item |-> Blank]
NoPackage == [by |-> None, model |-> Blank, checkpoint |-> Blank, metrics |-> Blank]

Init ==
    /\ threadLock = [p \in Processes |-> None]
    /\ fileLock = None
    /\ down = {}
    /\ pc = [c \in Calls |-> "idle"]
    /\ cmd = [c \in Calls |-> "training"]
    /\ asked = {}
    /\ seen = {}
    /\ alive = {}
    /\ written = {}
    /\ exited = [c \in Calls |-> "no"]
    /\ before = [c \in Calls |-> Blank]
    /\ result = [c \in Calls |-> "none"]
    /\ file = [s \in Stages |-> Blank]
    /\ target = Blank
    /\ reports = [s \in Stages |-> Absent]
    /\ evidence = [c \in Calls |-> [s \in Stages |-> Absent]]
    /\ package = NoPackage
    /\ report = [c \in Calls |-> "none"]

At(c, label) == pc[c] = label
Go(c, label) == pc' = [pc EXCEPT ![c] = label]

\* The call has what it returns; a run releases its locks first.
Return(c, value) ==
    /\ report' = [report EXCEPT ![c] = value]
    /\ Go(c, IF c \in Packagers THEN "done" ELSE "release")

-----------------------------------------------------------------------------
(* The run lock.                                                           *)

\* _pipeline_run_lock: the lock among the threads of the process.
TakeThreadLock(c) ==
    /\ At(c, "idle")
    /\ threadLock[Home[c]] = None
    /\ threadLock' = [threadLock EXCEPT ![Home[c]] = c]
    /\ Go(c, "dir")
    /\ UNCHANGED <<fileLock, down, cmd, cancelVars, commandVars, stageVars, fileVars,
                   stageFiles, report>>

RefusedByThread(c) ==
    /\ At(c, "idle")
    /\ threadLock[Home[c]] # None
    /\ report' = [report EXCEPT ![c] = "refused"]
    /\ Go(c, "done")
    /\ UNCHANGED <<lockVars, down, cmd, cancelVars, commandVars, stageVars, fileVars,
                   stageFiles>>

\* ensure_dir(artifacts/run-locks) stands before the try: if it raises, nothing releases
\* the thread lock.
MakeLockDir(c) ==
    /\ At(c, "dir")
    /\ \/ Go(c, "open") /\ UNCHANGED report
       \/ /\ FilesMayFail
          /\ report' = [report EXCEPT ![c] = "raised"]
          /\ Go(c, "done")
    /\ UNCHANGED <<lockVars, down, cmd, cancelVars, commandVars, stageVars, fileVars,
                   stageFiles>>

\* Mutant: the lock file is opened, but its lock is not awaited.
TakeFileLockAnyway(c) ==
    /\ At(c, "open")
    /\ fileLock' = c
    /\ Go(c, "check")
    /\ UNCHANGED <<threadLock, down, cmd, cancelVars, commandVars, stageVars, fileVars,
                   stageFiles, report>>

\* The flock on the lock file, among processes.
TakeFileLock(c) ==
    /\ At(c, "open")
    /\ fileLock = None
    /\ fileLock' = c
    /\ Go(c, "check")
    /\ UNCHANGED <<threadLock, down, cmd, cancelVars, commandVars, stageVars, fileVars,
                   stageFiles, report>>

\* Mutant: a call refused by the flock keeps the thread lock.
RefusedByFileKeeping(c) ==
    /\ At(c, "open")
    /\ fileLock # None
    /\ report' = [report EXCEPT ![c] = "refused"]
    /\ Go(c, "done")
    /\ UNCHANGED <<lockVars, down, cmd, cancelVars, commandVars, stageVars, fileVars,
                   stageFiles>>

\* The flock is taken, or the file cannot be opened; the thread lock is released.
RefusedByFile(c) ==
    /\ At(c, "open")
    /\ \/ fileLock # None /\ report' = [report EXCEPT ![c] = "refused"]
       \/ FilesMayFail /\ report' = [report EXCEPT ![c] = "raised"]
    /\ Go(c, "unlock")
    /\ UNCHANGED <<lockVars, down, cmd, cancelVars, commandVars, stageVars, fileVars,
                   stageFiles>>

\* Mutant: the lock file is left locked.
ReleaseThreadLockOnly(c) ==
    /\ At(c, "release")
    /\ Go(c, "unlock")
    /\ UNCHANGED <<lockVars, down, cmd, cancelVars, commandVars, stageVars, fileVars,
                   stageFiles, report>>

\* The finally of _pipeline_run_lock: first the flock, then the thread lock.
ReleaseFileLock(c) ==
    /\ At(c, "release")
    /\ fileLock' = None
    /\ Go(c, "unlock")
    /\ UNCHANGED <<threadLock, down, cmd, cancelVars, commandVars, stageVars, fileVars,
                   stageFiles, report>>

ReleaseThreadLock(c) ==
    /\ At(c, "unlock")
    /\ threadLock' = [threadLock EXCEPT ![Home[c]] = None]
    /\ Go(c, "done")
    /\ UNCHANGED <<fileLock, down, cmd, cancelVars, commandVars, stageVars, fileVars,
                   stageFiles, report>>

-----------------------------------------------------------------------------
(* Cancellation and the end of a stage.                                    *)

RequestCancel(c) ==
    /\ c \in Cancellable \ asked
    /\ pc[c] \notin {"done", "dead"}
    /\ asked' = asked \cup {c}
    /\ UNCHANGED <<lockVars, down, pc, cmd, seen, commandVars, stageVars, fileVars,
                   stageFiles, report>>

\* _CancelCheck: true for good once it has seen the request; otherwise it may be too
\* early to ask the store again (throttling), and the store may raise.
SaysYes(c) == c \in asked /\ seen' = seen \cup {c}
SaysNo(c) == c \notin seen /\ UNCHANGED seen
Throws(c) == StoreMayFail /\ c \in Cancellable \ seen /\ UNCHANGED seen

\* The event sink of a job's run writes a log row, which may raise; nothing in the run
\* catches it.  (Before a stage that is what Throws does.)
SinkRaises(c) ==
    /\ StoreMayFail /\ c \in Cancellable
    /\ Return(c, "raised") /\ UNCHANGED cmd

\* _record_stage_result: what the stage came to, in the payloads and, unless the adapter
\* raised, in its report file.
Record(c, status, item, toFile) ==
    LET s == IF cmd[c] = "preflight" THEN "training" ELSE cmd[c]
        entry == [status |-> status, item |-> item]
    IN  /\ evidence' = [evidence EXCEPT ![c][s] = entry]
        /\ reports' = IF toFile THEN [reports EXCEPT ![s] = entry] ELSE reports

\* A completed stage leads to the next one, the last one to packaging or the end.
Advance(c) ==
    \/ /\ c \in Packagers
       /\ Go(c, "read") /\ cmd' = [cmd EXCEPT ![c] = "training"]
       /\ UNCHANGED report
    \/ /\ c \notin Packagers /\ cmd[c] # "evaluation"
       /\ Go(c, "check")
       /\ cmd' = [cmd EXCEPT ![c] = IF @ = "training" THEN "export" ELSE "evaluation"]
       /\ UNCHANGED report
    \/ /\ c \in WithPackage /\ cmd[c] = "evaluation"
       /\ Go(c, "gate")
       /\ UNCHANGED <<cmd, report>>
    \/ /\ c \notin Packagers \cup WithPackage /\ cmd[c] = "evaluation"
       /\ Return(c, "completed")
       /\ UNCHANGED cmd

\* A failed or cancelled stage ends the run; create_package_from_experiment raises.
Stop(c, status) ==
    /\ Return(c, IF c \in Packagers THEN "raised" ELSE status)
    /\ UNCHANGED cmd

StageEnds(c, status, item, toFile) ==
    /\ Record(c, status, item, toFile)
    /\ \/ status = "completed" /\ Advance(c)
       \/ status # "completed" /\ Stop(c, status)
       \/ SinkRaises(c)

\* Mutant: a check that fails counts as a cancellation.
CheckFailureCancels(c) ==
    /\ At(c, "check")
    /\ \/ (SaysYes(c) \/ Throws(c)) /\ Return(c, "cancelled") /\ UNCHANGED cmd
       \/ SaysNo(c) /\ Go(c, "enter") /\ UNCHANGED <<cmd, report>>
    /\ UNCHANGED <<lockVars, down, asked, commandVars, stageVars, fileVars, stageFiles>>

\* The cancel check between two stages; an exception ends the run.
CheckBetweenStages(c) ==
    /\ At(c, "check")
    /\ \/ SaysYes(c) /\ Return(c, "cancelled") /\ UNCHANGED cmd
       \/ SaysNo(c) /\ Go(c, "enter") /\ UNCHANGED report
          /\ cmd' = [cmd EXCEPT ![c] =
                        IF @ = "training" /\ HasPreflight THEN "preflight" ELSE @]
       \/ Throws(c) /\ Return(c, "raised") /\ UNCHANGED cmd
       \/ cmd[c] = "training" /\ SaysYes(c) /\ SinkRaises(c)
    /\ UNCHANGED <<lockVars, down, asked, commandVars, stageVars, fileVars, stageFiles>>

-----------------------------------------------------------------------------
(* A stage and its command.                                                *)

\* train, export, evaluate: the checks before anything is executed.
EnterStage(c) ==
    LET s == IF cmd[c] = "preflight" THEN "training" ELSE cmd[c]
    IN  /\ At(c, "enter")
        /\ \/ /\ SaysNo(c) /\ Go(c, "spawn")
              /\ before' = [before EXCEPT ![c] = file[s]]
              /\ UNCHANGED <<cmd, stageFiles, report>>
           \/ SaysYes(c) /\ StageEnds(c, "cancelled", Blank, TRUE) /\ UNCHANGED before
           \/ SaysNo(c) /\ StageEnds(c, "failed", Blank, TRUE) /\ UNCHANGED before
        /\ UNCHANGED <<lockVars, down, asked, commandVars, result, fileVars>>

\* _run_external_command up to Popen, which may fail.
Spawn(c) ==
    /\ At(c, "spawn")
    /\ \/ /\ SaysNo(c) /\ Go(c, "poll")
          /\ alive' = alive \cup {<<c, cmd[c]>>}
          /\ exited' = [exited EXCEPT ![c] = "no"]
          /\ UNCHANGED result
       \/ /\ \/ SaysNo(c) /\ result' = [result EXCEPT ![c] = "failed"]
             \/ SaysYes(c) /\ result' = [result EXCEPT ![c] = "cancelled"]
          /\ Go(c, "settle")
          /\ UNCHANGED <<alive, exited>>
    /\ UNCHANGED <<lockVars, down, cmd, asked, written, before, fileVars, stageFiles, report>>

\* The poll loop finds that the command has exited.
CommandEnded(c) ==
    /\ At(c, "poll")
    /\ exited[c] # "no"
    /\ result' = [result EXCEPT ![c] = exited[c]]
    /\ Go(c, "settle")
    /\ UNCHANGED <<lockVars, down, cmd, cancelVars, commandVars, before, fileVars,
                   stageFiles, report>>

\* It sees the cancellation and starts to terminate the command.
CancelCommand(c) ==
    /\ At(c, "poll")
    /\ exited[c] = "no"
    /\ SaysYes(c)
    /\ result' = [result EXCEPT ![c] = "cancelled"]
    /\ Go(c, "term")
    /\ UNCHANGED <<lockVars, down, cmd, asked, commandVars, before, fileVars, stageFiles,
                   report>>

\* Mutant: the command line's runs wait for their commands without a deadline.
DeadlineOfJobs(c) ==
    /\ At(c, "poll") /\ exited[c] = "no" /\ SaysNo(c)
    /\ c \in Cancellable
    /\ result' = [result EXCEPT ![c] = "failed"]
    /\ Go(c, "term")
    /\ UNCHANGED <<lockVars, down, cmd, asked, commandVars, before, fileVars, stageFiles,
                   report>>

\* The command has run for VMLAB_EXTERNAL_COMMAND_TIMEOUT_SECONDS.
Deadline(c) ==
    /\ At(c, "poll")
    /\ exited[c] = "no"
    /\ SaysNo(c)
    /\ result' = [result EXCEPT ![c] = "failed"]
    /\ Go(c, "term")
    /\ UNCHANGED <<lockVars, down, cmd, asked, commandVars, before, fileVars, stageFiles,
                   report>>

\* Mutant: SIGTERM is sent, but a command that ignores it is not killed.
TerminateOnly(c) ==
    /\ At(c, "term")
    /\ alive' \in {alive, alive \ {<<c, cmd[c]>>}}
    /\ Go(c, "settle")
    /\ UNCHANGED <<lockVars, down, cmd, cancelVars, written, exited, stageVars, fileVars,
                   stageFiles, report>>

\* _terminate_process_tree returns: SIGTERM to the group, SIGKILL to the group when the
\* command itself has not ended after 5 s.  Descendants that ignore SIGTERM stay when the
\* command obeys it.
Terminate(c) ==
    /\ At(c, "term")
    /\ \/ alive' = alive \ {<<c, cmd[c]>>}
       \/ Stubborn /\ UNCHANGED alive
    /\ Go(c, "settle")
    /\ UNCHANGED <<lockVars, down, cmd, cancelVars, written, exited, stageVars, fileVars,
                   stageFiles, report>>

\* _run_stage_safely: an exception of the adapter fails the stage; no report is written,
\* and a command that was being waited for goes on.
StageRaises(c) ==
    /\ \/ pc[c] \in {"enter", "spawn", "report"} /\ Throws(c)
       \/ At(c, "poll") /\ exited[c] = "no" /\ Throws(c)
       \/ pc[c] \in {"enter", "spawn", "copy", "report"} /\ FilesMayFail /\ UNCHANGED seen
       \/ At(c, "report") /\ cmd[c] = "evaluation" /\ SaysNo(c)
    /\ StageEnds(c, "failed", Blank, FALSE)
    /\ UNCHANGED <<lockVars, down, asked, commandVars, stageVars, fileVars>>

-----------------------------------------------------------------------------
(* After the command.                                                      *)

\* Mutant: _artifact_is_fresh only asks whether there is a file.
FileExists(c) == file[cmd[c]] # Blank

\* _artifact_is_fresh
Fresh(c) == file[cmd[c]] \notin {Blank, before[c]}

\* The preflight command was no success, also when it was cancelled.
SettlePreflight(c) ==
    /\ At(c, "settle") /\ cmd[c] = "preflight"
    /\ IF result[c] = "ok"
         THEN /\ cmd' = [cmd EXCEPT ![c] = "training"] /\ Go(c, "spawn")
              /\ UNCHANGED <<stageFiles, report>>
         ELSE StageEnds(c, "failed", Blank, TRUE)
    /\ UNCHANGED <<lockVars, down, cancelVars, commandVars, stageVars, fileVars>>

\* Mutant: train does not judge a command that left no fresh checkpoint.
SettleTrainingUnjudged(c) ==
    /\ At(c, "settle") /\ cmd[c] = "training"
    /\ result' = [result EXCEPT ![c] = IF @ = "ok" /\ Fresh(c) THEN "completed" ELSE @]
    /\ Go(c, "report")
    /\ UNCHANGED <<lockVars, down, cmd, cancelVars, commandVars, before, fileVars,
                   stageFiles, report>>

\* train takes the fingerprint of the checkpoint and looks for a cancellation once more
\* (FinishStage) whatever came out.
SettleTraining(c) ==
    LET completed == result[c] = "ok" /\ Fresh(c)
    IN  /\ At(c, "settle") /\ cmd[c] = "training"
        /\ result' = [result EXCEPT ![c] = IF completed THEN "completed"
                                           ELSE IF @ = "ok" THEN "failed" ELSE @]
        /\ evidence' = [evidence EXCEPT ![c]["training"] =
               [status |-> "absent", item |-> IF completed THEN file["training"] ELSE Blank]]
        /\ Go(c, "report")
        /\ UNCHANGED <<lockVars, down, cmd, cancelVars, commandVars, before, fileVars,
                       reports, report>>

SettleProduct(c) ==
    /\ At(c, "settle") /\ cmd[c] \in {"export", "evaluation"}
    /\ IF result[c] = "ok" /\ Fresh(c)
         THEN /\ result' = [result EXCEPT ![c] = "completed"]
              /\ Go(c, IF cmd[c] = "export" THEN "copy" ELSE "report")
              /\ UNCHANGED <<cmd, stageFiles, report>>
         ELSE /\ StageEnds(c, IF result[c] = "cancelled" THEN "cancelled" ELSE "failed",
                           Blank, TRUE)
              /\ UNCHANGED result
    /\ UNCHANGED <<lockVars, down, cancelVars, commandVars, before, fileVars>>

\* Mutant: the experiment's ONNX file is only copied when there is none.
CopyProductOnce(c) ==
    /\ At(c, "copy")
    /\ target' = IF target = Blank THEN file["export"] ELSE target
    /\ Go(c, "report")
    /\ UNCHANGED <<lockVars, down, cmd, cancelVars, commandVars, stageVars, file, package,
                   stageFiles, report>>

\* export copies produced_onnx to the experiment's ONNX file.
CopyProduct(c) ==
    /\ At(c, "copy")
    /\ target' = file["export"]
    /\ Go(c, "report")
    /\ UNCHANGED <<lockVars, down, cmd, cancelVars, commandVars, stageVars, file, package,
                   stageFiles, report>>

\* What the report of a completed stage is about: the checkpoint's fingerprint, the ONNX
\* file's, the metrics read from their file.
Item(c) ==
    IF cmd[c] = "training" THEN evidence[c]["training"].item
    ELSE IF cmd[c] = "export" THEN target ELSE file["evaluation"]

\* The last check, the ONNX check or the metrics, and the report.
FinishStage(c) ==
    /\ At(c, "report")
    /\ \/ SaysYes(c) /\ StageEnds(c, "cancelled", Blank, TRUE)
       \/ SaysNo(c) /\ StageEnds(c, result[c], Item(c), TRUE)
       \/ cmd[c] # "training" /\ SaysNo(c) /\ StageEnds(c, "failed", Blank, TRUE)
    /\ UNCHANGED <<lockVars, down, asked, commandVars, stageVars, fileVars>>

-----------------------------------------------------------------------------
(* Packaging.                                                              *)

\* Mutant: the answer of the last check is not used.
GateUnheeded(c) ==
    /\ At(c, "gate")
    /\ SaysYes(c) \/ SaysNo(c)
    /\ Go(c, "package")
    /\ UNCHANGED <<lockVars, down, cmd, asked, commandVars, stageVars, fileVars, stageFiles,
                   report>>

\* The check of a run before it packages; its stages are all completed.
Gate(c) ==
    /\ At(c, "gate")
    /\ \/ SaysYes(c) /\ Return(c, "cancelled")
       \/ SaysNo(c) /\ Go(c, "package") /\ UNCHANGED report
       \/ Throws(c) /\ Return(c, "raised")
    /\ UNCHANGED <<lockVars, down, cmd, asked, commandVars, stageVars, fileVars, stageFiles>>

\* /api/packages/create: with an ONNX file, or exporting one; it takes no lock.
RequestPackage(c) ==
    /\ At(c, "idle")
    /\ \/ Go(c, "read") /\ UNCHANGED cmd
       \/ Go(c, "enter") /\ cmd' = [cmd EXCEPT ![c] = "export"]
    /\ UNCHANGED <<lockVars, down, cancelVars, commandVars, stageVars, fileVars, stageFiles,
                   report>>

\* load_stage_reports, one file after the other.
ReadReport(c) ==
    /\ At(c, "read")
    /\ evidence' = [evidence EXCEPT ![c][cmd[c]] = reports[cmd[c]]]
    /\ \/ cmd[c] = "training" /\ cmd' = [cmd EXCEPT ![c] = "export"] /\ UNCHANGED pc
       \/ cmd[c] = "export" /\ cmd' = [cmd EXCEPT ![c] = "evaluation"] /\ UNCHANGED pc
       \/ cmd[c] = "evaluation" /\ Go(c, "package") /\ UNCHANGED cmd
    /\ UNCHANGED <<lockVars, down, cancelVars, commandVars, stageVars, fileVars, reports,
                   report>>

\* Mutant: the trust gate looks at the evaluation only.
EvaluationCompleted(c) == evidence[c]["evaluation"].status = "completed"

\* validate_package_trust: what it asks of the stages.
Trusted(c) == \A s \in Stages : evidence[c][s].status = "completed"

BuildPackage(c) ==
    /\ At(c, "package")
    /\ Trusted(c)
    /\ package' = [by |-> c, model |-> target,
                   checkpoint |-> evidence[c]["training"].item,
                   metrics |-> evidence[c]["evaluation"].item]
    /\ \/ Return(c, "completed") /\ UNCHANGED cmd
       \/ SinkRaises(c)
    /\ UNCHANGED <<lockVars, down, cancelVars, commandVars, stageVars, file, target,
                   stageFiles>>

\* The trust gate refuses, or writing or validating the package raises.
PackageFails(c) ==
    /\ At(c, "package")
    /\ Stop(c, "failed") \/ SinkRaises(c)
    /\ UNCHANGED <<lockVars, down, cancelVars, commandVars, stageVars, fileVars, stageFiles>>

-----------------------------------------------------------------------------
(* Commands and processes.                                                 *)

\* What the file of a command is made from: the checkpoint, the ONNX file.
Source(k) ==
    IF k = "training" THEN None ELSE IF k = "export" THEN file["training"].by ELSE target.by

CommandWrites(c, k) ==
    /\ <<c, k>> \in alive \ written
    /\ k # "preflight"
    /\ file' = [file EXCEPT ![k] = [by |-> c, from |-> Source(k)]]
    /\ written' = written \cup {<<c, k>>}
    /\ UNCHANGED <<lockVars, down, pc, cmd, cancelVars, alive, exited, stageVars, target,
                   package, stageFiles, report>>

\* A command, or what is left of it, ends; its call may be waiting for it.
CommandExits(c, k) ==
    /\ <<c, k>> \in alive
    /\ alive' = alive \ {<<c, k>>}
    /\ IF pc[c] \in {"poll", "term"} /\ cmd[c] = k
         THEN \E e \in {"ok", "failed"} : exited' = [exited EXCEPT ![c] = e]
         ELSE UNCHANGED exited
    /\ UNCHANGED <<lockVars, down, pc, cmd, cancelVars, written, stageVars, fileVars,
                   stageFiles, report>>

\* A process dies with its threads and thread lock, the kernel drops the flock of its open
\* file; commands run in sessions of their own and go on.
Crash(p) ==
    /\ Crashes
    /\ p \notin down
    /\ down' = down \cup {p}
    /\ pc' = [c \in Calls |-> IF Home[c] = p /\ pc[c] # "done" THEN "dead" ELSE pc[c]]
    /\ threadLock' = [threadLock EXCEPT ![p] = None]
    /\ fileLock' = IF fileLock # None /\ Home[fileLock] = p THEN None ELSE fileLock
    /\ UNCHANGED <<cmd, cancelVars, commandVars, stageVars, fileVars, stageFiles, report>>

-----------------------------------------------------------------------------
StartRun(c) == TakeThreadLock(c) \/ RefusedByThread(c)

LockStep(c) ==
    \/ MakeLockDir(c) \/ TakeFileLock(c) \/ RefusedByFile(c)
    \/ ReleaseFileLock(c) \/ ReleaseThreadLock(c)

StageStep(c) ==
    \/ CheckBetweenStages(c) \/ EnterStage(c) \/ Spawn(c)
    \/ CommandEnded(c) \/ CancelCommand(c) \/ Deadline(c) \/ Terminate(c) \/ StageRaises(c)
    \/ SettlePreflight(c) \/ SettleTraining(c) \/ SettleProduct(c)
    \/ CopyProduct(c) \/ FinishStage(c)

PackageStep(c) == Gate(c) \/ ReadReport(c) \/ BuildPackage(c) \/ PackageFails(c)

Next ==
    \/ \E c \in Calls \ Packagers : StartRun(c)
    \/ \E c \in Packagers : RequestPackage(c)
    \/ \E c \in Calls : LockStep(c) \/ StageStep(c) \/ PackageStep(c) \/ RequestCancel(c)
    \/ \E c \in Calls, k \in Commands : CommandWrites(c, k) \/ CommandExits(c, k)
    \/ \E p \in Processes : Crash(p)

Spec == Init /\ [][Next]_vars

\* Threads that can go on do; the poll loop has a deadline.  Nothing makes a command end,
\* a user cancel or a process die.
FairSpec ==
    Spec /\ \A c \in Calls : WF_vars(LockStep(c) \/ StageStep(c) \/ PackageStep(c))
-----------------------------------------------------------------------------
(* Properties.                                                             *)

Runs == Calls \ Packagers
Pair == Calls \X Commands
Verdicts == {"completed", "failed", "cancelled"}
Inside == {"check", "enter", "spawn", "poll", "term", "settle", "copy", "report", "gate",
           "package", "release"}
Ended == {"done", "dead"}
Entry == [status : Verdicts \cup {"absent"}, item : Content]

\* The values of every variable.
TypeOK ==
    /\ threadLock \in [Processes -> Calls \cup {None}]
    /\ fileLock \in Calls \cup {None}
    /\ down \subseteq Processes
    /\ pc \in [Calls -> Inside \cup Ended \cup {"idle", "dir", "open", "read", "unlock"}]
    /\ cmd \in [Calls -> Commands]
    /\ asked \subseteq Cancellable /\ seen \subseteq asked
    /\ alive \subseteq Pair /\ written \subseteq Pair
    /\ exited \in [Calls -> {"no", "ok", "failed"}]
    /\ before \in [Calls -> Content]
    /\ result \in [Calls -> Verdicts \cup {"none", "ok"}]
    /\ file \in [Stages -> Content] /\ target \in Content
    /\ reports \in [Stages -> Entry]
    /\ evidence \in [Calls -> [Stages -> Entry]]
    /\ package \in [by : Calls \cup {None}, model : Content, checkpoint : Content,
                    metrics : Content]
    /\ report \in [Calls -> Verdicts \cup {"none", "refused", "raised"}]

\* "CLI, synchronous API and asynchronous workers cannot concurrently overwrite one
\* artifact directory" (docs/ARCHITECTURE.md:95): the commands at work belong to one call.
OneWriter == \A k, l \in alive : k[1] = l[1]

\* "Cancellation and timeout terminate the whole process tree" (docs/ARCHITECTURE.md:93):
\* what is left of a command is a command its call is still busy with.
TreesTerminated ==
    \A k \in alive : pc[k[1]] \in {"poll", "term"} /\ cmd[k[1]] = k[2]

\* A package is of one piece: its metrics, which have to reach the thresholds
\* (docs/ARCHITECTURE.md:88), were measured on the model in it, and that model was exported
\* from the checkpoint whose digest its card gives (docs/ARCHITECTURE.md:89).
OnePiece ==
    package.by # None =>
        /\ package.metrics.from = package.model.by
        /\ package.model.from = package.checkpoint.by

\* A run packages what its own commands have produced, never what an earlier run left
\* (docs/ARCHITECTURE.md:86).
FreshProducts ==
    package.by \in Runs =>
        {package.model.by, package.metrics.by, package.checkpoint.by} = {package.by}

\* A call is refused as "already active" (pipeline.py:48, 72) only while another one is.
RefusedOnlyWhileActive ==
    [][\A c \in Calls :
          report[c] = "none" /\ report'[c] = "refused" =>
              \E d \in Calls \ {c} : pc[d] \notin {"idle"} \cup Ended]_vars

\* A run that has seen its cancellation delivers no package and does not report completed;
\* the job thread and its users rely on it (api.py:511).
CancelledRunsDeliverNothing ==
    \A c \in seen : package.by # c /\ report[c] # "completed"

\* Runs of the experiment exclude each other in all processes, also when some die.
RunsExclude ==
    \A c, d \in Runs : pc[c] \in Inside /\ pc[d] \in Inside => c = d

\* What the locks mean while a call is in them: the inductive invariant.
LockHeld ==
    /\ \A c \in Runs : pc[c] \in Inside => fileLock = c
    /\ \A c \in Runs : pc[c] \in Inside \cup {"dir", "open", "unlock"} =>
                          threadLock[Home[c]] = c
    /\ fileLock # None => fileLock \in Runs /\ pc[fileLock] \in Inside
    /\ \A c \in Packagers : pc[c] \notin {"dir", "open", "check", "gate", "release", "unlock"}
    /\ \A c \in Runs : pc[c] # "read"

\* A call comes to an end whatever its commands do.
CallsEnd == \A c \in Calls : pc[c] # "idle" ~> pc[c] \in Ended

\* The thread lock of a process comes free: a refused run can be tried again.
LockComesFree == \A p \in Processes : threadLock[p] # None ~> threadLock[p] = None

PhaseOf(c) ==
    IF pc[c] \in {"idle", "dir", "open"} THEN "waiting"
    ELSE IF pc[c] \in Inside THEN "running"
    ELSE IF pc[c] = "unlock" THEN "leaving" ELSE "ended"

VerdictOf(c) ==
    IF PhaseOf(c) \in {"waiting", "running"} THEN "none"
    ELSE IF pc[c] = "dead" THEN "lost" ELSE report[c]

Contract == INSTANCE RunContract WITH
    Runs <- Runs,
    phase <- [c \in Runs |-> PhaseOf(c)],
    verdict <- [c \in Runs |-> VerdictOf(c)],
    asked <- asked,
    heard <- seen

\* The runs keep the contract of RunContract, which PipelineJobs assumes of a pipeline
\* (its PipelineEnds and LockRefused).
ContractSpec == Contract!Spec
=============================================================================
