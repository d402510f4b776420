------------------------ MODULE ExperimentRunProofs -------------------------
(***************************************************************************)
(* What holds of ExperimentRun for any number of calls and processes and   *)
(* whatever fails: runs exclude each other, a run that has seen its        *)
(* cancellation delivers nothing, and runs keep the contract of            *)
(* RunContract.  Footprint says what the steps of a stage leave alone; the *)
(* inductive invariant is LockHeld, with the types, and Told.              *)
(***************************************************************************)
EXTENDS ExperimentRun, TLAPS

Working == Inside \ {"release"}

\* What a call knows of its cancellation, and what it has not done yet.
Told ==
    /\ \A c \in Calls : result[c] = "cancelled" \/ report[c] = "cancelled" => c \in seen
    /\ \A c \in Calls : pc[c] \in {"term", "settle"} => result[c] # "none"
    /\ \A c \in Calls : pc[c] \in {"copy", "report"} => result[c] \in Verdicts
    /\ \A c \in Calls : pc[c] = "package" => c \notin seen
    /\ \A c \in Calls : pc[c] \in Working \cup {"idle", "dir", "open", "read"} =>
                            package.by # c /\ report[c] = "none"
    /\ \A c \in Runs : pc[c] = "release" => report[c] \in Verdicts \cup {"raised"}

\* The inductive invariant: whoever is inside holds both locks, and a run that has seen a
\* cancellation has delivered nothing and can no longer get to deliver.
IInv == TypeOK /\ LockHeld /\ Told /\ CancelledRunsDeliverNothing

\* The labels a call goes through between its locks, or without any.
Path(c) ==
    IF c \in Packagers THEN {"read", "enter", "spawn", "poll", "term", "settle", "copy",
                             "report", "package", "done"}
    ELSE Inside

Moves(c) == UNCHANGED pc \/ \E l \in Path(c) : pc' = [pc EXCEPT ![c] = l]
Reports(c, values) == UNCHANGED report \/ \E v \in values : report' = [report EXCEPT ![c] = v]

\* Where the end of a stage leads.
LEMMA Ending ==
  ASSUME NEW c \in Calls, NEW status \in Verdicts, NEW item, NEW toFile,
         StageEnds(c, status, item, toFile)
  PROVE  /\ Moves(c)
         /\ Reports(c, Verdicts \cup {"raised"})
<1>1. CASE Advance(c)
  BY <1>1, RunAssumption
  DEF RunAssumption, Advance, Return, Go, Moves, Reports, Path, Inside, Verdicts
<1>2. CASE Stop(c, status) \/ SinkRaises(c)
  BY <1>2 DEF Stop, SinkRaises, Return, Go, Moves, Reports, Path, Inside, Verdicts
<1> QED BY <1>1, <1>2 DEF StageEnds

\* A step in a stage moves only its own call, along its path, and touches no lock.
LEMMA Footprint ==
  ASSUME LockHeld, Told, NEW c \in Calls, StageStep(c) \/ PackageStep(c)
  PROVE  /\ UNCHANGED <<threadLock, fileLock, down, asked>>
         /\ pc[c] \in Path(c) \ {"release", "done"}
         /\ Moves(c)
         /\ Reports(c, Verdicts \cup {"raised"})
<1> DEFINE Free == Path(c) \ {"release", "done"}
<1>0. /\ c \in Packagers => pc[c] \notin {"check", "gate"}
      /\ c \notin Packagers => pc[c] # "read"
  BY DEF LockHeld, Runs
<1>1. CASE CheckBetweenStages(c)
  BY <1>0, <1>1 DEF CheckBetweenStages, SinkRaises, lockVars, At, Return, Go, Moves, Reports,
                    Path, Inside,
                    Verdicts
<1>2. CASE EnterStage(c)
  <2>1. \/ Go(c, "spawn") /\ UNCHANGED report
        \/ StageEnds(c, "cancelled", Blank, TRUE) \/ StageEnds(c, "failed", Blank, TRUE)
    BY <1>2 DEF EnterStage
  <2>2. Moves(c) /\ Reports(c, Verdicts \cup {"raised"})
    <3>1. CASE Go(c, "spawn") /\ UNCHANGED report
      BY <3>1 DEF Go, Moves, Reports, Path, Inside
    <3> QED BY <2>1, <3>1, Ending DEF Verdicts
  <2> QED BY <1>2, <2>2 DEF EnterStage, At, lockVars, Path, Inside
<1>3. CASE Spawn(c)
  BY <1>3 DEF Spawn, lockVars, At, Go, Moves, Reports, Path, Inside
<1>4. CASE CommandEnded(c)
  BY <1>4 DEF CommandEnded, lockVars, cancelVars, At, Go, Moves, Reports, Path, Inside
<1>5. CASE CancelCommand(c) \/ Deadline(c) \/ Terminate(c)
  BY <1>5 DEF CancelCommand, Deadline, Terminate, lockVars, cancelVars, At, Go, Moves, Reports,
              Path, Inside
<1>6. CASE StageRaises(c)
  <2>1. StageEnds(c, "failed", Blank, FALSE)
    BY <1>6 DEF StageRaises
  <2>2. Moves(c) /\ Reports(c, Verdicts \cup {"raised"})
    BY <2>1, Ending DEF Verdicts
  <2> QED BY <1>6, <2>2 DEF StageRaises, At, lockVars, Path, Inside
<1>7. CASE SettlePreflight(c)
  <2>1. \/ Go(c, "spawn") /\ UNCHANGED report
        \/ StageEnds(c, "failed", Blank, TRUE)
    BY <1>7 DEF SettlePreflight
  <2>2. Moves(c) /\ Reports(c, Verdicts \cup {"raised"})
    <3>1. CASE Go(c, "spawn") /\ UNCHANGED report
      BY <3>1 DEF Go, Moves, Reports, Path, Inside
    <3> QED BY <2>1, <3>1, Ending DEF Verdicts
  <2> QED BY <1>7, <2>2 DEF SettlePreflight, At, lockVars, cancelVars, Path, Inside
<1>8. CASE SettleTraining(c)
  BY <1>8 DEF SettleTraining, lockVars, cancelVars, At, Go, Moves, Reports, Path, Inside
<1>9. CASE SettleProduct(c)
  <2>1. \/ (Go(c, "copy") \/ Go(c, "report")) /\ UNCHANGED report
        \/ StageEnds(c, "cancelled", Blank, TRUE) \/ StageEnds(c, "failed", Blank, TRUE)
    BY <1>9 DEF SettleProduct
  <2>2. Moves(c) /\ Reports(c, Verdicts \cup {"raised"})
    <3>1. CASE (Go(c, "copy") \/ Go(c, "report")) /\ UNCHANGED report
      BY <3>1 DEF Go, Moves, Reports, Path, Inside
    <3> QED BY <2>1, <3>1, Ending DEF Verdicts
  <2> QED BY <1>9, <2>2 DEF SettleProduct, At, lockVars, cancelVars, Path, Inside
<1>10. CASE CopyProduct(c)
  BY <1>10 DEF CopyProduct, lockVars, cancelVars, At, Go, Moves, Reports, Path, Inside
<1>11. CASE FinishStage(c)
  <2>1. result[c] \in Verdicts
    BY <1>11 DEF FinishStage, At, Told
  <2>2. \/ StageEnds(c, "cancelled", Blank, TRUE) \/ StageEnds(c, "failed", Blank, TRUE)
        \/ StageEnds(c, result[c], Item(c), TRUE)
    BY <1>11 DEF FinishStage
  <2>3. Moves(c) /\ Reports(c, Verdicts \cup {"raised"})
    BY <2>1, <2>2, Ending DEF Verdicts
  <2> QED BY <1>11, <2>3 DEF FinishStage, At, lockVars, Path, Inside
<1>12. CASE Gate(c)
  BY <1>0, <1>12 DEF Gate, lockVars, At, Return, Go, Moves, Reports, Path, Inside, Verdicts
<1>13. CASE ReadReport(c)
  BY <1>0, <1>13 DEF ReadReport, lockVars, cancelVars, At, Go, Moves, Reports, Path, Inside
<1>14. CASE BuildPackage(c) \/ PackageFails(c)
  BY <1>14 DEF BuildPackage, PackageFails, Stop, SinkRaises, lockVars, cancelVars, At, Return,
               Go, Moves,
               Reports, Path, Inside, Verdicts
<1> QED
  BY <1>1, <1>2, <1>3, <1>4, <1>5, <1>6, <1>7, <1>8, <1>9, <1>10, <1>11, <1>12, <1>13, <1>14
  DEF StageStep, PackageStep

\* A step that moves nobody and touches no lock.
Still == UNCHANGED <<threadLock, fileLock, pc>>

\* Locks are held as before: a stage keeps its locks, the lock file is only taken by a call
\* that has the thread lock, and a process that dies takes both from its own calls only.
LEMMA LockHeldStep ==
  TypeOK /\ LockHeld /\ Told /\ [Next]_vars => LockHeld'
<1> SUFFICES ASSUME TypeOK, LockHeld, Told, [Next]_vars PROVE LockHeld'
  OBVIOUS
<1> USE RunAssumption DEF RunAssumption
<1>0. /\ pc \in [Calls -> Inside \cup Ended \cup {"idle", "dir", "open", "read", "unlock"}]
      /\ threadLock \in [Processes -> Calls \cup {None}]
  BY DEF TypeOK
<1>1. ASSUME NEW c \in Calls, StageStep(c) \/ PackageStep(c) PROVE LockHeld'
  <2>1. /\ UNCHANGED <<threadLock, fileLock>>
        /\ pc[c] \in Path(c) \ {"release", "done"}
        /\ Moves(c)
    BY <1>1, Footprint
  <2>2. CASE UNCHANGED pc
    BY <2>1, <2>2 DEF LockHeld
  <2>3. ASSUME NEW l \in Path(c), pc' = [pc EXCEPT ![c] = l] PROVE LockHeld'
    <3>1. CASE c \in Packagers
      BY <1>0, <2>1, <2>3, <3>1 DEF LockHeld, Path, Inside, Runs
    <3>2. CASE c \notin Packagers
      BY <1>0, <2>1, <2>3, <3>2 DEF LockHeld, Path, Inside, Runs
    <3> QED BY <3>1, <3>2
  <2> QED BY <2>1, <2>2, <2>3 DEF Moves
<1>2. ASSUME NEW c \in Calls \ Packagers, TakeThreadLock(c) PROVE LockHeld'
  BY <1>0, <1>2 DEF TakeThreadLock, At, Go, LockHeld, Inside, Runs
<1>3. ASSUME NEW c \in Calls \ Packagers, RefusedByThread(c) PROVE LockHeld'
  BY <1>0, <1>3 DEF RefusedByThread, lockVars, At, Go, LockHeld, Inside, Runs
<1>4. ASSUME NEW c \in Calls, MakeLockDir(c) PROVE LockHeld'
  BY <1>0, <1>4 DEF MakeLockDir, lockVars, At, Go, LockHeld, Inside, Runs
<1>5. ASSUME NEW c \in Calls, TakeFileLock(c) PROVE LockHeld'
  BY <1>0, <1>5 DEF TakeFileLock, At, Go, LockHeld, Inside, Runs
<1>6. ASSUME NEW c \in Calls, RefusedByFile(c) PROVE LockHeld'
  BY <1>0, <1>6 DEF RefusedByFile, lockVars, At, Go, LockHeld, Inside, Runs
<1>7. ASSUME NEW c \in Calls, ReleaseFileLock(c) PROVE LockHeld'
  BY <1>0, <1>7 DEF ReleaseFileLock, At, Go, LockHeld, Inside, Runs
<1>8. ASSUME NEW c \in Calls, ReleaseThreadLock(c) PROVE LockHeld'
  BY <1>0, <1>8 DEF ReleaseThreadLock, At, Go, LockHeld, Inside, Runs
<1>9. ASSUME NEW c \in Packagers, RequestPackage(c) PROVE LockHeld'
  BY <1>0, <1>9 DEF RequestPackage, lockVars, At, Go, LockHeld, Inside, Runs
<1>10. ASSUME NEW p \in Processes, Crash(p) PROVE LockHeld'
  BY <1>0, <1>10 DEF Crash, LockHeld, Inside, Runs
<1>11. CASE Still
  BY <1>11 DEF Still, LockHeld
<1>12. ASSUME NEW c \in Calls, NEW k \in Commands,
              RequestCancel(c) \/ CommandWrites(c, k) \/ CommandExits(c, k)
       PROVE  Still
  BY <1>12 DEF RequestCancel, CommandWrites, CommandExits, Still, lockVars
<1>13. CASE UNCHANGED vars
  BY <1>11, <1>13 DEF vars, lockVars, Still
<1> QED
  <2>1. ASSUME NEW c \in Calls, RequestCancel(c) PROVE LockHeld'
    BY <2>1, <1>11, <1>12 DEF Commands
  <2> QED
    BY <1>1, <1>2, <1>3, <1>4, <1>5, <1>6, <1>7, <1>8, <1>9, <1>10, <1>11, <1>12, <1>13, <2>1
    DEF Next, StartRun, LockStep

\* What a call knows of its cancellation and does about it.
Cautious == Told /\ CancelledRunsDeliverNothing

\* What Told and CancelledRunsDeliverNothing are about.
Shapes ==
    /\ pc \in [Calls -> Inside \cup Ended \cup {"idle", "dir", "open", "read", "unlock"}]
    /\ result \in [Calls -> Verdicts \cup {"none", "ok"}]
    /\ report \in [Calls -> Verdicts \cup {"none", "refused", "raised"}]
    /\ seen \subseteq Calls

\* The end of a stage keeps them: a completed stage is one of a run that has not seen its
\* cancellation, a cancelled one is one of a run that has.
LEMMA EndingCautious ==
  ASSUME Shapes, Cautious, NEW c \in Calls, NEW status \in Verdicts, NEW item, NEW toFile,
         StageEnds(c, status, item, toFile),
         pc[c] \in Working,
         UNCHANGED <<result, package>>,
         seen' = seen \/ seen' = seen \cup {c},
         status = "completed" => c \notin seen',
         status = "cancelled" => c \in seen'
  PROVE  Cautious'
<1>0. report[c] = "none" /\ package.by # c
  BY DEF Cautious, Told
<1>1. CASE status = "completed" /\ Advance(c)
  <2>2. \/ UNCHANGED report /\ \E l \in {"read", "check", "gate"} : pc' = [pc EXCEPT ![c] = l]
        \/ /\ report' = [report EXCEPT ![c] = "completed"]
           /\ pc' = [pc EXCEPT ![c] = "release"]
    BY <1>1 DEF Advance, Return, Go
  <2>3. ASSUME UNCHANGED report,
               NEW l \in {"read", "check", "gate"}, pc' = [pc EXCEPT ![c] = l]
        PROVE  Cautious'
    BY <1>0, <1>1, <2>3
    DEF Shapes, Cautious, Told, CancelledRunsDeliverNothing, Working, Inside, Verdicts, Runs
  <2>4. CASE /\ report' = [report EXCEPT ![c] = "completed"]
             /\ pc' = [pc EXCEPT ![c] = "release"]
    BY <1>0, <1>1, <2>4
    DEF Shapes, Cautious, Told, CancelledRunsDeliverNothing, Working, Inside, Verdicts, Runs
  <2> QED BY <2>2, <2>3, <2>4
<1>2. CASE (status # "completed" /\ Stop(c, status)) \/ SinkRaises(c)
  <2>1. \E v \in {"failed", "cancelled", "raised"} :
            /\ report' = [report EXCEPT ![c] = v] /\ (v = "cancelled" => v = status)
            /\ pc' = [pc EXCEPT ![c] = IF c \in Packagers THEN "done" ELSE "release"]
    BY <1>2 DEF Stop, SinkRaises, Return, Go, Verdicts
  <2> QED
    BY <1>0, <2>1
    DEF Shapes, Cautious, Told, CancelledRunsDeliverNothing, Working, Inside, Verdicts, Runs
<1> QED BY <1>1, <1>2 DEF StageEnds

\* A call that goes on to start a command keeps them.
LEMMA SpawningCautious ==
  ASSUME Shapes, Cautious, NEW c \in Calls,
         pc[c] \in Working,
         pc' = [pc EXCEPT ![c] = "spawn"],
         UNCHANGED <<report, result, package, seen>>
  PROVE  Cautious'
  BY DEF Shapes, Cautious, Told, CancelledRunsDeliverNothing, Working, Inside, Verdicts, Runs

\* A cancellation stays seen by its run and has consequences there only: no step lets a run
\* that has seen it deliver.
LEMMA CautiousStep ==
  TypeOK /\ LockHeld /\ Cautious /\ [Next]_vars => Cautious'
<1> SUFFICES ASSUME TypeOK, LockHeld, Cautious, [Next]_vars PROVE Cautious'
  OBVIOUS
<1> USE RunAssumption DEF RunAssumption
<1>0. Shapes
  BY DEF TypeOK, Shapes
<1>1. ASSUME NEW c \in Calls, CheckBetweenStages(c) PROVE Cautious'
  BY <1>0, <1>1
  DEF CheckBetweenStages, SinkRaises, SaysYes, SaysNo, Throws, At, Return, Go, Shapes,
      Cautious, Told,
      CancelledRunsDeliverNothing, Working, Inside, Verdicts, Runs, fileVars, stageVars
<1>2. ASSUME NEW c \in Calls, EnterStage(c) PROVE Cautious'
  <2>0. pc[c] \in Working /\ UNCHANGED <<result, package>>
    BY <1>2 DEF EnterStage, At, Working, Inside, fileVars
  <2>1. CASE SaysNo(c) /\ Go(c, "spawn") /\ UNCHANGED report
    BY <1>0, <2>0, <2>1, SpawningCautious DEF SaysNo, Go, Working, Inside
  <2>2. CASE SaysYes(c) /\ StageEnds(c, "cancelled", Blank, TRUE)
    BY <1>0, <2>0, <2>2, EndingCautious DEF SaysYes, Verdicts
  <2>3. CASE SaysNo(c) /\ StageEnds(c, "failed", Blank, TRUE)
    BY <1>0, <2>0, <2>3, EndingCautious DEF SaysNo, Verdicts
  <2> QED BY <1>2, <2>1, <2>2, <2>3 DEF EnterStage
<1>3. ASSUME NEW c \in Calls, Spawn(c) PROVE Cautious'
  BY <1>0, <1>3
  DEF Spawn, SaysYes, SaysNo, At, Go, Shapes, Cautious, Told, CancelledRunsDeliverNothing,
      Working, Inside, Verdicts, Runs, fileVars
<1>4. ASSUME NEW c \in Calls, CommandEnded(c) PROVE Cautious'
  <2>1. exited[c] \in {"ok", "failed"}
    BY <1>4 DEF CommandEnded, TypeOK
  <2> QED
    BY <1>0, <1>4, <2>1
    DEF CommandEnded, At, Go, Shapes, Cautious, Told, CancelledRunsDeliverNothing, Working,
        Inside, Verdicts, Runs, fileVars, cancelVars
<1>5. ASSUME NEW c \in Calls, CancelCommand(c) \/ Deadline(c) \/ Terminate(c) PROVE Cautious'
  BY <1>0, <1>5
  DEF CancelCommand, Deadline, Terminate, SaysYes, SaysNo, At, Go, Shapes, Cautious, Told,
      CancelledRunsDeliverNothing, Working, Inside, Verdicts, Runs, fileVars, cancelVars,
      stageVars
<1>6. ASSUME NEW c \in Calls, StageRaises(c) PROVE Cautious'
  <2>1. /\ pc[c] \in Working
        /\ UNCHANGED <<result, package, seen>>
        /\ StageEnds(c, "failed", Blank, FALSE)
    BY <1>6 DEF StageRaises, Throws, SaysNo, At, Working, Inside, fileVars, stageVars
  <2> QED BY <1>0, <2>1, EndingCautious DEF Verdicts
<1>7. ASSUME NEW c \in Calls, SettlePreflight(c) PROVE Cautious'
  <2>0. pc[c] \in Working /\ UNCHANGED <<result, package, seen>>
    BY <1>7 DEF SettlePreflight, At, Working, Inside, fileVars, stageVars, cancelVars
  <2>1. CASE Go(c, "spawn") /\ UNCHANGED report
    BY <1>0, <2>0, <2>1, SpawningCautious DEF Go, Working, Inside
  <2>2. CASE StageEnds(c, "failed", Blank, TRUE)
    BY <1>0, <2>0, <2>2, EndingCautious DEF Verdicts
  <2>3. CASE result[c] = "ok"
    BY <1>7, <2>1, <2>3 DEF SettlePreflight
  <2>4. CASE result[c] # "ok"
    BY <1>7, <2>2, <2>4 DEF SettlePreflight
  <2> QED BY <2>3, <2>4
<1>8. ASSUME NEW c \in Calls, SettleTraining(c) PROVE Cautious'
  BY <1>0, <1>8
  DEF SettleTraining, At, Go, Shapes, Cautious, Told, CancelledRunsDeliverNothing, Working,
      Inside, Verdicts, Runs, fileVars, cancelVars
<1>9. ASSUME NEW c \in Calls, SettleProduct(c) PROVE Cautious'
  <2>0. pc[c] \in Working /\ UNCHANGED <<package, seen>>
    BY <1>9 DEF SettleProduct, At, Working, Inside, fileVars, cancelVars
  <2>1. CASE result[c] = "ok" /\ Fresh(c)
    BY <1>0, <1>9, <2>1
    DEF SettleProduct, At, Go, Shapes, Cautious, Told, CancelledRunsDeliverNothing, Working,
        Inside, Verdicts, Runs, fileVars, cancelVars
  <2>2. CASE ~(result[c] = "ok" /\ Fresh(c))
    <3>1. CASE result[c] = "cancelled"
      <4>1. StageEnds(c, "cancelled", Blank, TRUE) /\ UNCHANGED result
        BY <1>9, <2>2, <3>1 DEF SettleProduct
      <4>2. c \in seen
        BY <3>1 DEF Cautious, Told
      <4> QED BY <1>0, <2>0, <4>1, <4>2, EndingCautious DEF Verdicts
    <3>2. CASE result[c] # "cancelled"
      <4>1. StageEnds(c, "failed", Blank, TRUE) /\ UNCHANGED result
        BY <1>9, <2>2, <3>2 DEF SettleProduct
      <4> QED BY <1>0, <2>0, <4>1, EndingCautious DEF Verdicts
    <3> QED BY <3>1, <3>2
  <2> QED BY <2>1, <2>2
<1>10. ASSUME NEW c \in Calls, CopyProduct(c) PROVE Cautious'
  BY <1>0, <1>10
  DEF CopyProduct, At, Go, Shapes, Cautious, Told, CancelledRunsDeliverNothing, Working,
      Inside, Verdicts, Runs, cancelVars, stageVars
<1>11. ASSUME NEW c \in Calls, FinishStage(c) PROVE Cautious'
  <2>0. pc[c] \in Working /\ result[c] \in Verdicts /\ UNCHANGED <<result, package>>
    BY <1>11 DEF FinishStage, At, Working, Inside, fileVars, stageVars, Cautious, Told
  <2>1. CASE SaysYes(c) /\ StageEnds(c, "cancelled", Blank, TRUE)
    BY <1>0, <2>0, <2>1, EndingCautious DEF SaysYes, Verdicts
  <2>2. CASE SaysNo(c) /\ StageEnds(c, result[c], Item(c), TRUE)
    <3>1. result[c] # "cancelled"
      BY <2>2 DEF SaysNo, Cautious, Told
    <3> QED BY <1>0, <2>0, <2>2, <3>1, EndingCautious DEF SaysNo
  <2>3. CASE SaysNo(c) /\ StageEnds(c, "failed", Blank, TRUE)
    BY <1>0, <2>0, <2>3, EndingCautious DEF SaysNo, Verdicts
  <2> QED BY <1>11, <2>1, <2>2, <2>3 DEF FinishStage
<1>12. ASSUME NEW c \in Calls, Gate(c) PROVE Cautious'
  <2>1. c \notin Packagers
    BY <1>12 DEF Gate, At, LockHeld
  <2> QED
    BY <1>0, <1>12, <2>1
    DEF Gate, SaysYes, SaysNo, Throws, At, Return, Go, Shapes, Cautious, Told,
        CancelledRunsDeliverNothing, Working, Inside, Verdicts, Runs, fileVars, stageVars
<1>13. ASSUME NEW c \in Calls, ReadReport(c) PROVE Cautious'
  <2>1. c \notin seen
    BY <1>13 DEF ReadReport, At, LockHeld, Runs, TypeOK
  <2> QED
    BY <1>0, <1>13, <2>1
    DEF ReadReport, At, Go, Shapes, Cautious, Told, CancelledRunsDeliverNothing, Working,
        Inside, Verdicts, Runs, fileVars, cancelVars, stageVars
<1>14. ASSUME NEW c \in Calls, BuildPackage(c) \/ PackageFails(c) PROVE Cautious'
  BY <1>0, <1>14
  DEF BuildPackage, PackageFails, Stop, SinkRaises, Return, At, Go, Shapes, Cautious, Told,
      CancelledRunsDeliverNothing, Working, Inside, Verdicts, Runs, fileVars, cancelVars,
      stageVars
<1>15. ASSUME NEW c \in Calls, TakeThreadLock(c) \/ TakeFileLock(c) \/ ReleaseFileLock(c)
                                 \/ ReleaseThreadLock(c)
       PROVE  Cautious'
  BY <1>0, <1>15
  DEF TakeThreadLock, TakeFileLock, ReleaseFileLock, ReleaseThreadLock, At, Go, Shapes,
      Cautious, Told, CancelledRunsDeliverNothing, Working, Inside, Verdicts, Runs, fileVars,
      cancelVars, stageVars
<1>16. ASSUME NEW c \in Calls, RefusedByThread(c) \/ RefusedByFile(c) \/ MakeLockDir(c)
       PROVE  Cautious'
  BY <1>0, <1>16
  DEF RefusedByThread, RefusedByFile, MakeLockDir, At, Go, Shapes, Cautious, Told,
      CancelledRunsDeliverNothing, Working, Inside, Verdicts, Runs, fileVars, cancelVars,
      stageVars
<1>17. ASSUME NEW c \in Packagers, RequestPackage(c) PROVE Cautious'
  <2>1. UNCHANGED <<report, package, seen, result>>
    BY <1>17 DEF RequestPackage, fileVars, cancelVars, stageVars
  <2> QED
    BY <1>0, <1>17, <2>1
    DEF RequestPackage, At, Go, Shapes, Cautious, Told, CancelledRunsDeliverNothing, Working,
        Inside, Verdicts, Runs
<1>18. ASSUME NEW p \in Processes, Crash(p) PROVE Cautious'
  BY <1>0, <1>18
  DEF Crash, Shapes, Cautious, Told, CancelledRunsDeliverNothing, Working, Inside, Verdicts,
      Runs, fileVars, cancelVars, stageVars
<1>19. CASE UNCHANGED <<pc, report, package, seen, result>>
  BY <1>19 DEF Cautious, Told, CancelledRunsDeliverNothing
<1>20. ASSUME NEW c \in Calls, NEW k \in Commands, CommandWrites(c, k) \/ CommandExits(c, k)
       PROVE  Cautious'
  BY <1>19, <1>20 DEF CommandWrites, CommandExits, fileVars, cancelVars, stageVars
<1>21. ASSUME NEW c \in Calls, RequestCancel(c) PROVE Cautious'
  BY <1>19, <1>21 DEF RequestCancel, fileVars, stageVars
<1>22. CASE UNCHANGED vars
  BY <1>19, <1>22 DEF vars, fileVars, cancelVars, stageVars
<1> QED
  BY <1>1, <1>2, <1>3, <1>4, <1>5, <1>6, <1>7, <1>8, <1>9, <1>10, <1>11, <1>12, <1>13, <1>14,
     <1>15, <1>16, <1>17, <1>18, <1>20, <1>21, <1>22
  DEF Next, StartRun, LockStep, StageStep, PackageStep

Labels == Inside \cup Ended \cup {"idle", "dir", "open", "read", "unlock"}

\* The part of TypeOK the end of a stage touches.
StageTypes ==
    /\ pc \in [Calls -> Labels]
    /\ cmd \in [Calls -> Commands]
    /\ reports \in [Stages -> Entry]
    /\ evidence \in [Calls -> [Stages -> Entry]]
    /\ report \in [Calls -> Verdicts \cup {"none", "refused", "raised"}]

LEMMA EndingTyped ==
  ASSUME StageTypes, NEW c \in Calls, NEW status \in Verdicts, NEW item \in Content,
         NEW toFile, StageEnds(c, status, item, toFile)
  PROVE  StageTypes'
<1>1. /\ evidence' \in [Calls -> [Stages -> Entry]]
      /\ reports' \in [Stages -> Entry]
  <2>1. [status |-> status, item |-> item] \in Entry
    BY DEF Entry
  <2>2. (IF cmd[c] = "preflight" THEN "training" ELSE cmd[c]) \in Stages
    BY DEF StageTypes, Commands, Stages
  <2> QED BY <2>1, <2>2 DEF StageTypes, StageEnds, Record
<1>2. CASE Advance(c)
  BY <1>1, <1>2 DEF StageTypes, Advance, Return, Go, Labels, Inside, Ended, Commands, Verdicts
<1>3. CASE Stop(c, status) \/ SinkRaises(c)
  BY <1>1, <1>3 DEF StageTypes, Stop, SinkRaises, Return, Go, Labels, Inside, Ended
<1> QED BY <1>2, <1>3 DEF StageEnds

\* The part it does not touch.
OtherTypes ==
    /\ threadLock \in [Processes -> Calls \cup {None}]
    /\ fileLock \in Calls \cup {None}
    /\ down \subseteq Processes
    /\ asked \subseteq Cancellable /\ seen \subseteq asked
    /\ alive \subseteq Pair /\ written \subseteq Pair
    /\ exited \in [Calls -> {"no", "ok", "failed"}]
    /\ before \in [Calls -> Content]
    /\ result \in [Calls -> Verdicts \cup {"none", "ok"}]
    /\ file \in [Stages -> Content] /\ target \in Content
    /\ package \in [by : Calls \cup {None}, model : Content, checkpoint : Content,
                    metrics : Content]

LEMMA TypeParts == TypeOK <=> StageTypes /\ OtherTypes
  BY DEF TypeOK, StageTypes, OtherTypes, Labels

LEMMA BlankTyped == Blank \in Content
  BY DEF Blank, Content

\* Every variable keeps its type: labels, file contents and reports come from their sets.
LEMMA TypeStep == TypeOK /\ Told /\ [Next]_vars => TypeOK'
<1> SUFFICES ASSUME StageTypes, OtherTypes, Told, [Next]_vars
             PROVE  StageTypes' /\ OtherTypes'
  BY TypeParts, PTL
<1> USE RunAssumption, BlankTyped DEF RunAssumption
<1>1. ASSUME NEW c \in Calls, CheckBetweenStages(c) PROVE StageTypes' /\ OtherTypes'
  <2>1. StageTypes'
    <3>1. UNCHANGED <<reports, evidence>>
      BY <1>1 DEF CheckBetweenStages, stageFiles
    <3>2. CASE Return(c, "cancelled") /\ UNCHANGED cmd
      BY <3>1, <3>2 DEF Return, Go, StageTypes, Labels, Inside, Ended, Verdicts
    <3>3. CASE Return(c, "raised") /\ UNCHANGED cmd
      BY <3>1, <3>3 DEF Return, Go, StageTypes, Labels, Inside, Ended
    <3>4. CASE /\ Go(c, "enter") /\ UNCHANGED report
               /\ cmd' = [cmd EXCEPT ![c] =
                             IF @ = "training" /\ HasPreflight THEN "preflight" ELSE @]
      BY <3>1, <3>4 DEF Go, StageTypes, Labels, Inside, Commands
    <3> QED BY <1>1, <3>2, <3>3, <3>4 DEF CheckBetweenStages, SinkRaises
  <2>2. OtherTypes'
    BY <1>1 DEF CheckBetweenStages, SinkRaises, SaysYes, SaysNo, Throws, OtherTypes, lockVars,
                commandVars,
                stageVars, fileVars
  <2> QED BY <2>1, <2>2
<1>2. ASSUME NEW c \in Calls, EnterStage(c) PROVE StageTypes' /\ OtherTypes'
  <2>1. CASE SaysNo(c) /\ Go(c, "spawn") /\ UNCHANGED <<cmd, stageFiles, report>>
             /\ before' = [before EXCEPT
                              ![c] = file[IF cmd[c] = "preflight" THEN "training" ELSE cmd[c]]]
    <3>1. (IF cmd[c] = "preflight" THEN "training" ELSE cmd[c]) \in Stages
      BY DEF StageTypes, Commands, Stages
    <3>2. StageTypes'
      BY <2>1 DEF Go, StageTypes, Labels, Inside, stageFiles
    <3>3. before' \in [Calls -> Content]
      BY <2>1, <3>1 DEF OtherTypes
    <3>4. OtherTypes'
      BY <1>2, <2>1, <3>3 DEF EnterStage, SaysNo, OtherTypes, lockVars, commandVars, fileVars
    <3> QED BY <3>2, <3>4
  <2>2. ASSUME NEW status \in {"cancelled", "failed"}, StageEnds(c, status, Blank, TRUE),
               UNCHANGED before, SaysYes(c) \/ SaysNo(c)
        PROVE  StageTypes' /\ OtherTypes'
    <3>1. StageTypes'
      BY <2>2, EndingTyped DEF Verdicts
    <3>2. OtherTypes'
      BY <1>2, <2>2 DEF EnterStage, SaysYes, SaysNo, OtherTypes, lockVars, commandVars, fileVars
    <3> QED BY <3>1, <3>2
  <2> QED BY <1>2, <2>1, <2>2 DEF EnterStage
<1>3. ASSUME NEW c \in Calls, Spawn(c) PROVE StageTypes' /\ OtherTypes'
  <2>1. StageTypes'
    BY <1>3 DEF Spawn, Go, StageTypes, Labels, Inside, stageFiles
  <2>2. OtherTypes'
    <3>1. CASE /\ SaysNo(c) /\ UNCHANGED result
               /\ alive' = alive \cup {<<c, cmd[c]>>}
               /\ exited' = [exited EXCEPT ![c] = "no"]
      <4>1. <<c, cmd[c]>> \in Pair
        BY DEF StageTypes, Pair
      <4> QED
        BY <1>3, <3>1, <4>1 DEF Spawn, SaysNo, OtherTypes, lockVars, fileVars
    <3>2. CASE /\ \/ SaysNo(c) /\ result' = [result EXCEPT ![c] = "failed"]
                  \/ SaysYes(c) /\ result' = [result EXCEPT ![c] = "cancelled"]
               /\ UNCHANGED <<alive, exited>>
      BY <1>3, <3>2 DEF Spawn, SaysYes, SaysNo, OtherTypes, Verdicts, lockVars, fileVars
    <3> QED BY <1>3, <3>1, <3>2 DEF Spawn
  <2> QED BY <2>1, <2>2
<1>4. ASSUME NEW c \in Calls, CommandEnded(c) PROVE StageTypes' /\ OtherTypes'
  <2>1. StageTypes'
    BY <1>4 DEF CommandEnded, Go, StageTypes, Labels, Inside, stageFiles
  <2>2. exited[c] \in {"ok", "failed"}
    BY <1>4 DEF CommandEnded, OtherTypes
  <2>3. OtherTypes'
    BY <1>4, <2>2 DEF CommandEnded, OtherTypes, Verdicts, lockVars, cancelVars, commandVars,
                      fileVars
  <2> QED BY <2>1, <2>3
<1>5. ASSUME NEW c \in Calls, CancelCommand(c) \/ Deadline(c) PROVE StageTypes' /\ OtherTypes'
  <2>1. StageTypes'
    BY <1>5 DEF CancelCommand, Deadline, Go, StageTypes, Labels, Inside, stageFiles
  <2>2. OtherTypes'
    BY <1>5 DEF CancelCommand, Deadline, SaysYes, SaysNo, OtherTypes, Verdicts, lockVars,
                commandVars, fileVars
  <2> QED BY <2>1, <2>2
<1>6. ASSUME NEW c \in Calls, Terminate(c) PROVE StageTypes' /\ OtherTypes'
  <2>1. StageTypes'
    BY <1>6 DEF Terminate, Go, StageTypes, Labels, Inside, stageFiles
  <2>2. OtherTypes'
    BY <1>6 DEF Terminate, OtherTypes, lockVars, cancelVars, stageVars, fileVars
  <2> QED BY <2>1, <2>2
<1>7. ASSUME NEW c \in Calls, StageRaises(c) PROVE StageTypes' /\ OtherTypes'
  <2>1. StageTypes'
    BY <1>7, EndingTyped DEF StageRaises, Verdicts
  <2>2. UNCHANGED seen
    BY <1>7 DEF StageRaises, Throws, SaysNo
  <2>3. OtherTypes'
    BY <1>7, <2>2 DEF StageRaises, OtherTypes, lockVars, commandVars, stageVars, fileVars
  <2> QED BY <2>1, <2>3
<1>8. ASSUME NEW c \in Calls, SettlePreflight(c) PROVE StageTypes' /\ OtherTypes'
  <2>1. StageTypes'
    <3>1. CASE result[c] = "ok"
      BY <1>8, <3>1
      DEF SettlePreflight, Go, StageTypes, Labels, Inside, Commands, stageFiles
    <3>2. CASE result[c] # "ok"
      <4>1. StageEnds(c, "failed", Blank, TRUE)
        BY <1>8, <3>2 DEF SettlePreflight
      <4> QED BY <4>1, EndingTyped DEF Verdicts
    <3> QED BY <3>1, <3>2
  <2>2. OtherTypes'
    BY <1>8 DEF SettlePreflight, OtherTypes, lockVars, cancelVars, commandVars, stageVars,
                fileVars
  <2> QED BY <2>1, <2>2
<1>9. ASSUME NEW c \in Calls, SettleTraining(c) PROVE StageTypes' /\ OtherTypes'
  <2>1. PICK x \in Content :
            evidence' = [evidence EXCEPT ![c]["training"] = [status |-> "absent", item |-> x]]
    BY <1>9 DEF SettleTraining, OtherTypes, Stages
  <2>2. StageTypes'
    <3>1. [status |-> "absent", item |-> x] \in Entry
      BY DEF Entry
    <3> QED
      BY <1>9, <2>1, <3>1 DEF SettleTraining, Go, StageTypes, Stages, Labels, Inside
  <2>3. OtherTypes'
    BY <1>9 DEF SettleTraining, OtherTypes, Verdicts, lockVars, cancelVars, commandVars, fileVars
  <2> QED BY <2>2, <2>3
<1>10. ASSUME NEW c \in Calls, SettleProduct(c) PROVE StageTypes' /\ OtherTypes'
  <2>1. CASE result[c] = "ok" /\ Fresh(c)
    <3>1. StageTypes'
      BY <1>10, <2>1 DEF SettleProduct, Go, StageTypes, Labels, Inside, stageFiles
    <3>2. OtherTypes'
      BY <1>10, <2>1 DEF SettleProduct, OtherTypes, Verdicts, lockVars, cancelVars, commandVars,
                         fileVars
    <3> QED BY <3>1, <3>2
  <2>2. CASE ~(result[c] = "ok" /\ Fresh(c))
    <3>1. \E status \in {"cancelled", "failed"} : StageEnds(c, status, Blank, TRUE)
      BY <1>10, <2>2 DEF SettleProduct
    <3>2. StageTypes'
      BY <3>1, EndingTyped DEF Verdicts
    <3>3. OtherTypes'
      BY <1>10, <2>2 DEF SettleProduct, OtherTypes, lockVars, cancelVars, commandVars, fileVars
    <3> QED BY <3>2, <3>3
  <2> QED BY <2>1, <2>2
<1>11. ASSUME NEW c \in Calls, CopyProduct(c) PROVE StageTypes' /\ OtherTypes'
  <2>1. StageTypes'
    BY <1>11 DEF CopyProduct, Go, StageTypes, Labels, Inside, stageFiles
  <2>2. OtherTypes'
    BY <1>11 DEF CopyProduct, OtherTypes, Stages, lockVars, cancelVars, commandVars, stageVars
  <2> QED BY <2>1, <2>2
<1>12. ASSUME NEW c \in Calls, FinishStage(c) PROVE StageTypes' /\ OtherTypes'
  <2>1. result[c] \in Verdicts
    BY <1>12 DEF FinishStage, At, Told
  <2>2. Item(c) \in Content
    <3>1. evidence[c]["training"].item \in Content
      BY DEF StageTypes, Entry, Stages
    <3> QED BY <3>1 DEF Item, OtherTypes, Stages
  <2>3. \E status \in Verdicts, item \in Content : StageEnds(c, status, item, TRUE)
    BY <1>12, <2>1, <2>2 DEF FinishStage, Verdicts
  <2>4. StageTypes'
    BY <2>3, EndingTyped
  <2>5. seen' \subseteq asked
    BY <1>12 DEF FinishStage, SaysYes, SaysNo, OtherTypes
  <2>6. OtherTypes'
    BY <1>12, <2>5 DEF FinishStage, OtherTypes, lockVars, commandVars, stageVars, fileVars
  <2> QED BY <2>4, <2>6
<1>13. ASSUME NEW c \in Calls, Gate(c) PROVE StageTypes' /\ OtherTypes'
  <2>1. StageTypes'
    <3>1. CASE Return(c, "cancelled")
      BY <1>13, <3>1 DEF Gate, Return, Go, StageTypes, Labels, Inside, Ended, Verdicts, stageFiles
    <3>2. CASE Return(c, "raised")
      BY <1>13, <3>2 DEF Gate, Return, Go, StageTypes, Labels, Inside, Ended, stageFiles
    <3>3. CASE Go(c, "package") /\ UNCHANGED report
      BY <1>13, <3>3 DEF Gate, Go, StageTypes, Labels, Inside, stageFiles
    <3> QED BY <1>13, <3>1, <3>2, <3>3 DEF Gate
  <2>2. seen' \subseteq asked
    BY <1>13 DEF Gate, SaysYes, SaysNo, Throws, OtherTypes
  <2>3. OtherTypes'
    BY <1>13, <2>2 DEF Gate, OtherTypes, lockVars, commandVars, stageVars, fileVars
  <2> QED BY <2>1, <2>3
<1>14. ASSUME NEW c \in Calls, ReadReport(c) PROVE StageTypes' /\ OtherTypes'
  <2>1. cmd[c] \in Stages
    BY <1>14 DEF ReadReport, Stages
  <2>2. StageTypes'
    BY <1>14, <2>1 DEF ReadReport, Go, StageTypes, Labels, Inside, Commands
  <2>3. OtherTypes'
    BY <1>14 DEF ReadReport, OtherTypes, lockVars, cancelVars, commandVars, stageVars, fileVars
  <2> QED BY <2>2, <2>3
<1>15. ASSUME NEW c \in Calls, BuildPackage(c) PROVE StageTypes' /\ OtherTypes'
  <2>1. StageTypes'
    BY <1>15 DEF BuildPackage, SinkRaises, Return, Go, StageTypes, Labels, Inside, Ended,
                 Verdicts, stageFiles
  <2>2. /\ evidence[c]["training"].item \in Content
        /\ evidence[c]["evaluation"].item \in Content
    BY DEF StageTypes, Entry, Stages
  <2>3. OtherTypes'
    BY <1>15, <2>2
    DEF BuildPackage, OtherTypes, lockVars, cancelVars, commandVars, stageVars
  <2> QED BY <2>1, <2>3
<1>16. ASSUME NEW c \in Calls, PackageFails(c) PROVE StageTypes' /\ OtherTypes'
  <2>1. StageTypes'
    BY <1>16 DEF PackageFails, Stop, SinkRaises, Return, Go, StageTypes, Labels, Inside, Ended,
                 Verdicts,
                 stageFiles
  <2>2. OtherTypes'
    BY <1>16 DEF PackageFails, OtherTypes, lockVars, cancelVars, commandVars, stageVars, fileVars
  <2> QED BY <2>1, <2>2
<1>17. ASSUME NEW c \in Calls, TakeThreadLock(c) \/ TakeFileLock(c) \/ ReleaseFileLock(c)
                                 \/ ReleaseThreadLock(c)
       PROVE  StageTypes' /\ OtherTypes'
  <2>1. StageTypes'
    BY <1>17 DEF TakeThreadLock, TakeFileLock, ReleaseFileLock, ReleaseThreadLock, Go, StageTypes,
                 Labels, Inside, Ended, stageFiles
  <2>2. OtherTypes'
    BY <1>17 DEF TakeThreadLock, TakeFileLock, ReleaseFileLock, ReleaseThreadLock, OtherTypes,
                 cancelVars, commandVars, stageVars, fileVars
  <2> QED BY <2>1, <2>2
<1>18. ASSUME NEW c \in Calls, RefusedByThread(c) \/ RefusedByFile(c) \/ MakeLockDir(c)
       PROVE  StageTypes' /\ OtherTypes'
  <2>1. StageTypes'
    BY <1>18 DEF RefusedByThread, RefusedByFile, MakeLockDir, Go, StageTypes, Labels, Inside, Ended,
                 stageFiles
  <2>2. OtherTypes'
    BY <1>18 DEF RefusedByThread, RefusedByFile, MakeLockDir, OtherTypes, lockVars, cancelVars,
                 commandVars, stageVars, fileVars
  <2> QED BY <2>1, <2>2
<1>19. ASSUME NEW c \in Packagers, RequestPackage(c) PROVE StageTypes' /\ OtherTypes'
  BY <1>19
  DEF RequestPackage, Go, StageTypes, OtherTypes, Labels, Inside, Commands, lockVars,
      cancelVars, commandVars, stageVars, fileVars, stageFiles
<1>20. ASSUME NEW c \in Calls, RequestCancel(c) PROVE StageTypes' /\ OtherTypes'
  BY <1>20
  DEF RequestCancel, StageTypes, OtherTypes, lockVars, commandVars, stageVars, fileVars,
      stageFiles
<1>21. ASSUME NEW c \in Calls, NEW k \in Commands, CommandWrites(c, k)
       PROVE  StageTypes' /\ OtherTypes'
  <2>1. k \in Stages
    BY <1>21 DEF CommandWrites, Commands, Stages
  <2>2. [by |-> c, from |-> Source(k)] \in Content
    BY DEF Source, OtherTypes, Stages, Content
  <2> QED
    BY <1>21, <2>1, <2>2
    DEF CommandWrites, StageTypes, OtherTypes, Pair, lockVars, cancelVars, stageVars, stageFiles
<1>22. ASSUME NEW c \in Calls, NEW k \in Commands, CommandExits(c, k)
       PROVE  StageTypes' /\ OtherTypes'
  BY <1>22
  DEF CommandExits, StageTypes, OtherTypes, lockVars, cancelVars, stageVars, fileVars, stageFiles
<1>23. ASSUME NEW p \in Processes, Crash(p) PROVE StageTypes' /\ OtherTypes'
  BY <1>23
  DEF Crash, StageTypes, OtherTypes, Labels, Ended, cancelVars, commandVars, stageVars,
      fileVars, stageFiles
<1>24. CASE UNCHANGED vars
  BY <1>24
  DEF vars, StageTypes, OtherTypes, lockVars, cancelVars, commandVars, stageVars, fileVars,
      stageFiles
<1> QED
  BY <1>1, <1>2, <1>3, <1>4, <1>5, <1>6, <1>7, <1>8, <1>9, <1>10, <1>11, <1>12, <1>13, <1>14,
     <1>15, <1>16, <1>17, <1>18, <1>19, <1>20, <1>21, <1>22, <1>23, <1>24
  DEF Next, StartRun, LockStep, StageStep, PackageStep
\* The conditions hold initially: nobody has a lock, nothing has been cancelled.
LEMMA Initially == Init => IInv
<1> SUFFICES ASSUME Init PROVE IInv
  OBVIOUS
<1> USE RunAssumption, BlankTyped DEF RunAssumption
<1>1. StageTypes
  <2>1. Absent \in Entry
    BY DEF Absent, Entry
  <2> QED BY <2>1 DEF Init, StageTypes, Labels, Commands
<1>2. OtherTypes
  BY DEF Init, OtherTypes, NoPackage
<1>3. LockHeld
  BY DEF Init, LockHeld, Inside, Runs
<1>4. Told /\ CancelledRunsDeliverNothing
  BY DEF Init, Told, CancelledRunsDeliverNothing, Working, Inside, Runs, NoPackage
<1> QED BY <1>1, <1>2, <1>3, <1>4, TypeParts DEF IInv

\* The inductive invariant holds in every reachable state.
THEOREM Invariance == Spec => []IInv
<1>1. IInv /\ [Next]_vars => IInv'
  BY TypeStep, LockHeldStep, CautiousStep DEF IInv, Cautious
<1> QED BY Initially, <1>1, PTL DEF Spec

\* Every variable has its type, whatever fails.
THEOREM TypeCorrect == Spec => []TypeOK
<1>1. IInv => TypeOK
  BY DEF IInv
<1> QED BY Invariance, <1>1, PTL

\* _pipeline_run_lock: two runs are never both between their locks, in any number of
\* processes, also when processes die.
THEOREM RunsExclusive == Spec => []RunsExclude
<1>1. IInv => RunsExclude
  BY DEF IInv, LockHeld, RunsExclude
<1> QED BY Invariance, <1>1, PTL

\* run_experiment_pipeline and the adapters: a run that has seen its cancellation has built
\* no package and does not report completed.
THEOREM CancelledDeliverNothing == Spec => []CancelledRunsDeliverNothing
<1>1. IInv => CancelledRunsDeliverNothing
  BY DEF IInv
<1> QED BY Invariance, <1>1, PTL
-----------------------------------------------------------------------------
(* The contract.  Steps of a stage are Hear or nothing; the lock steps are  *)
(* Enter, Refuse, Finish and Return.                                        *)

Keeps(r) == PhaseOf(r)' = PhaseOf(r) /\ VerdictOf(r)' = VerdictOf(r)

\* Only the own cancellation is seen, and only when it has been asked for.
LEMMA Hearing ==
  ASSUME NEW c \in Calls, StageStep(c) \/ PackageStep(c)
  PROVE  UNCHANGED seen \/ (c \in asked /\ seen' = seen \cup {c})
<1>1. CASE CheckBetweenStages(c) \/ EnterStage(c) \/ Spawn(c) \/ CancelCommand(c) \/ Deadline(c)
  BY <1>1 DEF CheckBetweenStages, EnterStage, Spawn, CancelCommand, Deadline, SaysYes, SaysNo,
              Throws
<1>2. CASE StageRaises(c) \/ FinishStage(c) \/ Gate(c)
  BY <1>2 DEF StageRaises, FinishStage, Gate, SaysYes, SaysNo, Throws
<1>3. CASE CommandEnded(c) \/ Terminate(c) \/ SettlePreflight(c) \/ SettleTraining(c)
           \/ SettleProduct(c) \/ CopyProduct(c)
  BY <1>3 DEF CommandEnded, Terminate, SettlePreflight, SettleTraining, SettleProduct,
              CopyProduct, cancelVars
<1>4. CASE ReadReport(c) \/ BuildPackage(c) \/ PackageFails(c)
  BY <1>4 DEF ReadReport, BuildPackage, PackageFails, cancelVars
<1> QED BY <1>1, <1>2, <1>3, <1>4 DEF StageStep, PackageStep

\* A step that moves one call changes nothing for the others.
LEMMA OthersKeep ==
  ASSUME TypeOK, NEW c \in Calls,
         UNCHANGED pc \/ \E l : pc' = [pc EXCEPT ![c] = l],
         UNCHANGED report \/ \E v : report' = [report EXCEPT ![c] = v],
         NEW r \in Runs, r # c
  PROVE  Keeps(r)
<1>1. pc'[r] = pc[r] /\ report'[r] = report[r]
  BY DEF TypeOK, Runs
<1> QED BY <1>1 DEF Keeps, PhaseOf, VerdictOf

\* A step nobody outside notices.
LEMMA Stuttering ==
  ASSUME \A r \in Runs : Keeps(r), UNCHANGED asked,
         UNCHANGED seen \/ \E r \in Runs : r \in asked /\ seen' = seen \cup {r}
  PROVE  [Contract!Next]_<<[c \in Runs |-> PhaseOf(c)], [c \in Runs |-> VerdictOf(c)],
                           asked, seen>>
<1>1. UNCHANGED <<[c \in Runs |-> PhaseOf(c)], [c \in Runs |-> VerdictOf(c)]>>
  BY DEF Keeps
<1>2. CASE UNCHANGED seen
  BY <1>1, <1>2
<1>3. ASSUME NEW r \in Runs, r \in asked, seen' = seen \cup {r} PROVE Contract!Next
  <2>1. Contract!Hear(r)
    BY <1>1, <1>3 DEF Contract!Hear
  <2> QED BY <2>1 DEF Contract!Next
<1> QED BY <1>2, <1>3

\* A step from one phase to another.
LEMMA Ends ==
  ASSUME NEW c \in Runs, NEW from, NEW to, NEW value,
         PhaseOf(c) = from, PhaseOf(c)' = to, VerdictOf(c)' = value,
         \A r \in Runs \ {c} : Keeps(r),
         UNCHANGED <<asked, seen>>
  PROVE  Contract!End(c, from, to, value)
  BY DEF Contract!End, Keeps
\* Every step of the runs is a step of the contract, or none.
LEMMA ContractStep ==
  IInv /\ [Next]_vars =>
      [Contract!Next]_<<[c \in Runs |-> PhaseOf(c)], [c \in Runs |-> VerdictOf(c)], asked, seen>>
<1> DEFINE Mapped == [Contract!Next]_<<[c \in Runs |-> PhaseOf(c)],
                                       [c \in Runs |-> VerdictOf(c)], asked, seen>>
<1> SUFFICES ASSUME IInv, [Next]_vars PROVE Mapped
  OBVIOUS
<1> USE RunAssumption DEF RunAssumption
<1>0. TypeOK /\ LockHeld /\ Told /\ CancelledRunsDeliverNothing
  BY DEF IInv
<1>00. /\ pc \in [Calls -> Inside \cup Ended \cup {"idle", "dir", "open", "read", "unlock"}]
       /\ report \in [Calls -> Verdicts \cup {"none", "refused", "raised"}]
       /\ asked \subseteq Runs /\ Runs \subseteq Calls
  BY <1>0 DEF TypeOK, Runs
<1> HIDE DEF Mapped
<1>1. ASSUME \A r \in Runs : Keeps(r), UNCHANGED asked,
             UNCHANGED seen \/ \E r \in Runs : r \in asked /\ seen' = seen \cup {r}
      PROVE  Mapped
  BY <1>1, Stuttering DEF Mapped
<1>2. ASSUME Contract!Next PROVE Mapped
  BY <1>2 DEF Mapped
<1>3. ASSUME NEW c \in Calls, StageStep(c) \/ PackageStep(c) PROVE Mapped
  <2>1. /\ UNCHANGED asked
        /\ pc[c] \in Path(c) \ {"release", "done"}
        /\ Moves(c) /\ Reports(c, Verdicts \cup {"raised"})
    BY <1>0, <1>3, Footprint
  <2>2. \A r \in Runs \ {c} : Keeps(r)
    BY <1>0, <2>1, OthersKeep DEF Moves, Reports
  <2>3. c \in Runs => Keeps(c)
    <3> SUFFICES ASSUME c \in Runs PROVE Keeps(c)
      OBVIOUS
    <3>1. Path(c) = Inside
      BY DEF Path, Runs
    <3>2. pc[c] \in Inside /\ pc'[c] \in Inside
      BY <1>00, <2>1, <3>1 DEF Moves
    <3> QED BY <3>2 DEF Keeps, PhaseOf, VerdictOf, Inside
  <2>4. UNCHANGED seen \/ \E r \in Runs : r \in asked /\ seen' = seen \cup {r}
    BY <1>00, <1>3, Hearing
  <2> QED BY <1>1, <2>1, <2>2, <2>3, <2>4
<1>4. ASSUME NEW c \in Runs, TakeThreadLock(c) PROVE Mapped
  <2>1. pc[c] = "idle" /\ pc' = [pc EXCEPT ![c] = "dir"] /\ UNCHANGED <<report, asked, seen>>
    BY <1>4 DEF TakeThreadLock, At, Go, cancelVars
  <2>2. \A r \in Runs \ {c} : Keeps(r)
    BY <1>0, <1>00, <2>1, OthersKeep
  <2>3. Keeps(c)
    BY <1>00, <2>1 DEF Keeps, PhaseOf, VerdictOf
  <2> QED BY <1>1, <2>1, <2>2, <2>3
<1>5. ASSUME NEW c \in Calls, NEW to \in {"done", "unlock"}, NEW v \in {"refused", "raised"},
             pc[c] \in {"idle", "dir", "open"}, c \in Runs,
             pc' = [pc EXCEPT ![c] = to], report' = [report EXCEPT ![c] = v],
             UNCHANGED <<asked, seen>>
      PROVE  Mapped
  <2>1. \A r \in Runs \ {c} : Keeps(r)
    BY <1>0, <1>00, <1>5, OthersKeep
  <2>2. PhaseOf(c) = "waiting"
    BY <1>5 DEF PhaseOf
  <2>3. \E phase \in {"leaving", "ended"} : PhaseOf(c)' = phase /\ VerdictOf(c)' = v
    BY <1>00, <1>5 DEF PhaseOf, VerdictOf, Inside
  <2>4. \E phase \in {"leaving", "ended"} : Contract!End(c, "waiting", phase, v)
    BY <1>5, <2>1, <2>2, <2>3, Ends
  <2>5. Contract!Refuse(c)
    BY <2>4 DEF Contract!Refuse
  <2> QED BY <1>2, <1>5, <2>5 DEF Contract!Next
<1>6. ASSUME NEW c \in Runs, RefusedByThread(c) PROVE Mapped
  BY <1>00, <1>5, <1>6 DEF RefusedByThread, At, Go, cancelVars
<1>7. ASSUME NEW c \in Calls, MakeLockDir(c) PROVE Mapped
  <2>1. c \in Runs /\ pc[c] = "dir" /\ UNCHANGED <<asked, seen>>
    BY <1>0, <1>7 DEF MakeLockDir, At, LockHeld, Runs, cancelVars
  <2>2. CASE Go(c, "open") /\ UNCHANGED report
    <3>1. \A r \in Runs \ {c} : Keeps(r)
      BY <1>0, <1>00, <2>2, OthersKeep DEF Go
    <3>2. Keeps(c)
      BY <1>00, <2>1, <2>2 DEF Keeps, PhaseOf, VerdictOf, Go
    <3> QED BY <1>1, <2>1, <3>1, <3>2
  <2>3. CASE Go(c, "done") /\ report' = [report EXCEPT ![c] = "raised"]
    BY <1>5, <2>1, <2>3 DEF Go
  <2> QED BY <1>7, <2>2, <2>3 DEF MakeLockDir
<1>8. ASSUME NEW c \in Calls, TakeFileLock(c) PROVE Mapped
  <2>1. /\ c \in Runs /\ pc[c] = "open" /\ fileLock = None
        /\ pc' = [pc EXCEPT ![c] = "check"] /\ UNCHANGED <<report, asked, seen>>
    BY <1>0, <1>8 DEF TakeFileLock, At, Go, LockHeld, Runs, cancelVars
  <2>2. \A r \in Runs \ {c} : Keeps(r)
    BY <1>0, <1>00, <2>1, OthersKeep
  <2>3. \A r \in Runs : PhaseOf(r) # "running"
    BY <1>0, <1>00, <2>1 DEF LockHeld, PhaseOf
  <2>4. /\ PhaseOf(c) = "waiting" /\ PhaseOf(c)' = "running"
        /\ VerdictOf(c) = "none" /\ VerdictOf(c)' = "none"
    BY <1>00, <2>1 DEF PhaseOf, VerdictOf, Inside
  <2>5. Contract!Enter(c)
    BY <2>1, <2>2, <2>3, <2>4 DEF Contract!Enter, Keeps
  <2> QED BY <1>2, <2>1, <2>5 DEF Contract!Next
<1>9. ASSUME NEW c \in Calls, RefusedByFile(c) PROVE Mapped
  <2>1. c \in Runs /\ pc[c] = "open" /\ UNCHANGED <<asked, seen>>
    BY <1>0, <1>9 DEF RefusedByFile, At, LockHeld, Runs, cancelVars
  <2> QED BY <1>5, <1>9, <2>1 DEF RefusedByFile, Go
<1>10. ASSUME NEW c \in Calls, ReleaseFileLock(c) PROVE Mapped
  <2>1. /\ c \in Runs /\ pc[c] = "release" /\ pc' = [pc EXCEPT ![c] = "unlock"]
        /\ UNCHANGED <<report, asked, seen>>
    BY <1>0, <1>10 DEF ReleaseFileLock, At, Go, LockHeld, Runs, cancelVars
  <2>2. /\ report[c] \in {"completed", "failed", "cancelled", "raised"}
        /\ report[c] = "completed" => c \notin seen
        /\ report[c] = "cancelled" => c \in seen
    BY <1>0, <1>00, <2>1 DEF Told, CancelledRunsDeliverNothing, Verdicts
  <2>3. \A r \in Runs \ {c} : Keeps(r)
    BY <1>0, <1>00, <2>1, OthersKeep
  <2>4. PhaseOf(c) = "running" /\ PhaseOf(c)' = "leaving" /\ VerdictOf(c)' = report[c]
    BY <1>00, <2>1 DEF PhaseOf, VerdictOf, Inside
  <2>5. Contract!End(c, "running", "leaving", report[c])
    BY <2>1, <2>3, <2>4, Ends
  <2>6. Contract!Finish(c)
    BY <2>2, <2>5 DEF Contract!Finish
  <2> QED BY <1>2, <2>1, <2>6 DEF Contract!Next
<1>11. ASSUME NEW c \in Calls, ReleaseThreadLock(c) PROVE Mapped
  <2>1. /\ c \in Runs /\ pc[c] = "unlock" /\ pc' = [pc EXCEPT ![c] = "done"]
        /\ UNCHANGED <<report, asked, seen>>
    BY <1>0, <1>11 DEF ReleaseThreadLock, At, Go, LockHeld, Runs, cancelVars
  <2>2. \A r \in Runs \ {c} : Keeps(r)
    BY <1>0, <1>00, <2>1, OthersKeep
  <2>3. /\ PhaseOf(c) = "leaving" /\ PhaseOf(c)' = "ended"
        /\ VerdictOf(c) = report[c] /\ VerdictOf(c)' = report[c]
    BY <1>00, <2>1 DEF PhaseOf, VerdictOf, Inside
  <2>4. Contract!End(c, "leaving", "ended", VerdictOf(c))
    BY <2>1, <2>2, <2>3, Ends
  <2>5. Contract!Return(c)
    BY <2>1, <2>4 DEF Contract!Return
  <2> QED BY <1>2, <2>1, <2>5 DEF Contract!Next
<1>12. ASSUME NEW c \in Packagers, RequestPackage(c) PROVE Mapped
  <2>1. /\ \E l : pc' = [pc EXCEPT ![c] = l]
        /\ UNCHANGED <<report, asked, seen>>
    BY <1>12 DEF RequestPackage, Go, cancelVars
  <2>2. \A r \in Runs : Keeps(r)
    BY <1>0, <2>1, OthersKeep DEF Runs
  <2> QED BY <1>1, <2>1, <2>2
<1>13. ASSUME NEW c \in Calls, RequestCancel(c) PROVE Mapped
  <2>1. c \in Runs /\ asked' = asked \cup {c} /\ UNCHANGED <<pc, report, seen>>
    BY <1>13 DEF RequestCancel, Runs
  <2>2. Contract!Ask(c)
    BY <2>1 DEF Contract!Ask, PhaseOf, VerdictOf
  <2> QED BY <1>2, <2>1, <2>2 DEF Contract!Next
<1>14. CASE UNCHANGED <<pc, report, asked, seen>>
  BY <1>1, <1>14 DEF Keeps, PhaseOf, VerdictOf
<1>15. ASSUME NEW c \in Calls, NEW k \in Commands, CommandWrites(c, k) \/ CommandExits(c, k)
       PROVE  Mapped
  BY <1>14, <1>15 DEF CommandWrites, CommandExits, cancelVars
<1>16. ASSUME NEW p \in Processes, Crash(p) PROVE Mapped
  <2>1. /\ pc' = [c \in Calls |-> IF Home[c] = p /\ pc[c] # "done" THEN "dead" ELSE pc[c]]
        /\ UNCHANGED <<report, asked, seen>>
    BY <1>16 DEF Crash, cancelVars
  <2> DEFINE D == {r \in Runs : Home[r] = p /\ PhaseOf(r) # "ended"}
  <2>2. \A r \in Runs : pc[r] # "read"
    BY <1>0 DEF LockHeld
  <2>3. ASSUME NEW r \in Runs PROVE /\ PhaseOf(r)' = IF r \in D THEN "ended" ELSE PhaseOf(r)
                                    /\ VerdictOf(r)' = IF r \in D THEN "lost" ELSE VerdictOf(r)
    <3>1. pc'[r] = IF Home[r] = p /\ pc[r] # "done" THEN "dead" ELSE pc[r]
      BY <1>00, <2>1
    <3>2. CASE r \in D
      BY <2>1, <3>1, <3>2 DEF PhaseOf, VerdictOf, Inside
    <3>3. CASE r \notin D
      <4>1. pc'[r] = pc[r]
        BY <1>00, <2>2, <3>1, <3>3 DEF PhaseOf, Inside, Ended
      <4> QED BY <2>1, <3>3, <4>1 DEF PhaseOf, VerdictOf
    <3> QED BY <3>2, <3>3
  <2>4. D \in SUBSET {r \in Runs : PhaseOf(r) # "ended"}
    OBVIOUS
  <2>5. Contract!Die
    <3>1. /\ [c \in Runs |-> PhaseOf(c)]' =
                [r \in Runs |-> IF r \in D THEN "ended" ELSE PhaseOf(r)]
          /\ [c \in Runs |-> VerdictOf(c)]' =
                [r \in Runs |-> IF r \in D THEN "lost" ELSE VerdictOf(r)]
      BY <2>3
    <3> QED BY <2>1, <2>4, <3>1 DEF Contract!Die
  <2> QED BY <1>2, <2>5 DEF Contract!Next
<1>17. CASE UNCHANGED vars
  BY <1>14, <1>17 DEF vars, cancelVars
<1> QED
  BY <1>3, <1>4, <1>6, <1>7, <1>8, <1>9, <1>10, <1>11, <1>12, <1>13, <1>15, <1>16, <1>17
  DEF Next, StartRun, LockStep, Runs, Mapped

\* run_experiment_pipeline implements the contract: exclusion, and verdicts that agree with
\* what the run knows of its cancellation.
THEOREM ContractKept == Spec => ContractSpec
<1>1. Init => Contract!Init
  BY DEF Init, Contract!Init, PhaseOf, VerdictOf, Runs
<1> QED
  BY <1>1, ContractStep, Invariance, PTL DEF Spec, ContractSpec, Contract!Spec
-----------------------------------------------------------------------------
(* Refusals.                                                               *)

\* Whoever has a thread lock is a call at work in that process.
HolderActive ==
    \A p \in Processes :
        threadLock[p] # None =>
            /\ threadLock[p] \in Runs /\ Home[threadLock[p]] = p
            /\ pc[threadLock[p]] \in Inside \cup {"dir", "open", "unlock"}

\* A thread lock outlives its call only when the directory of the lock files cannot be made.
LEMMA HolderActiveStep ==
  ASSUME ~FilesMayFail
  PROVE  IInv /\ HolderActive /\ [Next]_vars => HolderActive'
<1> SUFFICES ASSUME IInv, HolderActive, [Next]_vars PROVE HolderActive'
  OBVIOUS
<1> USE RunAssumption DEF RunAssumption
<1>0. /\ pc \in [Calls -> Inside \cup Ended \cup {"idle", "dir", "open", "read", "unlock"}]
      /\ threadLock \in [Processes -> Calls \cup {None}]
      /\ LockHeld /\ Told
  BY DEF IInv, TypeOK
<1>1. ASSUME NEW c \in Calls, StageStep(c) \/ PackageStep(c) PROVE HolderActive'
  <2>1. UNCHANGED threadLock /\ Moves(c)
    BY <1>0, <1>1, Footprint
  <2>2. c \in Runs => Path(c) = Inside
    BY DEF Path, Runs
  <2> QED BY <1>0, <2>1, <2>2 DEF HolderActive, Moves
<1>2. ASSUME NEW c \in Runs, StartRun(c) PROVE HolderActive'
  BY <1>0, <1>2
  DEF StartRun, TakeThreadLock, RefusedByThread, lockVars, At, Go, HolderActive, Inside, Runs
<1>3. ASSUME NEW c \in Calls, MakeLockDir(c) \/ TakeFileLock(c) \/ RefusedByFile(c)
                                \/ ReleaseFileLock(c)
      PROVE  HolderActive'
  <2>1. /\ UNCHANGED threadLock
        /\ \E l \in {"open", "check", "unlock"} : pc' = [pc EXCEPT ![c] = l]
    BY <1>3 DEF MakeLockDir, TakeFileLock, RefusedByFile, ReleaseFileLock, lockVars, Go
  <2> QED BY <1>0, <2>1 DEF HolderActive, Inside
<1>4. ASSUME NEW c \in Calls, ReleaseThreadLock(c) PROVE HolderActive'
  BY <1>0, <1>4 DEF ReleaseThreadLock, Go, HolderActive
<1>5. ASSUME NEW c \in Packagers, RequestPackage(c) PROVE HolderActive'
  BY <1>0, <1>5 DEF RequestPackage, lockVars, Go, HolderActive, Runs
<1>6. CASE UNCHANGED <<threadLock, pc>>
  BY <1>6 DEF HolderActive
<1>7. ASSUME NEW c \in Calls, RequestCancel(c) PROVE HolderActive'
  BY <1>6, <1>7 DEF RequestCancel, lockVars
<1>8. ASSUME NEW c \in Calls, NEW k \in Commands, CommandWrites(c, k) \/ CommandExits(c, k)
      PROVE  HolderActive'
  BY <1>6, <1>8 DEF CommandWrites, CommandExits, lockVars
<1>9. ASSUME NEW p \in Processes, Crash(p) PROVE HolderActive'
  BY <1>0, <1>9 DEF Crash, HolderActive, Runs
<1>10. CASE UNCHANGED vars
  BY <1>6, <1>10 DEF vars, lockVars
<1> QED
  BY <1>1, <1>2, <1>3, <1>4, <1>5, <1>7, <1>8, <1>9, <1>10 DEF Next, LockStep, Runs

\* _pipeline_run_lock: while the directory of the lock files can be made, a call is refused
\* as "already active" only while another one is, also after any process has died.
THEOREM RefusedWhileActive == ASSUME ~FilesMayFail PROVE Spec => RefusedOnlyWhileActive
<1> DEFINE Justified(c) ==
      report[c] = "none" /\ report'[c] = "refused" =>
          \E d \in Calls \ {c} : pc[d] \notin {"idle"} \cup Ended
<1>1. IInv /\ HolderActive /\ [Next]_vars => \A c \in Calls : Justified(c)
  <2> SUFFICES ASSUME IInv, HolderActive, [Next]_vars,
                      NEW c \in Calls, report[c] = "none", report'[c] = "refused"
               PROVE  \E d \in Calls \ {c} : pc[d] \notin {"idle"} \cup Ended
    OBVIOUS
  <2> USE RunAssumption DEF RunAssumption
  <2>0. TypeOK /\ LockHeld /\ Told
    BY DEF IInv
  <2>1. ASSUME NEW b \in Calls,
               \E v \in Verdicts \cup {"raised"} : report' = [report EXCEPT ![b] = v]
        PROVE  FALSE
    BY <2>0, <2>1 DEF TypeOK, Verdicts
  <2>2. ASSUME UNCHANGED report PROVE FALSE
    BY <2>2
  <2>3. ASSUME NEW b \in Calls, report' = [report EXCEPT ![b] = "refused"] PROVE b = c
    BY <2>0, <2>3 DEF TypeOK
  <2>4. ASSUME NEW b \in Calls, StageStep(b) \/ PackageStep(b) PROVE FALSE
    BY <2>0, <2>1, <2>2, <2>4, Footprint DEF Reports
  <2>5. ASSUME NEW b \in Runs, StartRun(b) PROVE StartRun(c)
    BY <2>2, <2>3, <2>5 DEF StartRun, TakeThreadLock, RefusedByThread, Runs
  <2>6. ASSUME NEW b \in Calls, LockStep(b) PROVE RefusedByFile(c)
    BY <2>1, <2>2, <2>3, <2>6
    DEF LockStep, MakeLockDir, TakeFileLock, RefusedByFile, ReleaseFileLock, ReleaseThreadLock
  <2>7. CASE StartRun(c)
    <3>1. pc[c] = "idle" /\ threadLock[Home[c]] # None
      BY <2>2, <2>7 DEF StartRun, TakeThreadLock, RefusedByThread, At
    <3>2. Home[c] \in Processes
      OBVIOUS
    <3> QED
      BY <3>1, <3>2 DEF HolderActive, Inside, Ended, Runs
  <2>8. CASE RefusedByFile(c)
    <3>1. pc[c] = "open" /\ fileLock # None
      BY <2>8 DEF RefusedByFile, At
    <3> QED BY <2>0, <3>1 DEF LockHeld, Inside, Ended, Runs
  <2>9. ASSUME NEW b \in Packagers, RequestPackage(b) PROVE FALSE
    BY <2>2, <2>9 DEF RequestPackage
  <2>10. ASSUME NEW b \in Calls, RequestCancel(b) PROVE FALSE
    BY <2>2, <2>10 DEF RequestCancel
  <2>11. ASSUME NEW b \in Calls, NEW k \in Commands, CommandWrites(b, k) \/ CommandExits(b, k)
         PROVE  FALSE
    BY <2>2, <2>11 DEF CommandWrites, CommandExits
  <2>12. ASSUME NEW p \in Processes, Crash(p) PROVE FALSE
    BY <2>2, <2>12 DEF Crash
  <2>13. CASE UNCHANGED vars
    BY <2>2, <2>13 DEF vars
  <2> QED
    BY <2>4, <2>5, <2>6, <2>7, <2>8, <2>9, <2>10, <2>11, <2>12, <2>13 DEF Next, Runs
<1>2. IInv /\ HolderActive /\ [Next]_vars => [\A c \in Calls : Justified(c)]_vars
  BY <1>1
<1>3. Init => HolderActive
  BY DEF Init, HolderActive
<1>4. IInv /\ HolderActive /\ [Next]_vars => HolderActive'
  BY HolderActiveStep
<1> QED BY <1>2, <1>3, <1>4, Invariance, PTL DEF Spec, RefusedOnlyWhileActive
=============================================================================
