-------------------------- MODULE RunProductsProofs --------------------------
(***************************************************************************)
(* What ExperimentRun promises of commands and products while nothing cuts *)
(* a run off from its command: no command outlives the wait of its call,   *)
(* and, while packaging requests do not run commands without the lock,     *)
(* only one call's commands are at work and a package is made of nothing   *)
(* but what the commands of its run have produced.  Any number of runs and *)
(* processes; commands and files may fail.                                 *)
(***************************************************************************)
EXTENDS ExperimentRunProofs

\* Every call gets to the end of its wait: its process lives, its cancel check and its log
\* answer, and the processes of a command die with it.
Graceful == ~Crashes /\ ~StoreMayFail /\ ~Stubborn

\* Commands run under the lock only: there are no packaging requests.
LockedOnly == Packagers = {}

Waiting == {"poll", "term"}

\* A call that waits is told when its command is gone.
ExitsHeard == \A c \in Calls : pc[c] = "poll" /\ exited[c] # "no" => <<c, cmd[c]>> \notin alive

\* The stage a call is in, and what its command makes of the products of its own run.
StageOf(c) == IF cmd[c] = "preflight" THEN "training" ELSE cmd[c]
Made(c, s) == [by |-> c, from |-> IF s = "training" THEN None ELSE c]

\* The stages a run has behind it have left its own products, and the report of its training
\* is about its own checkpoint.
BehindIt(c) ==
    /\ cmd[c] \in {"export", "evaluation"} =>
           /\ file["training"] = Made(c, "training")
           /\ evidence[c]["training"].item = Made(c, "training")
    /\ cmd[c] = "evaluation" => target = Made(c, "export")

\* From the fingerprint on, the file of its stage is the old one or its own; the stage is
\* judged after the command.
InStage(c) ==
    /\ pc[c] \in {"spawn", "poll", "term", "settle"} =>
           file[StageOf(c)] \in {before[c], Made(c, StageOf(c))}
    /\ pc[c] \in {"term", "settle"} => result[c] # "completed"

\* Once _artifact_is_fresh has accepted it, it is its own, and so is the copy of it.
Accepted(c) ==
    /\ pc[c] \in {"copy", "report"} /\ result[c] = "completed" =>
           file[cmd[c]] = Made(c, cmd[c])
    /\ pc[c] \in {"copy", "report"} => cmd[c] # "preflight"
    /\ pc[c] = "copy" => cmd[c] = "export" /\ result[c] = "completed"
    /\ pc[c] = "report" =>
           /\ cmd[c] = "training" /\ result[c] = "completed" =>
                  evidence[c]["training"].item = file["training"]
           /\ cmd[c] = "export" => target = Made(c, "export")
           /\ cmd[c] \in {"export", "evaluation"} => result[c] = "completed"

\* A run that packages has the report of its own evaluation.
ReadyToPackage(c) ==
    pc[c] \in {"gate", "package"} =>
        /\ cmd[c] = "evaluation"
        /\ evidence[c]["evaluation"].item = Made(c, "evaluation")

OwnProducts(c) ==
    pc[c] \in Inside => BehindIt(c) /\ InStage(c) /\ Accepted(c) /\ ReadyToPackage(c)

\* Every package is made of the products of one run.
WholePackage ==
    package.by # None =>
        /\ package.by \in Runs
        /\ package.model = Made(package.by, "export")
        /\ package.checkpoint = Made(package.by, "training")
        /\ package.metrics = Made(package.by, "evaluation")

\* A run that has yet to take the lock file starts with the training.
StartsAnew == \A c \in Runs : pc[c] \in {"idle", "dir", "open"} => cmd[c] = "training"

\* The inductive invariants, on top of IInv.
TreesInv == TreesTerminated /\ ExitsHeard
ProductsInv == WholePackage /\ StartsAnew /\ \A c \in Runs : OwnProducts(c)

-----------------------------------------------------------------------------
(* Footprints.                                                             *)

\* The step changes the command of no other call.
Turns(c) == UNCHANGED cmd \/ \E k : cmd' = [cmd EXCEPT ![c] = k]

\* Nor does the end of a stage.
LEMMA EndingTurns ==
  ASSUME NEW c \in Calls, NEW status, NEW item, NEW toFile, StageEnds(c, status, item, toFile)
  PROVE  Turns(c)
  BY DEF StageEnds, Advance, Stop, SinkRaises, Turns

\* A step in a stage moves its own call to another command only.
LEMMA StepTurns ==
  ASSUME NEW c \in Calls, StageStep(c) \/ PackageStep(c)
  PROVE  Turns(c)
<1>1. CASE CheckBetweenStages(c)
  BY <1>1 DEF CheckBetweenStages, SinkRaises, Turns
<1>2. CASE EnterStage(c) \/ StageRaises(c) \/ FinishStage(c)
  BY <1>2, EndingTurns DEF EnterStage, StageRaises, FinishStage, Turns
<1>3. CASE Spawn(c) \/ CommandEnded(c) \/ CancelCommand(c) \/ Deadline(c) \/ Terminate(c)
           \/ SettleTraining(c) \/ CopyProduct(c) \/ Gate(c)
  BY <1>3 DEF Spawn, CommandEnded, CancelCommand, Deadline, Terminate, SettleTraining,
              CopyProduct, Gate, Turns
<1>4. CASE SettlePreflight(c) \/ SettleProduct(c)
  BY <1>4, EndingTurns DEF SettlePreflight, SettleProduct, Turns
<1>5. CASE ReadReport(c) \/ BuildPackage(c) \/ PackageFails(c)
  BY <1>5 DEF ReadReport, BuildPackage, PackageFails, Stop, SinkRaises, Turns
<1> QED BY <1>1, <1>2, <1>3, <1>4, <1>5 DEF StageStep, PackageStep

\* Of these steps only Spawn, and the end of the wait, are about commands that run.
LEMMA OthersLeaveCommands ==
  ASSUME Graceful, NEW c \in Calls, StageStep(c) \/ PackageStep(c),
         ~Spawn(c), ~CommandEnded(c), ~CancelCommand(c), ~Deadline(c), ~Terminate(c)
  PROVE  UNCHANGED <<alive, exited>> /\ pc[c] \notin Waiting
<1>1. CASE CheckBetweenStages(c) \/ EnterStage(c) \/ SettlePreflight(c) \/ SettleTraining(c)
           \/ SettleProduct(c) \/ CopyProduct(c) \/ FinishStage(c)
  BY <1>1 DEF CheckBetweenStages, EnterStage, SettlePreflight, SettleTraining, SettleProduct,
              CopyProduct, FinishStage, commandVars, At, Waiting
<1>2. CASE StageRaises(c)
  BY <1>2 DEF StageRaises, Throws, Graceful, commandVars, At, Waiting
<1>3. CASE PackageStep(c)
  BY <1>3 DEF PackageStep, Gate, ReadReport, BuildPackage, PackageFails, commandVars, At, Waiting
<1> QED BY <1>1, <1>2, <1>3 DEF StageStep

-----------------------------------------------------------------------------
(* Commands.                                                               *)

Places ==
    /\ pc \in [Calls -> Labels]
    /\ cmd \in [Calls -> Commands]
    /\ exited \in [Calls -> {"no", "ok", "failed"}]
    /\ alive \subseteq Calls \X Commands

\* What the invariant of commands is about has its type.
LEMMA PlacesTyped == TypeOK => Places
  BY DEF TypeOK, Places, Labels, Pair

\* A call of which no command is left can go anywhere.
LEMMA NothingLeft ==
  ASSUME Places, TreesInv, NEW c \in Calls,
         \A k : <<c, k>> \notin alive,
         UNCHANGED <<alive, exited>>,
         UNCHANGED pc \/ \E l : pc' = [pc EXCEPT ![c] = l],
         Turns(c)
  PROVE  TreesInv'
<1>1. \A d \in Calls \ {c} : pc'[d] = pc[d] /\ cmd'[d] = cmd[d]
  BY DEF Places, Turns
<1>2. TreesTerminated'
  <2> SUFFICES ASSUME NEW k \in alive PROVE pc'[k[1]] \in {"poll", "term"} /\ cmd'[k[1]] = k[2]
    BY DEF TreesTerminated
  <2>1. k[1] \in Calls /\ k = <<k[1], k[2]>>
    BY DEF Places
  <2>2. k[1] # c
    BY <2>1
  <2> QED BY <1>1, <2>1, <2>2 DEF TreesInv, TreesTerminated
<1>3. ExitsHeard'
  BY <1>1 DEF TreesInv, ExitsHeard
<1> QED BY <1>2, <1>3 DEF TreesInv

\* A command belongs to a call that waits for it.
LEMMA NotWaiting ==
  ASSUME TreesInv, NEW c \in Calls, pc[c] \notin Waiting
  PROVE  \A k : <<c, k>> \notin alive
  BY DEF TreesInv, TreesTerminated, Waiting

\* Commands are started where the wait begins, and the wait ends when they are gone.
LEMMA TreesStep ==
  ASSUME Graceful
  PROVE  IInv /\ TreesInv /\ [Next]_vars => TreesInv'
<1> SUFFICES ASSUME IInv, TreesInv, [Next]_vars PROVE TreesInv'
  OBVIOUS
<1>0. LockHeld /\ Told /\ Places
  BY PlacesTyped DEF IInv
<1>1. ASSUME NEW c \in Calls, Spawn(c) PROVE TreesInv'
  <2>1. /\ \A k : <<c, k>> \notin alive
        /\ UNCHANGED cmd
        /\ pc[c] = "spawn"
    BY <1>1, NotWaiting DEF Spawn, At, Waiting
  <2>2. CASE UNCHANGED <<alive, exited>> /\ Go(c, "settle")
    BY <1>0, <2>1, <2>2, NothingLeft DEF Go, Turns
  <2>3. CASE /\ alive' = alive \cup {<<c, cmd[c]>>} /\ exited' = [exited EXCEPT ![c] = "no"]
             /\ Go(c, "poll")
    <3>1. pc' = [pc EXCEPT ![c] = "poll"]
      BY <2>3 DEF Go
    <3>2. TreesTerminated'
      BY <1>0, <2>1, <2>3, <3>1 DEF Places, TreesInv, TreesTerminated
    <3>3. ExitsHeard'
      <4> SUFFICES ASSUME NEW d \in Calls, pc'[d] = "poll", exited'[d] # "no"
                   PROVE  <<d, cmd'[d]>> \notin alive'
        BY DEF ExitsHeard
      <4>1. d # c
        BY <1>0, <2>3 DEF Places
      <4> QED BY <1>0, <2>1, <2>3, <3>1, <4>1 DEF Places, TreesInv, ExitsHeard
    <3> QED BY <3>2, <3>3 DEF TreesInv
  <2> QED BY <1>1, <2>2, <2>3 DEF Spawn
<1>2. ASSUME NEW c \in Calls, CommandEnded(c) PROVE TreesInv'
  <2>1. \A k : <<c, k>> \notin alive
    BY <1>2 DEF CommandEnded, At, TreesInv, TreesTerminated, ExitsHeard
  <2> QED BY <1>0, <1>2, <2>1, NothingLeft DEF CommandEnded, Go, Turns, commandVars
<1>3. ASSUME NEW c \in Calls, CancelCommand(c) \/ Deadline(c) PROVE TreesInv'
  <2>1. pc' = [pc EXCEPT ![c] = "term"] /\ UNCHANGED <<cmd, alive, exited>>
    BY <1>3 DEF CancelCommand, Deadline, Go, commandVars
  <2>2. pc[c] = "poll"
    BY <1>3 DEF CancelCommand, Deadline, At
  <2> QED BY <1>0, <2>1, <2>2 DEF Places, TreesInv, TreesTerminated, ExitsHeard
<1>4. ASSUME NEW c \in Calls, Terminate(c) PROVE TreesInv'
  <2>1. /\ alive' = alive \ {<<c, cmd[c]>>}
        /\ pc' = [pc EXCEPT ![c] = "settle"]
        /\ UNCHANGED <<cmd, exited>>
    BY <1>4 DEF Terminate, Graceful, Go
  <2>2. pc[c] = "term"
    BY <1>4 DEF Terminate, At
  <2>3. TreesTerminated'
    <3> SUFFICES ASSUME NEW k \in alive, k # <<c, cmd[c]>>
                 PROVE  pc'[k[1]] \in {"poll", "term"} /\ cmd[k[1]] = k[2]
      BY <2>1 DEF TreesTerminated
    <3>1. k[1] \in Calls /\ k = <<k[1], k[2]>>
      BY <1>0 DEF Places
    <3>2. pc[k[1]] \in {"poll", "term"} /\ cmd[k[1]] = k[2]
      BY DEF TreesInv, TreesTerminated
    <3> QED BY <1>0, <2>1, <3>1, <3>2 DEF Places
  <2>4. ExitsHeard'
    BY <1>0, <2>1 DEF Places, TreesInv, ExitsHeard
  <2> QED BY <2>3, <2>4 DEF TreesInv
<1>5. ASSUME NEW c \in Calls, StageStep(c) \/ PackageStep(c) PROVE TreesInv'
  <2>1. CASE Spawn(c) \/ CommandEnded(c) \/ CancelCommand(c) \/ Deadline(c) \/ Terminate(c)
    BY <1>1, <1>2, <1>3, <1>4, <2>1
  <2>2. CASE ~Spawn(c) /\ ~CommandEnded(c) /\ ~CancelCommand(c) /\ ~Deadline(c)
             /\ ~Terminate(c)
    <3>1. UNCHANGED <<alive, exited>> /\ pc[c] \notin Waiting
      BY <1>5, <2>2, OthersLeaveCommands
    <3>2. Turns(c) /\ Moves(c)
      BY <1>0, <1>5, StepTurns, Footprint
    <3> QED BY <1>0, <3>1, <3>2, NotWaiting, NothingLeft DEF Moves
  <2> QED BY <2>1, <2>2
<1>6. ASSUME NEW c \in Calls, StartRun(c) \/ LockStep(c) PROVE TreesInv'
  <2>1. /\ pc[c] \notin Waiting
        /\ UNCHANGED <<cmd, alive, exited>>
        /\ \E l : pc' = [pc EXCEPT ![c] = l]
    BY <1>6 DEF StartRun, LockStep, TakeThreadLock, RefusedByThread, MakeLockDir, TakeFileLock,
                RefusedByFile, ReleaseFileLock, ReleaseThreadLock, At, Go, Waiting, commandVars
  <2> QED BY <1>0, <2>1, NotWaiting, NothingLeft DEF Turns
<1>7. ASSUME NEW c \in Packagers, RequestPackage(c) PROVE TreesInv'
  <2>1. /\ pc[c] \notin Waiting
        /\ UNCHANGED <<alive, exited>>
        /\ \E l : pc' = [pc EXCEPT ![c] = l]
        /\ Turns(c)
    BY <1>7 DEF RequestPackage, At, Go, Waiting, commandVars, Turns
  <2>2. c \in Calls
    BY RunAssumption DEF RunAssumption
  <2> QED BY <1>0, <2>1, <2>2, NotWaiting, NothingLeft
<1>8. CASE UNCHANGED <<pc, cmd, alive, exited>>
  BY <1>8 DEF TreesInv, TreesTerminated, ExitsHeard
<1>9. ASSUME NEW c \in Calls, RequestCancel(c) PROVE TreesInv'
  BY <1>8, <1>9 DEF RequestCancel, commandVars
<1>10. ASSUME NEW c \in Calls, NEW k \in Commands, CommandWrites(c, k) PROVE TreesInv'
  BY <1>8, <1>10 DEF CommandWrites
<1>11. ASSUME NEW c \in Calls, NEW k \in Commands, CommandExits(c, k) PROVE TreesInv'
  <2>1. /\ alive' = alive \ {<<c, k>>} /\ UNCHANGED <<pc, cmd>>
        /\ exited' = exited \/ \E e \in {"ok", "failed"} : exited' = [exited EXCEPT ![c] = e]
        /\ <<c, k>> \in alive
    BY <1>11 DEF CommandExits
  <2>2. cmd[c] = k
    BY <2>1 DEF TreesInv, TreesTerminated
  <2>3. TreesTerminated'
    BY <2>1 DEF TreesInv, TreesTerminated
  <2>4. ExitsHeard'
    BY <1>0, <2>1, <2>2 DEF Places, TreesInv, ExitsHeard
  <2> QED BY <2>3, <2>4 DEF TreesInv
<1>12. ASSUME NEW p \in Processes, Crash(p) PROVE TreesInv'
  BY <1>12 DEF Crash, Graceful
<1>13. CASE UNCHANGED vars
  BY <1>8, <1>13 DEF vars, commandVars
<1> QED
  BY <1>5, <1>6, <1>7, <1>9, <1>10, <1>11, <1>12, <1>13 DEF Next

\* So the invariant of commands holds for good.
LEMMA TreesInvariance == ASSUME Graceful PROVE Spec => []TreesInv
<1>1. Init => TreesInv
  BY DEF Init, TreesInv, TreesTerminated, ExitsHeard
<1>2. IInv /\ TreesInv /\ [Next]_vars => TreesInv'
  BY TreesStep
<1> QED BY <1>1, <1>2, Invariance, PTL DEF Spec

\* _terminate_process_tree and the poll loop: with calls that get to the end of their wait,
\* what is left of a command is a command its call is still busy with.
THEOREM TreesAreTerminated == ASSUME Graceful PROVE Spec => []TreesTerminated
<1>1. TreesInv => TreesTerminated
  BY DEF TreesInv
<1>2. Spec => []TreesInv
  BY TreesInvariance
<1> QED BY <1>1, <1>2, PTL

\* The run lock and the wait together: the commands at work belong to one call.
THEOREM OneAtWork == ASSUME Graceful, LockedOnly PROVE Spec => []OneWriter
<1>1. IInv /\ TreesInv => OneWriter
  <2> SUFFICES ASSUME IInv, TreesInv, NEW k \in alive, NEW l \in alive PROVE k[1] = l[1]
    BY DEF OneWriter
  <2>1. k[1] \in Runs /\ l[1] \in Runs
    BY PlacesTyped DEF IInv, Places, LockedOnly, Runs
  <2>2. pc[k[1]] \in Inside /\ pc[l[1]] \in Inside
    BY DEF TreesInv, TreesTerminated, Inside
  <2> QED BY <2>1, <2>2 DEF IInv, LockHeld
<1>2. Spec => []TreesInv
  BY TreesInvariance
<1> QED BY <1>1, <1>2, Invariance, PTL

-----------------------------------------------------------------------------
(* Products.                                                               *)

Shelves ==
    /\ pc \in [Calls -> Labels]
    /\ cmd \in [Calls -> Commands]
    /\ result \in [Calls -> Verdicts \cup {"none", "ok"}]
    /\ before \in [Calls -> Content]
    /\ file \in [Stages -> Content]
    /\ evidence \in [Calls -> [Stages -> Entry]]

\* What the invariant of products is about has its type.
LEMMA ShelvesTyped == TypeOK => Shelves
  BY DEF TypeOK, Shelves, Labels

\* While a run is inside, the products are its own business.
LEMMA OthersOutside ==
  ASSUME LockedOnly, IInv, NEW c \in Calls, pc[c] \in Inside,
         UNCHANGED pc \/ \E l : pc' = [pc EXCEPT ![c] = l],
         OwnProducts(c)'
  PROVE  \A d \in Runs : OwnProducts(d)'
<1> SUFFICES ASSUME NEW d \in Runs, d # c PROVE OwnProducts(d)'
  OBVIOUS
<1>1. pc[d] \notin Inside
  BY DEF IInv, LockHeld, LockedOnly, Runs
<1>2. pc'[d] = pc[d]
  BY ShelvesTyped DEF IInv, Shelves, Runs
<1> QED BY <1>1, <1>2 DEF OwnProducts

\* The end of a stage: a completed one leaves what the next one builds on, any other ends
\* the run.
LEMMA EndingKeeps ==
  ASSUME LockedOnly, Shelves, NEW c \in Calls, OwnProducts(c), pc[c] \in Inside,
         NEW status, NEW item, NEW toFile,
         StageEnds(c, status, item, toFile),
         UNCHANGED <<result, before, file, target>>,
         status = "completed" =>
             /\ cmd[c] # "preflight"
             /\ file[cmd[c]] = Made(c, cmd[c])
             /\ cmd[c] \in {"training", "evaluation"} => item = Made(c, cmd[c])
             /\ cmd[c] = "export" => target = Made(c, "export")
  PROVE  OwnProducts(c)'
<1>0. BehindIt(c)
  BY DEF OwnProducts
<1>1. cmd[c] \in {"export", "evaluation"} =>
          evidence'[c]["training"] = evidence[c]["training"]
  BY DEF StageEnds, Record, Shelves, Stages
<1>2. ASSUME UNCHANGED cmd, pc' = [pc EXCEPT ![c] = "release"] PROVE OwnProducts(c)'
  <2>1. pc'[c] = "release"
    BY <1>2 DEF Shelves
  <2>2. BehindIt(c)'
    BY <1>0, <1>1, <1>2 DEF BehindIt, Made
  <2> QED BY <2>1, <2>2 DEF OwnProducts, InStage, Accepted, ReadyToPackage
<1>3. CASE (status # "completed" /\ Stop(c, status)) \/ SinkRaises(c)
  BY <1>2, <1>3 DEF Stop, SinkRaises, Return, Go, LockedOnly
<1>4. CASE status = "completed" /\ Advance(c)
  <2>1. /\ cmd[c] \in Stages
        /\ file[cmd[c]] = Made(c, cmd[c])
        /\ evidence'[c][cmd[c]].item = item
    BY <1>4 DEF StageEnds, Record, Shelves, Stages, Commands
  <2>2. CASE /\ cmd[c] # "evaluation"
             /\ pc' = [pc EXCEPT ![c] = "check"]
             /\ cmd' = [cmd EXCEPT ![c] = IF @ = "training" THEN "export" ELSE "evaluation"]
    <3>1. pc'[c] = "check"
      BY <2>2 DEF Shelves
    <3>2. BehindIt(c)'
      <4>1. CASE cmd[c] = "training"
        BY <1>4, <2>1, <2>2, <4>1 DEF Shelves, BehindIt, Made
      <4>2. CASE cmd[c] = "export"
        BY <1>0, <1>1, <1>4, <2>1, <2>2, <4>2 DEF Shelves, BehindIt, Made
      <4> QED BY <2>1, <2>2, <4>1, <4>2 DEF Stages
    <3> QED BY <3>1, <3>2 DEF OwnProducts, InStage, Accepted, ReadyToPackage
  <2>3. CASE cmd[c] = "evaluation" /\ UNCHANGED cmd /\ pc' = [pc EXCEPT ![c] = "gate"]
    <3>1. pc'[c] = "gate"
      BY <2>3 DEF Shelves
    <3>2. BehindIt(c)'
      BY <1>0, <1>1, <2>3 DEF BehindIt, Made
    <3>3. ReadyToPackage(c)'
      BY <1>4, <2>1, <2>3 DEF ReadyToPackage, Made
    <3> QED BY <3>1, <3>2, <3>3 DEF OwnProducts, InStage, Accepted
  <2> QED BY <1>2, <1>4, <2>2, <2>3 DEF Advance, Return, Go, LockedOnly
<1> QED BY <1>3, <1>4 DEF StageEnds

\* A run whose step leaves its stage and its products as they are, at a place where nothing
\* more is asked of them.
LEMMA PassingKeeps ==
  ASSUME Shelves, NEW c \in Calls, OwnProducts(c), pc[c] \in Inside,
         NEW l \in {"check", "enter", "release", "unlock"}, pc' = [pc EXCEPT ![c] = l],
         UNCHANGED <<file, target, evidence>>,
         \/ UNCHANGED cmd
         \/ cmd[c] = "training" /\ cmd' = [cmd EXCEPT ![c] = "preflight"]
  PROVE  OwnProducts(c)'
<1>1. pc'[c] = l
  BY DEF Shelves
<1>2. BehindIt(c)'
  BY DEF OwnProducts, BehindIt, Made, Shelves
<1> QED BY <1>1, <1>2 DEF OwnProducts, InStage, Accepted, ReadyToPackage

\* Waiting for the command changes no product.
LEMMA WaitingKeeps ==
  ASSUME Shelves, NEW c \in Calls, OwnProducts(c), pc[c] \in {"spawn", "poll", "term"},
         NEW l \in {"poll", "term", "settle"}, pc' = [pc EXCEPT ![c] = l],
         UNCHANGED <<cmd, file, target, evidence, before>>,
         l = "poll" \/ result'[c] # "completed"
  PROVE  OwnProducts(c)'
<1>1. pc'[c] = l
  BY DEF Shelves
<1>2. BehindIt(c) /\ InStage(c)
  BY DEF OwnProducts, Inside
<1>3. BehindIt(c)' /\ InStage(c)'
  BY <1>1, <1>2 DEF BehindIt, InStage, StageOf, Made
<1> QED BY <1>1, <1>3 DEF OwnProducts, Accepted, ReadyToPackage

\* Every step of a run in a stage keeps what is known of its products.
LEMMA StageKeeps ==
  ASSUME LockedOnly, TypeOK, NEW c \in Calls, OwnProducts(c), pc[c] \in Inside, StageStep(c)
  PROVE  OwnProducts(c)'
<1>0. Shelves
  BY ShelvesTyped
<1>1. CASE CheckBetweenStages(c)
  <2>1. UNCHANGED <<file, target, evidence>>
    BY <1>1 DEF CheckBetweenStages, fileVars, stageFiles
  <2>2. \E l \in {"enter", "release"} : pc' = [pc EXCEPT ![c] = l]
    BY <1>1 DEF CheckBetweenStages, SinkRaises, Return, Go, LockedOnly
  <2>3. UNCHANGED cmd \/ (cmd[c] = "training" /\ cmd' = [cmd EXCEPT ![c] = "preflight"])
    BY <1>0, <1>1 DEF CheckBetweenStages, SinkRaises, Shelves
  <2> QED BY <1>0, <2>1, <2>2, <2>3, PassingKeeps
<1>2. CASE EnterStage(c)
  <2>1. UNCHANGED <<result, file, target>>
    BY <1>2 DEF EnterStage, fileVars
  <2>2. CASE /\ Go(c, "spawn") /\ before' = [before EXCEPT ![c] = file[StageOf(c)]]
             /\ UNCHANGED <<cmd, stageFiles>>
    <3>1. pc'[c] = "spawn" /\ before'[c] = file[StageOf(c)] /\ UNCHANGED evidence
      BY <1>0, <2>2 DEF Go, Shelves, stageFiles
    <3>2. BehindIt(c)'
      BY <2>1, <2>2, <3>1 DEF OwnProducts, BehindIt, Made
    <3>3. InStage(c)'
      BY <2>1, <2>2, <3>1 DEF InStage, StageOf
    <3> QED BY <3>1, <3>2, <3>3 DEF OwnProducts, Accepted, ReadyToPackage
  <2>3. CASE \/ StageEnds(c, "cancelled", Blank, TRUE) /\ UNCHANGED before
             \/ StageEnds(c, "failed", Blank, TRUE) /\ UNCHANGED before
    BY <1>0, <2>1, <2>3, EndingKeeps
  <2> QED BY <1>2, <2>2, <2>3 DEF EnterStage, StageOf
<1>3. CASE Spawn(c)
  BY <1>0, <1>3, WaitingKeeps DEF Spawn, At, Go, fileVars, stageFiles, Shelves
<1>4. CASE CommandEnded(c)
  <2>1. exited[c] # "completed"
    BY DEF TypeOK
  <2> QED
    BY <1>0, <1>4, <2>1, WaitingKeeps DEF CommandEnded, At, Go, fileVars, stageFiles, Shelves
<1>5. CASE CancelCommand(c) \/ Deadline(c)
  BY <1>0, <1>5, WaitingKeeps
  DEF CancelCommand, Deadline, At, Go, fileVars, stageFiles, Shelves
<1>6. CASE Terminate(c)
  <2>1. result[c] # "completed"
    BY <1>6 DEF Terminate, At, OwnProducts, InStage
  <2> QED
    BY <1>0, <1>6, <2>1, WaitingKeeps DEF Terminate, At, Go, fileVars, stageFiles, stageVars
<1>7. CASE StageRaises(c)
  <2>1. StageEnds(c, "failed", Blank, FALSE) /\ UNCHANGED <<result, before, file, target>>
    BY <1>7 DEF StageRaises, stageVars, fileVars
  <2> QED BY <1>0, <2>1, EndingKeeps
<1>8. CASE SettlePreflight(c)
  <2>1. /\ UNCHANGED <<result, before, file, target>>
        /\ pc[c] = "settle" /\ cmd[c] = "preflight"
    BY <1>8 DEF SettlePreflight, stageVars, fileVars, At
  <2>2. CASE /\ cmd' = [cmd EXCEPT ![c] = "training"] /\ Go(c, "spawn")
             /\ UNCHANGED stageFiles
    <3>1. pc'[c] = "spawn" /\ cmd'[c] = "training"
      BY <1>0, <2>2 DEF Go, Shelves
    <3>2. InStage(c)
      BY DEF OwnProducts
    <3>3. InStage(c)'
      BY <2>1, <3>1, <3>2 DEF InStage, StageOf, Made
    <3> QED BY <3>1, <3>3 DEF OwnProducts, BehindIt, Accepted, ReadyToPackage
  <2>3. CASE StageEnds(c, "failed", Blank, TRUE)
    BY <1>0, <2>1, <2>3, EndingKeeps
  <2> QED BY <1>8, <2>2, <2>3 DEF SettlePreflight
<1>9. CASE SettleTraining(c)
  <2> DEFINE completed == result[c] = "ok" /\ Fresh(c)
  <2>1. /\ pc[c] = "settle" /\ cmd[c] = "training" /\ UNCHANGED <<cmd, file, target, before>>
        /\ pc' = [pc EXCEPT ![c] = "report"]
    BY <1>9 DEF SettleTraining, At, Go, fileVars
  <2>2. /\ pc'[c] = "report" /\ cmd'[c] = "training"
        /\ result'[c] = "completed" => completed \/ result[c] = "completed"
        /\ completed => evidence'[c]["training"].item = file["training"]
    BY <1>0, <1>9, <2>1 DEF SettleTraining, Shelves, Stages
  <2>3. completed => file["training"] = Made(c, "training")
    BY <2>1 DEF OwnProducts, InStage, StageOf, Fresh
  <2>4. result[c] # "completed"
    BY <2>1 DEF OwnProducts, InStage
  <2>5. Accepted(c)'
    BY <2>1, <2>2, <2>3, <2>4 DEF Accepted, Made
  <2> QED BY <2>2, <2>5 DEF OwnProducts, BehindIt, InStage, ReadyToPackage
<1>10. CASE SettleProduct(c)
  <2>1. /\ UNCHANGED <<before, file, target>>
        /\ pc[c] = "settle" /\ cmd[c] \in {"export", "evaluation"}
    BY <1>10 DEF SettleProduct, fileVars, At
  <2>2. CASE /\ result[c] = "ok" /\ Fresh(c)
             /\ result' = [result EXCEPT ![c] = "completed"]
             /\ Go(c, IF cmd[c] = "export" THEN "copy" ELSE "report")
             /\ UNCHANGED <<cmd, stageFiles>>
    <3>1. /\ pc'[c] = IF cmd[c] = "export" THEN "copy" ELSE "report"
          /\ result'[c] = "completed"
          /\ UNCHANGED evidence
      BY <1>0, <2>2 DEF Go, Shelves, stageFiles
    <3>2. file[cmd[c]] = Made(c, cmd[c])
      BY <2>1, <2>2 DEF OwnProducts, InStage, StageOf, Fresh
    <3>3. BehindIt(c)'
      BY <2>1, <2>2, <3>1 DEF OwnProducts, BehindIt, Made
    <3>4. Accepted(c)'
      BY <2>1, <2>2, <3>1, <3>2 DEF Accepted, Made
    <3> QED BY <3>1, <3>3, <3>4 DEF OwnProducts, InStage, ReadyToPackage
  <2>3. CASE \/ StageEnds(c, "cancelled", Blank, TRUE) /\ UNCHANGED result
             \/ StageEnds(c, "failed", Blank, TRUE) /\ UNCHANGED result
    BY <1>0, <2>1, <2>3, EndingKeeps
  <2> QED BY <1>10, <2>2, <2>3 DEF SettleProduct
<1>11. CASE CopyProduct(c)
  <2>1. /\ pc[c] = "copy" /\ pc' = [pc EXCEPT ![c] = "report"]
        /\ target' = file["export"]
        /\ UNCHANGED <<cmd, file, evidence, result>>
    BY <1>11 DEF CopyProduct, At, Go, stageFiles, stageVars
  <2>2. /\ cmd[c] = "export" /\ result[c] = "completed"
        /\ file["export"] = Made(c, "export")
    BY <2>1 DEF OwnProducts, Accepted
  <2>3. pc'[c] = "report"
    BY <1>0, <2>1 DEF Shelves
  <2>4. BehindIt(c)' /\ Accepted(c)'
    BY <2>1, <2>2, <2>3 DEF OwnProducts, BehindIt, Accepted, Made
  <2> QED BY <2>3, <2>4 DEF OwnProducts, InStage, ReadyToPackage
<1>12. CASE FinishStage(c)
  <2>1. UNCHANGED <<result, before, file, target>> /\ pc[c] = "report"
    BY <1>12 DEF FinishStage, stageVars, fileVars, At
  <2>2. CASE \/ StageEnds(c, "cancelled", Blank, TRUE) \/ StageEnds(c, "failed", Blank, TRUE)
    BY <1>0, <2>1, <2>2, EndingKeeps
  <2>3. CASE StageEnds(c, result[c], Item(c), TRUE)
    <3>1. result[c] = "completed" =>
              /\ cmd[c] # "preflight"
              /\ file[cmd[c]] = Made(c, cmd[c])
              /\ cmd[c] \in {"training", "evaluation"} => Item(c) = Made(c, cmd[c])
              /\ cmd[c] = "export" => target = Made(c, "export")
      BY <2>1 DEF OwnProducts, Accepted, Item
    <3> QED BY <1>0, <2>1, <2>3, <3>1, EndingKeeps
  <2> QED BY <1>12, <2>2, <2>3 DEF FinishStage
<1> QED
  BY <1>1, <1>2, <1>3, <1>4, <1>5, <1>6, <1>7, <1>8, <1>9, <1>10, <1>11, <1>12
  DEF StageStep

\* The last check, and the package, which ends the run.
LEMMA PackagingKeeps ==
  ASSUME LockedOnly, TypeOK, NEW c \in Calls, OwnProducts(c), pc[c] \in Inside, PackageStep(c)
  PROVE  OwnProducts(c)'
<1>0. Shelves
  BY ShelvesTyped
<1>1. CASE Gate(c)
  <2>1. UNCHANGED <<cmd, file, target, evidence>> /\ pc[c] = "gate"
    BY <1>1 DEF Gate, fileVars, stageFiles, At
  <2>2. CASE Go(c, "package")
    <3>1. pc'[c] = "package"
      BY <1>0, <2>2 DEF Go, Shelves
    <3>2. BehindIt(c)' /\ ReadyToPackage(c)'
      BY <2>1, <3>1 DEF OwnProducts, BehindIt, ReadyToPackage, Made
    <3> QED BY <3>1, <3>2 DEF OwnProducts, InStage, Accepted
  <2>3. CASE pc' = [pc EXCEPT ![c] = "release"]
    BY <1>0, <2>1, <2>3, PassingKeeps
  <2> QED BY <1>1, <2>2, <2>3 DEF Gate, Return, Go, LockedOnly
<1>2. CASE BuildPackage(c) \/ PackageFails(c)
  <2>1. UNCHANGED <<cmd, file, target, evidence>>
    BY <1>2 DEF BuildPackage, PackageFails, Stop, SinkRaises, fileVars, stageFiles
  <2>2. pc' = [pc EXCEPT ![c] = "release"]
    BY <1>2 DEF BuildPackage, PackageFails, Stop, SinkRaises, Return, Go, LockedOnly
  <2> QED BY <1>0, <2>1, <2>2, PassingKeeps
<1>3. CASE ReadReport(c)
  BY <1>3 DEF ReadReport, At, Inside
<1> QED BY <1>1, <1>2, <1>3 DEF PackageStep

\* Only a package that is built anew is another package.
LEMMA PackageStays ==
  ASSUME NEW c \in Calls, StageStep(c) \/ PackageStep(c), ~BuildPackage(c)
  PROVE  UNCHANGED package
<1>1. CASE CheckBetweenStages(c) \/ EnterStage(c) \/ Spawn(c) \/ CommandEnded(c)
           \/ CancelCommand(c) \/ Deadline(c) \/ Terminate(c) \/ StageRaises(c)
  BY <1>1 DEF CheckBetweenStages, EnterStage, Spawn, CommandEnded, CancelCommand, Deadline,
              Terminate, StageRaises, fileVars
<1>2. CASE SettlePreflight(c) \/ SettleTraining(c) \/ SettleProduct(c) \/ CopyProduct(c)
           \/ FinishStage(c)
  BY <1>2 DEF SettlePreflight, SettleTraining, SettleProduct, CopyProduct, FinishStage, fileVars
<1>3. CASE Gate(c) \/ ReadReport(c) \/ PackageFails(c)
  BY <1>3 DEF Gate, ReadReport, PackageFails, fileVars
<1> QED BY <1>1, <1>2, <1>3 DEF StageStep, PackageStep

\* What a command writes is made of the products of its own run: no other run is inside.
LEMMA WritingKeeps ==
  ASSUME LockedOnly, IInv, TreesInv, NEW c \in Calls, OwnProducts(c),
         NEW k \in Commands, CommandWrites(c, k)
  PROVE  pc[c] \in Inside /\ OwnProducts(c)'
<1>0. Shelves
  BY ShelvesTyped DEF IInv
<1>1. /\ <<c, k>> \in alive /\ k \in Stages
      /\ file' = [file EXCEPT ![k] = [by |-> c, from |-> Source(k)]]
      /\ UNCHANGED <<pc, cmd, before, result, target, evidence>>
  BY DEF CommandWrites, Commands, Stages, stageVars, stageFiles
<1>2. pc[c] \in {"poll", "term"} /\ cmd[c] = k
  BY <1>1 DEF TreesInv, TreesTerminated
<1>3. pc[c] \in Inside /\ BehindIt(c) /\ InStage(c)
  BY <1>2 DEF OwnProducts, Inside
<1>4. [by |-> c, from |-> Source(k)] = Made(c, k)
  BY <1>1, <1>2, <1>3 DEF Source, Made, BehindIt, Stages
<1>5. file'[k] = Made(c, k) /\ \A s \in Stages \ {k} : file'[s] = file[s]
  BY <1>0, <1>1, <1>4 DEF Shelves
<1>6. BehindIt(c)'
  BY <1>1, <1>2, <1>3, <1>5 DEF BehindIt, Made, Stages
<1>7. InStage(c)'
  BY <1>1, <1>2, <1>3, <1>5 DEF InStage, StageOf, Made, Stages
<1> QED BY <1>1, <1>2, <1>3, <1>6, <1>7 DEF OwnProducts, Accepted, ReadyToPackage

\* A step of a run keeps what is known of its own products; nobody else has any at stake.
LEMMA ProductsStep ==
  ASSUME LockedOnly
  PROVE  IInv /\ TreesInv /\ ProductsInv /\ [Next]_vars => ProductsInv'
<1> SUFFICES ASSUME IInv, TreesInv, ProductsInv, [Next]_vars PROVE ProductsInv'
  OBVIOUS
<1>0. /\ TypeOK /\ LockHeld /\ Told /\ Shelves
      /\ Runs = Calls
  BY ShelvesTyped DEF IInv, LockedOnly, Runs
<1>00. \A c \in Calls : OwnProducts(c)
  BY <1>0 DEF ProductsInv
<1>1. ASSUME NEW c \in Calls, StageStep(c) \/ PackageStep(c) PROVE ProductsInv'
  <2>1. pc[c] \in Inside /\ Moves(c)
    BY <1>0, <1>1, Footprint DEF Path, LockedOnly
  <2>2. OwnProducts(c)'
    BY <1>0, <1>00, <1>1, <2>1, StageKeeps, PackagingKeeps
  <2>3. \A d \in Runs : OwnProducts(d)'
    BY <2>1, <2>2, OthersOutside DEF Moves
  <2>4. WholePackage'
    <3>1. CASE BuildPackage(c)
      <4>1. /\ package' = [by |-> c, model |-> target,
                           checkpoint |-> evidence[c]["training"].item,
                           metrics |-> evidence[c]["evaluation"].item]
            /\ pc[c] = "package"
        BY <3>1 DEF BuildPackage, At
      <4>2. BehindIt(c) /\ ReadyToPackage(c)
        BY <1>00, <2>1 DEF OwnProducts
      <4> QED BY <1>0, <4>1, <4>2 DEF BehindIt, ReadyToPackage, WholePackage, Made
    <3>2. CASE ~BuildPackage(c)
      BY <1>1, <3>2, PackageStays DEF ProductsInv, WholePackage, Made
    <3> QED BY <3>1, <3>2
  <2>5. StartsAnew'
    <3>1. pc'[c] \in Inside
      BY <1>0, <2>1 DEF Shelves, Moves, Path, LockedOnly
    <3>2. \A d \in Calls \ {c} : pc'[d] = pc[d] /\ cmd'[d] = cmd[d]
      BY <1>0, <1>1, <2>1, StepTurns DEF Shelves, Moves, Turns
    <3> QED BY <1>0, <3>1, <3>2 DEF ProductsInv, StartsAnew, Inside
  <2> QED BY <2>3, <2>4, <2>5 DEF ProductsInv
<1>2. ASSUME NEW c \in Calls, StartRun(c) \/ LockStep(c) PROVE ProductsInv'
  <2>1. UNCHANGED <<cmd, before, result, file, target, package, evidence>>
    BY <1>2 DEF StartRun, LockStep, TakeThreadLock, RefusedByThread, MakeLockDir, TakeFileLock,
                RefusedByFile, ReleaseFileLock, ReleaseThreadLock, stageVars, fileVars, stageFiles
  <2>2. CASE /\ pc[c] \notin Inside
             /\ \/ /\ pc[c] \in {"idle", "dir"}
                   /\ \E l \in {"dir", "open"} : pc' = [pc EXCEPT ![c] = l]
                \/ \E l \in {"unlock", "done"} : pc' = [pc EXCEPT ![c] = l]
    <3>0. StartsAnew'
      BY <1>0, <2>1, <2>2 DEF Shelves, ProductsInv, StartsAnew
    <3>1. \A d \in Calls : pc'[d] \in Inside => pc'[d] = pc[d]
      BY <1>0, <2>2 DEF Shelves, Inside
    <3> QED
      BY <1>0, <1>00, <2>1, <3>0, <3>1
      DEF ProductsInv, WholePackage, OwnProducts, BehindIt, InStage, Accepted, ReadyToPackage,
          StageOf, Made
  <2>3. CASE TakeFileLock(c)
    <3>1. pc[c] = "open" /\ pc' = [pc EXCEPT ![c] = "check"] /\ fileLock = None
      BY <2>3 DEF TakeFileLock, At, Go
    <3>2. cmd[c] = "training" /\ pc'[c] = "check"
      BY <1>0, <3>1 DEF Shelves, ProductsInv, StartsAnew
    <3>3. OwnProducts(c)'
      BY <2>1, <3>2 DEF OwnProducts, BehindIt, InStage, Accepted, ReadyToPackage
    <3>4. ASSUME NEW d \in Calls, d # c PROVE OwnProducts(d)'
      <4>1. pc[d] \notin Inside
        BY <1>0, <3>1, RunAssumption DEF LockHeld, RunAssumption
      <4>2. pc'[d] = pc[d]
        BY <1>0, <3>1, <3>4 DEF Shelves
      <4> QED BY <4>1, <4>2 DEF OwnProducts
    <3>5. StartsAnew'
      BY <1>0, <2>1, <3>1 DEF Shelves, ProductsInv, StartsAnew
    <3> QED BY <1>0, <2>1, <3>3, <3>4, <3>5 DEF ProductsInv, WholePackage, Made
  <2>4. CASE ReleaseFileLock(c)
    <3>1. pc[c] = "release" /\ pc' = [pc EXCEPT ![c] = "unlock"]
      BY <2>4 DEF ReleaseFileLock, At, Go
    <3>2. \A d \in Calls : pc'[d] \in Inside => pc'[d] = pc[d]
      BY <1>0, <3>1 DEF Shelves, Inside
    <3>3. StartsAnew'
      BY <1>0, <2>1, <3>1 DEF Shelves, ProductsInv, StartsAnew
    <3> QED
      BY <1>0, <1>00, <2>1, <3>2, <3>3
      DEF ProductsInv, WholePackage, OwnProducts, BehindIt, InStage, Accepted, ReadyToPackage,
          StageOf, Made
  <2> QED
    BY <1>2, <2>2, <2>3, <2>4
    DEF StartRun, LockStep, TakeThreadLock, RefusedByThread, MakeLockDir, RefusedByFile,
        ReleaseThreadLock, At, Go, Inside
<1>3. CASE UNCHANGED <<pc, cmd, before, result, file, target, package, evidence>>
  BY <1>3 DEF ProductsInv, WholePackage, StartsAnew, OwnProducts, BehindIt, InStage, Accepted,
              ReadyToPackage, StageOf, Made
<1>4. ASSUME NEW c \in Calls, RequestCancel(c) PROVE ProductsInv'
  BY <1>3, <1>4 DEF RequestCancel, stageVars, fileVars, stageFiles
<1>5. ASSUME NEW c \in Calls, NEW k \in Commands, CommandExits(c, k) PROVE ProductsInv'
  BY <1>3, <1>5 DEF CommandExits, stageVars, fileVars, stageFiles
<1>6. ASSUME NEW c \in Calls, NEW k \in Commands, CommandWrites(c, k) PROVE ProductsInv'
  <2>1. pc[c] \in Inside /\ OwnProducts(c)' /\ UNCHANGED <<pc, cmd, package>>
    BY <1>00, <1>6, WritingKeeps DEF CommandWrites
  <2>2. \A d \in Runs : OwnProducts(d)'
    BY <2>1, OthersOutside
  <2> QED BY <2>1, <2>2 DEF ProductsInv, WholePackage, StartsAnew, Made
<1>7. ASSUME NEW p \in Processes, Crash(p) PROVE ProductsInv'
  <2>1. /\ \A d \in Calls : pc'[d] \in Inside => pc'[d] = pc[d]
        /\ UNCHANGED <<cmd, before, result, file, target, package, evidence>>
    BY <1>7 DEF Crash, stageVars, fileVars, stageFiles, Inside
  <2>2. StartsAnew'
    BY <1>0, <1>7, <2>1 DEF Crash, ProductsInv, StartsAnew
  <2> QED
    BY <1>0, <1>00, <2>1, <2>2
    DEF ProductsInv, WholePackage, OwnProducts, BehindIt, InStage, Accepted, ReadyToPackage,
        StageOf, Made
<1>8. CASE UNCHANGED vars
  BY <1>3, <1>8 DEF vars, stageVars, fileVars, stageFiles
<1> QED
  BY <1>1, <1>2, <1>4, <1>5, <1>6, <1>7, <1>8 DEF Next, LockedOnly

\* So the invariant of products holds for good.
LEMMA ProductsInvariance == ASSUME Graceful, LockedOnly PROVE Spec => []ProductsInv
<1>1. Init => ProductsInv
  BY DEF Init, ProductsInv, WholePackage, NoPackage, StartsAnew, OwnProducts, Inside, Runs
<1>2. IInv /\ TreesInv /\ ProductsInv /\ [Next]_vars => ProductsInv'
  BY ProductsStep
<1>3. Spec => []TreesInv
  BY TreesInvariance
<1> QED BY <1>1, <1>2, <1>3, Invariance, PTL DEF Spec

\* The stages and their reports: the metrics in a package were measured on its model, and
\* its model was exported from the checkpoint its card names.
THEOREM PackagesAreOnePiece == ASSUME Graceful, LockedOnly PROVE Spec => []OnePiece
<1>1. ProductsInv => OnePiece
  BY DEF ProductsInv, WholePackage, OnePiece, Made
<1>2. Spec => []ProductsInv
  BY ProductsInvariance
<1> QED BY <1>1, <1>2, PTL

\* _artifact_is_fresh, before and after each command: a run packages what its own commands
\* have produced.
THEOREM PackagesAreFresh == ASSUME Graceful, LockedOnly PROVE Spec => []FreshProducts
<1>1. ProductsInv => FreshProducts
  BY RunAssumption DEF RunAssumption, ProductsInv, WholePackage, FreshProducts, Made, Runs
<1>2. Spec => []ProductsInv
  BY ProductsInvariance
<1> QED BY <1>1, <1>2, PTL
=============================================================================
