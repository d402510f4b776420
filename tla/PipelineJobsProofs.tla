------------------------- MODULE PipelineJobsProofs -------------------------
(***************************************************************************)
(* What holds of PipelineJobs for every number of instances, requests,     *)
(* configurations, jobs and threads.  IInv is inductive: LockHeld carries  *)
(* the exclusion of runs, Asked the cancellations, Recorded the run        *)
(* records; Known and Progress say that rows, configurations and outcomes  *)
(* that are named are there.  One lemma per conjunct shows that every      *)
(* action keeps it; the theorems follow.                                   *)
(***************************************************************************)
EXTENDS PipelineJobs, TLAPS

\* A task that is to settle its row has a status to write; a request under way knows
\* its configuration and, once the row is there, the row.
Progress ==
    /\ \A i \in Instances, j \in JobIds :
        pc[i][j] \in {"record", "current", "finish"} => outcome[i][j] \in Terminal
    /\ \A c \in Clients :
        /\ request[c] # "idle" => wanted[c] \in Payloads /\ server[c] \in Instances
        /\ request[c] = "submit" => inserted[c] \in JobIds

\* Rows have a configuration, and whoever names a row names one that is there.
Known ==
    /\ \A j \in JobIds : Exists(j) => payload[j] \in Payloads
    /\ \A i \in Instances, j \in JobIds :
        pc[i][j] # "none" \/ j \in todo[i] => Exists(j)
    /\ \A i \in Instances : \A n \in 1..Len(pool[i]) : Exists(pool[i][n])
    /\ \A c \in Clients : request[c] = "submit" => Exists(inserted[c])

\* Whoever runs a pipeline holds the run lock of its experiment.
LockHeld ==
    /\ \A i \in Instances, j \in JobIds : Runs(i, j) => runLock[LockOf(j)] = <<i, j>>
    /\ \A c \in Clients : request[c] = "sync" => runLock[WantedLock(c)] = c

\* A task has seen a request, or is going to write cancelled, only for a row on which
\* somebody requested it.
Asked ==
    /\ CancelledOnlyOnRequest
    /\ \A i \in Instances, j \in JobIds :
        seen[i][j] \/ outcome[i][j] = "cancelled" => Exists(j) /\ cancelledAt[j]

\* A run record is there only if its request asked for it, and is there once a task is
\* past the recording or the row reads completed.
Recorded ==
    /\ \A j \in JobIds : runs[j] > 0 => Exists(j) /\ payload[j].persist
    /\ \A j \in JobIds : status[j] = "completed" /\ payload[j].persist => runs[j] > 0
    /\ \A i \in Instances, j \in JobIds :
          pc[i][j] \in {"current", "finish"} /\ payload[j].persist => runs[j] > 0

\* The inductive invariant: every row a process names is there, whoever runs a pipeline
\* holds its lock, and what a task will write is backed by the request and the run
\* record it needs, whichever process died in between.
IInv == TypeOK /\ Progress /\ Known /\ LockHeld /\ Asked /\ Recorded

\* What a step does to a row that is there: it stays, with its configuration.
RowsKept == \A j \in JobIds : Exists(j) => Exists(j)' /\ payload'[j] = payload[j]

\* A request thread, a task and "nobody" are different holders of a run lock.
LEMMA HoldersDiffer ==
    /\ \A c \in Clients : c # None
    /\ \A i \in Instances, j \in JobIds : <<i, j>> # None /\ \A c \in Clients : c # <<i, j>>
  BY ConstantsAssumption

\* A request body names a configuration, and that an experiment.
LEMMA BodiesNameExperiments == \A body \in Payloads : ExperimentOf[body.config] \in Experiments
<1>1. \A body \in Payloads : body.config \in Configs
  BY ConstantsAssumption
<1> QED BY <1>1, ConstantsAssumption

\* The invariant holds when the table is empty and no instance has started.
LEMMA InitIInv == Init => IInv
<1> SUFFICES ASSUME Init PROVE IInv
  OBVIOUS
<1>1. TypeOK /\ Progress
  BY DEF Init, TypeOK, Progress
<1>2. Known
  BY DEF Init, Known, Exists
<1>3. LockHeld /\ Asked /\ Recorded
  BY ConstantsAssumption
  DEF Init, LockHeld, Asked, Recorded, Runs, CancelledOnlyOnRequest, Exists, Terminal
<1> QED BY <1>1, <1>2, <1>3 DEF IInv

\* A step keeps the types; Progress says that what is written is a value of the column.
LEMMA TypeStep == TypeOK /\ Progress /\ [Next]_vars => TypeOK'
<1> SUFFICES ASSUME TypeOK, Progress, [Next]_vars PROVE TypeOK'
  OBVIOUS
<1> USE DEF TypeOK, jobVars, runVars, instanceVars, taskVars, requestVars
<1>1. ASSUME NEW i \in Instances, Start(i) PROVE TypeOK'
  BY <1>1 DEF Start, Orphans
<1>2. ASSUME NEW i \in Instances, MarkOrphans(i) PROVE TypeOK'
  BY <1>2 DEF MarkOrphans, Terminal
<1>3. ASSUME NEW i \in Instances, ListQueued(i) PROVE TypeOK'
  BY <1>3 DEF ListQueued
<1>4. ASSUME NEW i \in Instances, Resubmit(i) PROVE TypeOK'
  BY <1>4 DEF Resubmit
<1>5. ASSUME NEW i \in Instances, Serve(i) PROVE TypeOK'
  BY <1>5 DEF Serve
<1>6. ASSUME NEW i \in Instances, RecoveryFails(i) PROVE TypeOK'
  BY <1>6 DEF RecoveryFails
<1>7. ASSUME NEW i \in Instances, Shutdown(i) PROVE TypeOK'
  BY <1>7 DEF Shutdown
<1>8. ASSUME NEW i \in Instances, Exit(i) PROVE TypeOK'
  BY <1>8 DEF Exit
<1>9. ASSUME NEW i \in Instances, Crash(i) PROVE TypeOK'
  BY <1>9 DEF Crash
<1>10. ASSUME NEW i \in Instances, Take(i) PROVE TypeOK'
  BY <1>10 DEF Take, At
<1>11. ASSUME NEW c \in Clients, NEW i \in Instances, NEW body \in Payloads, RunRequest(c, i, body)
      PROVE TypeOK'
  BY <1>11 DEF RunRequest, Arrive
<1>12. ASSUME NEW c \in Clients, NEW i \in Instances, NEW j \in JobIds, RetryRequest(c, i, j)
      PROVE TypeOK'
  BY <1>12 DEF RetryRequest, Arrive
<1>13. ASSUME NEW c \in Clients, CheckActive(c) PROVE TypeOK'
  BY <1>13 DEF CheckActive, Answer
<1>14. ASSUME NEW c \in Clients, CreateJob(c) PROVE TypeOK'
  BY <1>14 DEF CreateJob, Active
<1>15. ASSUME NEW c \in Clients, Submit(c) PROVE TypeOK'
  BY <1>15 DEF Submit, Answer, Progress
<1>16. ASSUME NEW j \in JobIds, CancelRequest(j) PROVE TypeOK'
  BY <1>16 DEF CancelRequest, Active, Terminal
<1>17. ASSUME NEW c \in Clients, NEW i \in Instances, NEW body \in Payloads, SyncRun(c, i, body)
      PROVE TypeOK'
  BY <1>17, ConstantsAssumption DEF SyncRun, Arrive, Holder
<1>18. ASSUME NEW c \in Clients, SyncEnd(c) PROVE TypeOK'
  BY <1>18 DEF SyncEnd, Answer, Unlocked
<1>19. ASSUME NEW i \in Instances, NEW j \in JobIds, Claim(i, j) PROVE TypeOK'
  <2>1. pc' = [pc EXCEPT ![i][j] = "read"]
    BY <1>19 DEF Claim, At
  <2>2. CASE status' = [status EXCEPT ![j] = "running"]
             /\ owner' = [owner EXCEPT ![j] = i] /\ fresh' = [fresh EXCEPT ![j] = TRUE]
    BY <1>19, <2>1, <2>2 DEF Claim, Active
  <2>3. CASE UNCHANGED <<status, owner, fresh>>
    BY <1>19, <2>1, <2>3 DEF Claim
  <2> QED BY <1>19, <2>2, <2>3 DEF Claim
<1>20. ASSUME NEW i \in Instances, NEW j \in JobIds, ReadClaim(i, j) PROVE TypeOK'
  <2>1. CASE At(i, j, "lock") /\ UNCHANGED <<seen, outcome>>
    BY <1>20, <2>1 DEF ReadClaim, At
  <2>2. CASE Leave(i, j)
    BY <1>20, <2>2 DEF ReadClaim, Leave, At
  <2> QED BY <1>20, <2>1, <2>2 DEF ReadClaim
<1>21. ASSUME NEW i \in Instances, NEW j \in JobIds, TakeLock(i, j) PROVE TypeOK'
  BY <1>21 DEF TakeLock, At, Holder
<1>22. ASSUME NEW i \in Instances, NEW j \in JobIds, LockRefused(i, j) PROVE TypeOK'
  BY <1>22 DEF LockRefused, At, Terminal
<1>23. ASSUME NEW i \in Instances, NEW j \in JobIds, ReadCancel(i, j) PROVE TypeOK'
  BY <1>23 DEF ReadCancel, At
<1>24. ASSUME NEW i \in Instances, NEW j \in JobIds, Heartbeat(i, j) PROVE TypeOK'
  BY <1>24 DEF Heartbeat, At
<1>25. ASSUME NEW j \in JobIds, HeartbeatExpires(j) PROVE TypeOK'
  BY <1>25 DEF HeartbeatExpires
<1>26. ASSUME NEW i \in Instances, NEW j \in JobIds, PipelineEnds(i, j) PROVE TypeOK'
  <2>1. PICK report \in Reports(i, j) : outcome' = [outcome EXCEPT ![i][j] = report]
    BY <1>26 DEF PipelineEnds
  <2>2. report \in Terminal
    BY DEF Reports, Terminal
  <2> QED BY <1>26, <2>1, <2>2 DEF PipelineEnds, At, Unlocked
<1>27. ASSUME NEW i \in Instances, NEW j \in JobIds, RecordRun(i, j) PROVE TypeOK'
  BY <1>27 DEF RecordRun, At
<1>28. ASSUME NEW i \in Instances, NEW j \in JobIds, ReadCurrent(i, j) PROVE TypeOK'
  BY <1>28 DEF ReadCurrent, At, Terminal
<1>29. ASSUME NEW i \in Instances, NEW j \in JobIds, Finish(i, j) PROVE TypeOK'
  BY <1>29 DEF Finish, Settle, Leave, At, Progress
<1>30. ASSUME NEW i \in Instances, NEW j \in JobIds, Raise(i, j) PROVE TypeOK'
  BY <1>30 DEF Raise, At, Unlocked
<1>31. ASSUME NEW i \in Instances, NEW j \in JobIds, FailOnException(i, j) PROVE TypeOK'
  BY <1>31 DEF FailOnException, Settle, Leave, At, Terminal
<1>33. ASSUME NEW i \in Instances, NEW j \in JobIds, HandlerFails(i, j) PROVE TypeOK'
  BY <1>33 DEF HandlerFails, Leave, At
<1>32. CASE UNCHANGED vars
  BY <1>32 DEF vars, jobVars, runVars, instanceVars, taskVars, requestVars
<1> QED
  BY <1>1, <1>2, <1>3, <1>4, <1>5, <1>6, <1>7, <1>8, <1>9, <1>10, <1>11, <1>12, <1>13,
     <1>14, <1>15, <1>16, <1>17, <1>18, <1>19, <1>20, <1>21, <1>22, <1>23, <1>24, <1>25,
     <1>26, <1>27, <1>28, <1>29, <1>30, <1>31, <1>32, <1>33
  DEF Next, InstanceNext, Recovery, ClientNext, Queueing, TaskNext, ThreadStep

\* No statement deletes a row or changes the configuration it names.
LEMMA RowsStay == TypeOK /\ Progress /\ [Next]_vars => RowsKept
<1> SUFFICES ASSUME TypeOK, Progress, [Next]_vars PROVE RowsKept
  OBVIOUS
<1> USE DEF RowsKept, Exists, TypeOK, jobVars, runVars
<1>1. ASSUME NEW i \in Instances, Start(i) PROVE RowsKept
  BY <1>1 DEF Start
<1>2. ASSUME NEW i \in Instances, MarkOrphans(i) PROVE RowsKept
  BY <1>2 DEF MarkOrphans
<1>3. ASSUME NEW i \in Instances, ListQueued(i) PROVE RowsKept
  BY <1>3 DEF ListQueued
<1>4. ASSUME NEW i \in Instances, Resubmit(i) PROVE RowsKept
  BY <1>4 DEF Resubmit
<1>5. ASSUME NEW i \in Instances, Serve(i) PROVE RowsKept
  BY <1>5 DEF Serve
<1>6. ASSUME NEW i \in Instances, RecoveryFails(i) PROVE RowsKept
  BY <1>6 DEF RecoveryFails
<1>7. ASSUME NEW i \in Instances, Shutdown(i) PROVE RowsKept
  BY <1>7 DEF Shutdown
<1>8. ASSUME NEW i \in Instances, Exit(i) PROVE RowsKept
  BY <1>8 DEF Exit
<1>9. ASSUME NEW i \in Instances, Crash(i) PROVE RowsKept
  BY <1>9 DEF Crash
<1>10. ASSUME NEW i \in Instances, Take(i) PROVE RowsKept
  BY <1>10 DEF Take
<1>11. ASSUME NEW c \in Clients, NEW i \in Instances, NEW body \in Payloads, RunRequest(c, i, body)
      PROVE RowsKept
  BY <1>11 DEF RunRequest
<1>12. ASSUME NEW c \in Clients, NEW i \in Instances, NEW j \in JobIds, RetryRequest(c, i, j)
      PROVE RowsKept
  BY <1>12 DEF RetryRequest
<1>13. ASSUME NEW c \in Clients, CheckActive(c) PROVE RowsKept
  BY <1>13 DEF CheckActive
<1>14. ASSUME NEW c \in Clients, CreateJob(c) PROVE RowsKept
  BY <1>14 DEF CreateJob
<1>15. ASSUME NEW c \in Clients, Submit(c) PROVE RowsKept
  BY <1>15 DEF Submit
<1>16. ASSUME NEW j \in JobIds, CancelRequest(j) PROVE RowsKept
  BY <1>16 DEF CancelRequest
<1>17. ASSUME NEW c \in Clients, NEW i \in Instances, NEW body \in Payloads, SyncRun(c, i, body)
      PROVE RowsKept
  BY <1>17 DEF SyncRun
<1>18. ASSUME NEW c \in Clients, SyncEnd(c) PROVE RowsKept
  BY <1>18 DEF SyncEnd
<1>19. ASSUME NEW i \in Instances, NEW j \in JobIds, Claim(i, j) PROVE RowsKept
  BY <1>19 DEF Claim
<1>20. ASSUME NEW i \in Instances, NEW j \in JobIds, ReadClaim(i, j) PROVE RowsKept
  BY <1>20 DEF ReadClaim
<1>21. ASSUME NEW i \in Instances, NEW j \in JobIds, TakeLock(i, j) PROVE RowsKept
  BY <1>21 DEF TakeLock
<1>22. ASSUME NEW i \in Instances, NEW j \in JobIds, LockRefused(i, j) PROVE RowsKept
  BY <1>22 DEF LockRefused
<1>23. ASSUME NEW i \in Instances, NEW j \in JobIds, ReadCancel(i, j) PROVE RowsKept
  BY <1>23 DEF ReadCancel
<1>24. ASSUME NEW i \in Instances, NEW j \in JobIds, Heartbeat(i, j) PROVE RowsKept
  BY <1>24 DEF Heartbeat
<1>25. ASSUME NEW j \in JobIds, HeartbeatExpires(j) PROVE RowsKept
  BY <1>25 DEF HeartbeatExpires
<1>26. ASSUME NEW i \in Instances, NEW j \in JobIds, PipelineEnds(i, j) PROVE RowsKept
  BY <1>26 DEF PipelineEnds
<1>27. ASSUME NEW i \in Instances, NEW j \in JobIds, RecordRun(i, j) PROVE RowsKept
  BY <1>27 DEF RecordRun
<1>28. ASSUME NEW i \in Instances, NEW j \in JobIds, ReadCurrent(i, j) PROVE RowsKept
  BY <1>28 DEF ReadCurrent
<1>29. ASSUME NEW i \in Instances, NEW j \in JobIds, Finish(i, j) PROVE RowsKept
  BY <1>29 DEF Finish, Settle, Progress, Terminal
<1>30. ASSUME NEW i \in Instances, NEW j \in JobIds, Raise(i, j) PROVE RowsKept
  BY <1>30 DEF Raise
<1>31. ASSUME NEW i \in Instances, NEW j \in JobIds, FailOnException(i, j) PROVE RowsKept
  BY <1>31 DEF FailOnException, Settle
<1>33. ASSUME NEW i \in Instances, NEW j \in JobIds, HandlerFails(i, j) PROVE RowsKept
  BY <1>33 DEF HandlerFails
<1>32. CASE UNCHANGED vars
  BY <1>32 DEF vars, jobVars, runVars, instanceVars, taskVars, requestVars
<1> QED
  BY <1>1, <1>2, <1>3, <1>4, <1>5, <1>6, <1>7, <1>8, <1>9, <1>10, <1>11, <1>12, <1>13,
     <1>14, <1>15, <1>16, <1>17, <1>18, <1>19, <1>20, <1>21, <1>22, <1>23, <1>24, <1>25,
     <1>26, <1>27, <1>28, <1>29, <1>30, <1>31, <1>32, <1>33
  DEF Next, InstanceNext, Recovery, ClientNext, Queueing, TaskNext, ThreadStep

\* A step keeps Progress.
LEMMA ProgressStep == TypeOK /\ Progress /\ Known /\ [Next]_vars => Progress'
<1> SUFFICES ASSUME TypeOK, Progress, Known, [Next]_vars PROVE Progress'
  OBVIOUS
<1> USE DEF Progress, TypeOK, jobVars, runVars, instanceVars, taskVars, requestVars
<1>1. ASSUME NEW i \in Instances, Start(i) PROVE Progress'
  BY <1>1 DEF Start
<1>2. ASSUME NEW i \in Instances, MarkOrphans(i) PROVE Progress'
  BY <1>2 DEF MarkOrphans
<1>3. ASSUME NEW i \in Instances, ListQueued(i) PROVE Progress'
  BY <1>3 DEF ListQueued
<1>4. ASSUME NEW i \in Instances, Resubmit(i) PROVE Progress'
  BY <1>4 DEF Resubmit
<1>5. ASSUME NEW i \in Instances, Serve(i) PROVE Progress'
  BY <1>5 DEF Serve
<1>6. ASSUME NEW i \in Instances, RecoveryFails(i) PROVE Progress'
  BY <1>6 DEF RecoveryFails
<1>7. ASSUME NEW i \in Instances, Shutdown(i) PROVE Progress'
  BY <1>7 DEF Shutdown
<1>8. ASSUME NEW i \in Instances, Exit(i) PROVE Progress'
  BY <1>8 DEF Exit
<1>9. ASSUME NEW i \in Instances, Crash(i) PROVE Progress'
  BY <1>9 DEF Crash
<1>10. ASSUME NEW i \in Instances, Take(i) PROVE Progress'
  BY <1>10 DEF Take, At
<1>11. ASSUME NEW c \in Clients, NEW i \in Instances, NEW body \in Payloads, RunRequest(c, i, body)
      PROVE Progress'
  BY <1>11 DEF RunRequest, Arrive
<1>12. ASSUME NEW c \in Clients, NEW i \in Instances, NEW j \in JobIds, RetryRequest(c, i, j)
      PROVE Progress'
  BY <1>12 DEF RetryRequest, Arrive, Known, Exists, Terminal
<1>13. ASSUME NEW c \in Clients, CheckActive(c) PROVE Progress'
  BY <1>13 DEF CheckActive, Answer
<1>14. ASSUME NEW c \in Clients, CreateJob(c) PROVE Progress'
  BY <1>14 DEF CreateJob
<1>15. ASSUME NEW c \in Clients, Submit(c) PROVE Progress'
  BY <1>15 DEF Submit, Answer
<1>16. ASSUME NEW j \in JobIds, CancelRequest(j) PROVE Progress'
  BY <1>16 DEF CancelRequest
<1>17. ASSUME NEW c \in Clients, NEW i \in Instances, NEW body \in Payloads, SyncRun(c, i, body)
      PROVE Progress'
  BY <1>17 DEF SyncRun, Arrive
<1>18. ASSUME NEW c \in Clients, SyncEnd(c) PROVE Progress'
  BY <1>18 DEF SyncEnd, Answer
<1>19. ASSUME NEW i \in Instances, NEW j \in JobIds, Claim(i, j) PROVE Progress'
  BY <1>19 DEF Claim, At
<1>20. ASSUME NEW i \in Instances, NEW j \in JobIds, ReadClaim(i, j) PROVE Progress'
  <2>1. CASE At(i, j, "lock") /\ UNCHANGED <<seen, outcome>>
    BY <1>20, <2>1 DEF ReadClaim, At
  <2>2. CASE Leave(i, j)
    BY <1>20, <2>2 DEF ReadClaim, Leave, At
  <2> QED BY <1>20, <2>1, <2>2 DEF ReadClaim
<1>21. ASSUME NEW i \in Instances, NEW j \in JobIds, TakeLock(i, j) PROVE Progress'
  BY <1>21 DEF TakeLock, At
<1>22. ASSUME NEW i \in Instances, NEW j \in JobIds, LockRefused(i, j) PROVE Progress'
  BY <1>22 DEF LockRefused, At, Terminal
<1>23. ASSUME NEW i \in Instances, NEW j \in JobIds, ReadCancel(i, j) PROVE Progress'
  BY <1>23 DEF ReadCancel, At
<1>24. ASSUME NEW i \in Instances, NEW j \in JobIds, Heartbeat(i, j) PROVE Progress'
  BY <1>24 DEF Heartbeat, At
<1>25. ASSUME NEW j \in JobIds, HeartbeatExpires(j) PROVE Progress'
  BY <1>25 DEF HeartbeatExpires
<1>26. ASSUME NEW i \in Instances, NEW j \in JobIds, PipelineEnds(i, j) PROVE Progress'
  BY <1>26 DEF PipelineEnds, At, Reports, Terminal
<1>27. ASSUME NEW i \in Instances, NEW j \in JobIds, RecordRun(i, j) PROVE Progress'
  BY <1>27 DEF RecordRun, At
<1>28. ASSUME NEW i \in Instances, NEW j \in JobIds, ReadCurrent(i, j) PROVE Progress'
  BY <1>28 DEF ReadCurrent, At, Terminal
<1>29. ASSUME NEW i \in Instances, NEW j \in JobIds, Finish(i, j) PROVE Progress'
  BY <1>29 DEF Finish, Leave, At
<1>30. ASSUME NEW i \in Instances, NEW j \in JobIds, Raise(i, j) PROVE Progress'
  BY <1>30 DEF Raise, At
<1>31. ASSUME NEW i \in Instances, NEW j \in JobIds, FailOnException(i, j) PROVE Progress'
  BY <1>31 DEF FailOnException, Leave, At
<1>33. ASSUME NEW i \in Instances, NEW j \in JobIds, HandlerFails(i, j) PROVE Progress'
  BY <1>33 DEF HandlerFails, Leave, At
<1>32. CASE UNCHANGED vars
  BY <1>32 DEF vars, jobVars, runVars, instanceVars, taskVars, requestVars
<1> QED
  BY <1>1, <1>2, <1>3, <1>4, <1>5, <1>6, <1>7, <1>8, <1>9, <1>10, <1>11, <1>12, <1>13,
     <1>14, <1>15, <1>16, <1>17, <1>18, <1>19, <1>20, <1>21, <1>22, <1>23, <1>24, <1>25,
     <1>26, <1>27, <1>28, <1>29, <1>30, <1>31, <1>32, <1>33
  DEF Next, InstanceNext, Recovery, ClientNext, Queueing, TaskNext, ThreadStep

\* A step keeps Known: only rows that are there are queued, listed, taken and submitted.
LEMMA KnownStep == TypeOK /\ Progress /\ Known /\ [Next]_vars => Known'
<1> SUFFICES ASSUME TypeOK, Progress, Known, [Next]_vars PROVE Known'
  OBVIOUS
<1>0. RowsKept
  BY RowsStay
<1>a. ASSUME \A k \in JobIds : Exists(k)' => Exists(k),
             UNCHANGED <<payload, pool, request, inserted>>,
             \A k \in Instances, l \in JobIds :
               pc'[k][l] # "none" \/ l \in todo'[k] => pc[k][l] # "none" \/ l \in todo[k]
      PROVE  Known'
  <2>1. \A l \in JobIds : Exists(l)' => payload'[l] \in Payloads
    BY <1>a DEF Known
  <2>2. \A k \in Instances, l \in JobIds : pc'[k][l] # "none" \/ l \in todo'[k] => Exists(l)'
    BY <1>0, <1>a DEF Known, RowsKept
  <2>3. ASSUME NEW k \in Instances, NEW n \in 1..Len(pool'[k]) PROVE Exists(pool[k][n])'
    <3>1. n \in 1..Len(pool[k]) /\ pool[k] \in Seq(JobIds)
      BY <1>a DEF TypeOK
    <3>2. pool[k][n] \in JobIds /\ Exists(pool[k][n])
      BY <3>1 DEF Known
    <3> QED BY <1>0, <1>a, <3>2 DEF RowsKept, Exists
  <2>4. \A c \in Clients : request'[c] = "submit" => Exists(inserted[c])'
    BY <1>0, <1>a DEF Known, RowsKept, Progress, Exists
  <2> QED BY <2>1, <2>2, <2>3, <2>4 DEF Known
<1> USE DEF RowsKept, Exists, Known, TypeOK, jobVars, runVars, instanceVars, taskVars, requestVars
<1>1. ASSUME NEW i \in Instances, Start(i) PROVE Known'
  BY <1>1, <1>0 DEF Start, Orphans, Executing
<1>2. ASSUME NEW i \in Instances, MarkOrphans(i) PROVE Known'
  <2>1. \A k \in JobIds : k \in todo[i] => Exists(k)
    OBVIOUS
  <2>2. ASSUME NEW k \in JobIds, Exists(k)' PROVE Exists(k)
    <3>1. CASE k \in todo[i]
      BY <2>1, <3>1
    <3>2. CASE k \notin todo[i]
      BY <1>2, <2>2, <3>2 DEF MarkOrphans
    <3> QED BY <3>1, <3>2
  <2>3. UNCHANGED <<payload, pool, pc, request, inserted>> /\ \A k \in Instances : todo'[k] \subseteq todo[k]
    BY <1>2 DEF MarkOrphans
  <2> QED BY <1>a, <2>2, <2>3
<1>3. ASSUME NEW i \in Instances, ListQueued(i) PROVE Known'
  BY <1>3, <1>0 DEF ListQueued
<1>4. ASSUME NEW i \in Instances, Resubmit(i) PROVE Known'
  BY <1>4, <1>0 DEF Resubmit
<1>5. ASSUME NEW i \in Instances, Serve(i) PROVE Known'
  BY <1>5, <1>0 DEF Serve
<1>6. ASSUME NEW i \in Instances, RecoveryFails(i) PROVE Known'
  BY <1>6, <1>0 DEF RecoveryFails
<1>7. ASSUME NEW i \in Instances, Shutdown(i) PROVE Known'
  BY <1>7, <1>0 DEF Shutdown
<1>8. ASSUME NEW i \in Instances, Exit(i) PROVE Known'
  BY <1>8, <1>0 DEF Exit
<1>9. ASSUME NEW i \in Instances, Crash(i) PROVE Known'
  BY <1>9, <1>0 DEF Crash
<1>10. ASSUME NEW i \in Instances, Take(i) PROVE Known'
  BY <1>10, <1>0 DEF Take, At
<1>11. ASSUME NEW c \in Clients, NEW i \in Instances, NEW body \in Payloads, RunRequest(c, i, body)
      PROVE Known'
  BY <1>11, <1>0 DEF RunRequest, Arrive
<1>12. ASSUME NEW c \in Clients, NEW i \in Instances, NEW j \in JobIds, RetryRequest(c, i, j)
      PROVE Known'
  BY <1>12, <1>0 DEF RetryRequest, Arrive
<1>13. ASSUME NEW c \in Clients, CheckActive(c) PROVE Known'
  <2>1. UNCHANGED <<status, payload, pool, pc, todo>>
    BY <1>13 DEF CheckActive
  <2>2. \A d \in Clients : request'[d] = "submit" => request[d] = "submit" /\ inserted'[d] = inserted[d]
    BY <1>13 DEF CheckActive, Answer
  <2> QED BY <2>1, <2>2, <1>0
<1>14. ASSUME NEW c \in Clients, CreateJob(c) PROVE Known'
  BY <1>14, <1>0 DEF CreateJob, Progress
<1>15. ASSUME NEW c \in Clients, Submit(c) PROVE Known'
  BY <1>15, <1>0 DEF Submit, Answer, Progress
<1>16. ASSUME NEW j \in JobIds, CancelRequest(j) PROVE Known'
  BY <1>16, <1>0 DEF CancelRequest
<1>17. ASSUME NEW c \in Clients, NEW i \in Instances, NEW body \in Payloads, SyncRun(c, i, body)
      PROVE Known'
  BY <1>17, <1>0 DEF SyncRun, Arrive
<1>18. ASSUME NEW c \in Clients, SyncEnd(c) PROVE Known'
  BY <1>18, <1>0 DEF SyncEnd, Answer
<1>19. ASSUME NEW i \in Instances, NEW j \in JobIds, Claim(i, j) PROVE Known'
  <2>1. \A k \in JobIds : Exists(k)' => Exists(k)
    BY <1>19 DEF Claim, At
  <2>2. pc' = [pc EXCEPT ![i][j] = "read"] /\ UNCHANGED <<payload, todo, pool, request, inserted>>
    BY <1>19 DEF Claim, At
  <2>3. \A k \in Instances, l \in JobIds :
          pc'[k][l] # "none" \/ l \in todo'[k] => pc[k][l] # "none" \/ l \in todo[k]
    BY <1>19, <2>2 DEF Claim
  <2> QED BY <1>a, <2>1, <2>2, <2>3
<1>20. ASSUME NEW i \in Instances, NEW j \in JobIds, ReadClaim(i, j) PROVE Known'
  <2>1. CASE At(i, j, "lock") /\ UNCHANGED <<seen, outcome>>
    BY <1>20, <2>1, <1>0 DEF ReadClaim, At
  <2>2. CASE Leave(i, j)
    BY <1>20, <2>2, <1>0 DEF ReadClaim, Leave, At
  <2> QED BY <1>20, <2>1, <2>2 DEF ReadClaim
<1>21. ASSUME NEW i \in Instances, NEW j \in JobIds, TakeLock(i, j) PROVE Known'
  BY <1>21, <1>0 DEF TakeLock, At
<1>22. ASSUME NEW i \in Instances, NEW j \in JobIds, LockRefused(i, j) PROVE Known'
  BY <1>22, <1>0 DEF LockRefused, At
<1>23. ASSUME NEW i \in Instances, NEW j \in JobIds, ReadCancel(i, j) PROVE Known'
  BY <1>23, <1>0 DEF ReadCancel, At
<1>24. ASSUME NEW i \in Instances, NEW j \in JobIds, Heartbeat(i, j) PROVE Known'
  BY <1>24, <1>0 DEF Heartbeat, At
<1>25. ASSUME NEW j \in JobIds, HeartbeatExpires(j) PROVE Known'
  BY <1>25, <1>0 DEF HeartbeatExpires
<1>26. ASSUME NEW i \in Instances, NEW j \in JobIds, PipelineEnds(i, j) PROVE Known'
  BY <1>26, <1>0 DEF PipelineEnds, At
<1>27. ASSUME NEW i \in Instances, NEW j \in JobIds, RecordRun(i, j) PROVE Known'
  BY <1>27, <1>0 DEF RecordRun, At
<1>28. ASSUME NEW i \in Instances, NEW j \in JobIds, ReadCurrent(i, j) PROVE Known'
  BY <1>28, <1>0 DEF ReadCurrent, At
<1>29. ASSUME NEW i \in Instances, NEW j \in JobIds, Finish(i, j) PROVE Known'
  <2>1. \A k \in JobIds : Exists(k)' => Exists(k)
    BY <1>29 DEF Finish, Settle, Leave, At
  <2> QED BY <1>29, <2>1, <1>0 DEF Finish, Settle, Leave, At
<1>30. ASSUME NEW i \in Instances, NEW j \in JobIds, Raise(i, j) PROVE Known'
  BY <1>30, <1>0 DEF Raise, At
<1>31. ASSUME NEW i \in Instances, NEW j \in JobIds, FailOnException(i, j) PROVE Known'
  <2>1. \A k \in JobIds : Exists(k)' => Exists(k)
    BY <1>31 DEF FailOnException, Settle, Leave, At
  <2> QED BY <1>31, <2>1, <1>0 DEF FailOnException, Settle, Leave, At
<1>33. ASSUME NEW i \in Instances, NEW j \in JobIds, HandlerFails(i, j) PROVE Known'
  <2>1. \A k \in Instances, l \in JobIds : pc'[k][l] # "none" => pc[k][l] # "none"
    BY <1>33 DEF HandlerFails, Leave, At
  <2> QED BY <1>33, <1>a, <2>1 DEF HandlerFails
<1>32. CASE UNCHANGED vars
  BY <1>32 DEF vars, jobVars, runVars, instanceVars, taskVars, requestVars
<1> QED
  BY <1>1, <1>2, <1>3, <1>4, <1>5, <1>6, <1>7, <1>8, <1>9, <1>10, <1>11, <1>12, <1>13,
     <1>14, <1>15, <1>16, <1>17, <1>18, <1>19, <1>20, <1>21, <1>22, <1>23, <1>24, <1>25,
     <1>26, <1>27, <1>28, <1>29, <1>30, <1>31, <1>32, <1>33
  DEF Next, InstanceNext, Recovery, ClientNext, Queueing, TaskNext, ThreadStep

\* A step keeps LockHeld: nobody releases or takes the lock of a pipeline that runs.
LEMMA LockStep == TypeOK /\ Progress /\ Known /\ LockHeld /\ [Next]_vars => LockHeld'
<1> SUFFICES ASSUME TypeOK, Progress, Known, LockHeld, [Next]_vars PROVE LockHeld'
  OBVIOUS
<1> USE DEF TypeOK, WantedLock
<1>0. RowsKept
  BY RowsStay
<1>1. \A i \in Instances, j \in JobIds :
        Runs(i, j) \/ pc[i][j] = "lock" => LockOf(j) \in Experiments /\ LockOf(j)' = LockOf(j)
  BY <1>0, BodiesNameExperiments DEF Known, RowsKept, LockOf, Runs
<1>2. \A c \in Clients : request[c] # "idle" => WantedLock(c) \in Experiments
  BY BodiesNameExperiments DEF Progress
<1>3. ASSUME UNCHANGED runLock,
             \A k \in Instances, l \in JobIds : Runs(k, l)' => Runs(k, l),
             \A d \in Clients : request'[d] = "sync" =>
                                  request[d] = "sync" /\ wanted'[d] = wanted[d]
      PROVE  LockHeld'
  BY <1>1, <1>3 DEF LockHeld
<1>4. ASSUME NEW e \in Experiments, NEW h \in Holder, runLock' = [runLock EXCEPT ![e] = None], runLock[e] = h,
             \A k \in Instances, l \in JobIds : Runs(k, l)' => Runs(k, l) /\ <<k, l>> # h,
             \A d \in Clients : request'[d] = "sync" =>
                                  request[d] = "sync" /\ d # h /\ wanted'[d] = wanted[d]
      PROVE  LockHeld'
  <2>1. ASSUME NEW k \in Instances, NEW l \in JobIds, Runs(k, l)'
        PROVE  runLock'[LockOf(l)'] = <<k, l>>
    <3>1. Runs(k, l) /\ <<k, l>> # h
      BY <1>4, <2>1
    <3>2. runLock[LockOf(l)] = <<k, l>> /\ LockOf(l) \in Experiments /\ LockOf(l)' = LockOf(l)
      BY <3>1, <1>1 DEF LockHeld
    <3>3. LockOf(l) # e
      BY <1>4, <3>1, <3>2
    <3> QED BY <1>4, <3>2, <3>3
  <2>2. ASSUME NEW d \in Clients, request'[d] = "sync"
        PROVE  runLock'[WantedLock(d)'] = d
    <3>1. request[d] = "sync" /\ d # h /\ wanted'[d] = wanted[d]
      BY <1>4, <2>2
    <3>2. runLock[WantedLock(d)] = d /\ WantedLock(d) \in Experiments
      BY <3>1, <1>2 DEF LockHeld
    <3>3. WantedLock(d) # e
      BY <1>4, <3>1, <3>2
    <3> QED BY <1>4, <3>1, <3>2, <3>3
  <2> QED BY <2>1, <2>2 DEF LockHeld
<1>5. ASSUME NEW i \in Instances, Start(i) PROVE LockHeld'
  BY <1>5, <1>3 DEF Start, Runs, taskVars, requestVars
<1>6. ASSUME NEW i \in Instances, MarkOrphans(i) PROVE LockHeld'
  BY <1>6, <1>3 DEF MarkOrphans, Runs, taskVars, requestVars
<1>7. ASSUME NEW i \in Instances, ListQueued(i) PROVE LockHeld'
  BY <1>7, <1>3 DEF ListQueued, Runs, taskVars, requestVars
<1>8. ASSUME NEW i \in Instances, Resubmit(i) PROVE LockHeld'
  BY <1>8, <1>3 DEF Resubmit, Runs, taskVars, requestVars
<1>9. ASSUME NEW i \in Instances, Serve(i) PROVE LockHeld'
  BY <1>9, <1>3 DEF Serve, Runs, taskVars, requestVars
<1>10. ASSUME NEW i \in Instances, RecoveryFails(i) PROVE LockHeld'
  BY <1>10, <1>3 DEF RecoveryFails, Runs, taskVars, requestVars
<1>11. ASSUME NEW i \in Instances, Shutdown(i) PROVE LockHeld'
  BY <1>11, <1>3 DEF Shutdown, Runs, taskVars, requestVars
<1>12. ASSUME NEW i \in Instances, Exit(i) PROVE LockHeld'
  BY <1>12, <1>3 DEF Exit, Runs, taskVars, requestVars
<1>13. ASSUME NEW i \in Instances, Crash(i) PROVE LockHeld'
  <2>1. ASSUME NEW k \in Instances, NEW l \in JobIds, Runs(k, l)'
        PROVE  runLock'[LockOf(l)'] = <<k, l>>
    <3>1. k # i /\ Runs(k, l) /\ LockOf(l)' = LockOf(l)
      BY <1>13, <2>1 DEF Crash, Runs, LockOf, jobVars, runVars
    <3>2. runLock[LockOf(l)] = <<k, l>> /\ LockOf(l) \in Experiments
      BY <3>1, <1>1 DEF LockHeld
    <3>3. ~\E m \in JobIds : <<k, l>> = <<i, m>>
      BY <3>1
    <3>4. ~\E c \in Clients : <<k, l>> = c
      BY HoldersDiffer
    <3>5. runLock'[LockOf(l)] = runLock[LockOf(l)]
      BY <1>13, <3>2, <3>3, <3>4 DEF Crash
    <3> QED BY <3>1, <3>2, <3>5
  <2>2. ASSUME NEW c \in Clients, request'[c] = "sync"
        PROVE  runLock'[WantedLock(c)'] = c
    <3>1. server[c] # i /\ request[c] = "sync" /\ wanted'[c] = wanted[c]
      BY <1>13, <2>2 DEF Crash
    <3>2. runLock[WantedLock(c)] = c /\ WantedLock(c) \in Experiments
      BY <3>1, <1>2 DEF LockHeld
    <3>3. ~\E m \in JobIds : c = <<i, m>>
      BY HoldersDiffer
    <3>4. runLock'[WantedLock(c)] = runLock[WantedLock(c)]
      BY <1>13, <3>1, <3>2, <3>3 DEF Crash
    <3> QED BY <3>1, <3>2, <3>4
  <2> QED BY <2>1, <2>2 DEF LockHeld
<1>14. ASSUME NEW i \in Instances, Take(i) PROVE LockHeld'
  BY <1>14, <1>3 DEF Take, Runs, taskVars, requestVars, At
<1>15. ASSUME NEW c \in Clients, NEW i \in Instances, NEW body \in Payloads, RunRequest(c, i, body)
      PROVE LockHeld'
  BY <1>15, <1>3 DEF RunRequest, Runs, taskVars, requestVars, Arrive
<1>16. ASSUME NEW c \in Clients, NEW i \in Instances, NEW j \in JobIds, RetryRequest(c, i, j)
      PROVE LockHeld'
  BY <1>16, <1>3 DEF RetryRequest, Runs, taskVars, requestVars, Arrive
<1>17. ASSUME NEW c \in Clients, CheckActive(c) PROVE LockHeld'
  BY <1>17, <1>3 DEF CheckActive, Runs, taskVars, requestVars, Answer
<1>18. ASSUME NEW c \in Clients, CreateJob(c) PROVE LockHeld'
  BY <1>18, <1>3 DEF CreateJob, Runs, taskVars, requestVars
<1>19. ASSUME NEW c \in Clients, Submit(c) PROVE LockHeld'
  BY <1>19, <1>3 DEF Submit, Runs, taskVars, requestVars, Answer
<1>20. ASSUME NEW j \in JobIds, CancelRequest(j) PROVE LockHeld'
  BY <1>20, <1>3 DEF CancelRequest, Runs, taskVars, requestVars
<1>21. ASSUME NEW c \in Clients, NEW i \in Instances, NEW body \in Payloads, SyncRun(c, i, body)
      PROVE LockHeld'
  <2>1. runLock[ExperimentOf[body.config]] = None /\ ExperimentOf[body.config] \in Experiments
    BY <1>21, BodiesNameExperiments DEF SyncRun
  <2>2. ASSUME NEW k \in Instances, NEW l \in JobIds, Runs(k, l)'
        PROVE  runLock'[LockOf(l)'] = <<k, l>>
    <3>1. Runs(k, l) /\ LockOf(l)' = LockOf(l)
      BY <1>21, <2>2 DEF SyncRun, Runs, LockOf, jobVars, runVars, taskVars
    <3>2. runLock[LockOf(l)] = <<k, l>> /\ LockOf(l) \in Experiments
      BY <3>1, <1>1 DEF LockHeld
    <3>3. LockOf(l) # ExperimentOf[body.config]
      BY <2>1, <3>2, HoldersDiffer
    <3> QED BY <1>21, <3>1, <3>2, <3>3 DEF SyncRun
  <2>3. ASSUME NEW d \in Clients, request'[d] = "sync"
        PROVE  runLock'[WantedLock(d)'] = d
    <3>1. CASE d = c
      BY <1>21, <2>1, <3>1 DEF SyncRun, Arrive
    <3>2. CASE d # c
      <4>1. request[d] = "sync" /\ wanted'[d] = wanted[d]
        BY <1>21, <2>3, <3>2 DEF SyncRun, Arrive
      <4>2. runLock[WantedLock(d)] = d /\ d # None
        BY <4>1, HoldersDiffer, ConstantsAssumption DEF LockHeld
      <4> QED BY <1>21, <2>1, <4>1, <4>2, <1>2 DEF SyncRun
    <3> QED BY <3>1, <3>2
  <2> QED BY <2>2, <2>3 DEF LockHeld
<1>22. ASSUME NEW c \in Clients, SyncEnd(c) PROVE LockHeld'
  <2>1. runLock' = [runLock EXCEPT ![WantedLock(c)] = None]
        /\ runLock[WantedLock(c)] = c
    BY <1>22 DEF SyncEnd, Unlocked, LockHeld
  <2>2. \A k \in Instances, l \in JobIds : Runs(k, l)' => Runs(k, l) /\ <<k, l>> # c
    BY <1>22, HoldersDiffer DEF SyncEnd, Runs, taskVars
  <2>3. \A d \in Clients : request'[d] = "sync" =>
                               request[d] = "sync" /\ d # c /\ wanted'[d] = wanted[d]
    BY <1>22 DEF SyncEnd, Answer
  <2> DEFINE e == WantedLock(c)
  <2>4. runLock' = [runLock EXCEPT ![e] = None] /\ runLock[e] = c
        /\ e \in Experiments /\ c \in Holder
    BY <2>1, <1>22, <1>2 DEF SyncEnd, Holder
  <2> HIDE DEF e
  <2> QED BY <1>4, <2>2, <2>3, <2>4
<1>23. ASSUME NEW i \in Instances, NEW j \in JobIds, Claim(i, j) PROVE LockHeld'
  BY <1>23, <1>3 DEF Claim, Runs, taskVars, requestVars, At
<1>24. ASSUME NEW i \in Instances, NEW j \in JobIds, ReadClaim(i, j) PROVE LockHeld'
  <2>1. CASE At(i, j, "lock")
    BY <1>24, <2>1, <1>3 DEF ReadClaim, At, Runs, requestVars
  <2>2. CASE Leave(i, j)
    BY <1>24, <2>2, <1>3 DEF ReadClaim, Leave, At, Runs, requestVars
  <2> QED BY <1>24, <2>1, <2>2 DEF ReadClaim
<1>25. ASSUME NEW i \in Instances, NEW j \in JobIds, TakeLock(i, j) PROVE LockHeld'
  <2>1. runLock[LockOf(j)] = None /\ LockOf(j) \in Experiments
    BY <1>25, <1>1 DEF TakeLock
  <2>2. ASSUME NEW k \in Instances, NEW l \in JobIds, Runs(k, l)'
        PROVE  runLock'[LockOf(l)'] = <<k, l>>
    <3>1. LockOf(l)' = LockOf(l)
      BY <1>25 DEF TakeLock, LockOf, jobVars, runVars
    <3>2. CASE k = i /\ l = j
      BY <1>25, <2>1, <3>1, <3>2 DEF TakeLock
    <3>3. CASE ~(k = i /\ l = j)
      <4>1. Runs(k, l)
        BY <1>25, <2>2, <3>3 DEF TakeLock, At, Runs
      <4>2. runLock[LockOf(l)] = <<k, l>> /\ LockOf(l) \in Experiments
        BY <4>1, <1>1 DEF LockHeld
      <4>3. LockOf(l) # LockOf(j)
        BY <2>1, <4>2, HoldersDiffer
      <4> QED BY <1>25, <3>1, <4>2, <4>3 DEF TakeLock
    <3> QED BY <3>2, <3>3
  <2>3. ASSUME NEW c \in Clients, request'[c] = "sync"
        PROVE  runLock'[WantedLock(c)'] = c
    <3>1. request[c] = "sync" /\ wanted'[c] = wanted[c]
      BY <1>25, <2>3 DEF TakeLock, requestVars
    <3>2. runLock[WantedLock(c)] = c /\ c # None
      BY <3>1, ConstantsAssumption DEF LockHeld
    <3> QED BY <1>25, <2>1, <3>1, <3>2, <1>2 DEF TakeLock
  <2> QED BY <2>2, <2>3 DEF LockHeld
<1>26. ASSUME NEW i \in Instances, NEW j \in JobIds, LockRefused(i, j) PROVE LockHeld'
  BY <1>26, <1>3 DEF LockRefused, Runs, taskVars, requestVars, At
<1>27. ASSUME NEW i \in Instances, NEW j \in JobIds, ReadCancel(i, j) PROVE LockHeld'
  BY <1>27, <1>3 DEF ReadCancel, Runs, taskVars, requestVars, At
<1>28. ASSUME NEW i \in Instances, NEW j \in JobIds, Heartbeat(i, j) PROVE LockHeld'
  BY <1>28, <1>3 DEF Heartbeat, Runs, taskVars, requestVars, At
<1>29. ASSUME NEW j \in JobIds, HeartbeatExpires(j) PROVE LockHeld'
  BY <1>29, <1>3 DEF HeartbeatExpires, Runs, taskVars, requestVars
<1>30. ASSUME NEW i \in Instances, NEW j \in JobIds, PipelineEnds(i, j) PROVE LockHeld'
  <2>4. runLock' = [runLock EXCEPT ![LockOf(j)] = None] /\ runLock[LockOf(j)] = <<i, j>>
        /\ LockOf(j) \in Experiments /\ <<i, j>> \in Holder
    BY <1>30, <1>1 DEF PipelineEnds, Unlocked, LockHeld, Runs, Holder
  <2>5. \A k \in Instances, l \in JobIds : Runs(k, l)' => Runs(k, l) /\ <<k, l>> # <<i, j>>
    BY <1>30 DEF PipelineEnds, At, Runs
  <2>6. \A d \in Clients : request'[d] = "sync" =>
                     request[d] = "sync" /\ d # <<i, j>> /\ wanted'[d] = wanted[d]
    BY <1>30, HoldersDiffer DEF PipelineEnds, requestVars
  <2> QED BY <1>4, <2>4, <2>5, <2>6
<1>31. ASSUME NEW i \in Instances, NEW j \in JobIds, RecordRun(i, j) PROVE LockHeld'
  BY <1>31, <1>3 DEF RecordRun, Runs, taskVars, requestVars, At
<1>32. ASSUME NEW i \in Instances, NEW j \in JobIds, ReadCurrent(i, j) PROVE LockHeld'
  BY <1>32, <1>3 DEF ReadCurrent, Runs, taskVars, requestVars, At
<1>33. ASSUME NEW i \in Instances, NEW j \in JobIds, Finish(i, j) PROVE LockHeld'
  BY <1>33, <1>3 DEF Finish, Runs, taskVars, requestVars, Leave, At
<1>34. ASSUME NEW i \in Instances, NEW j \in JobIds, Raise(i, j) PROVE LockHeld'
  <2>1. CASE pc[i][j] # "run"
    <3>1. UNCHANGED runLock /\ \A k \in Instances, l \in JobIds : Runs(k, l)' => Runs(k, l)
      BY <1>34, <2>1 DEF Raise, At, Runs
    <3>2. \A d \in Clients : request'[d] = "sync" =>
                                 request[d] = "sync" /\ wanted'[d] = wanted[d]
      BY <1>34 DEF Raise, requestVars
    <3> QED BY <1>3, <3>1, <3>2
  <2>2. CASE pc[i][j] = "run"
    <3>4. runLock' = [runLock EXCEPT ![LockOf(j)] = None] /\ runLock[LockOf(j)] = <<i, j>>
          /\ LockOf(j) \in Experiments /\ <<i, j>> \in Holder
      BY <1>34, <2>2, <1>1 DEF Raise, Unlocked, LockHeld, Runs, Holder
    <3>5. \A k \in Instances, l \in JobIds : Runs(k, l)' => Runs(k, l) /\ <<k, l>> # <<i, j>>
      BY <1>34, <2>2 DEF Raise, At, Runs
    <3>6. \A d \in Clients : request'[d] = "sync" =>
                       request[d] = "sync" /\ d # <<i, j>> /\ wanted'[d] = wanted[d]
      BY <1>34, <2>2, HoldersDiffer DEF Raise, requestVars
    <3> QED BY <1>4, <3>4, <3>5, <3>6
  <2> QED BY <2>1, <2>2
<1>35. ASSUME NEW i \in Instances, NEW j \in JobIds, FailOnException(i, j) PROVE LockHeld'
  BY <1>35, <1>3 DEF FailOnException, Runs, taskVars, requestVars, Leave, At
<1>37. ASSUME NEW i \in Instances, NEW j \in JobIds, HandlerFails(i, j) PROVE LockHeld'
  BY <1>37, <1>3 DEF HandlerFails, Runs, taskVars, requestVars, Leave, At
<1>36. CASE UNCHANGED vars
  BY <1>36, <1>3 DEF vars, Runs, taskVars, requestVars
<1> QED
  BY <1>5, <1>6, <1>7, <1>8, <1>9, <1>10, <1>11, <1>12, <1>13, <1>14, <1>15, <1>16,
     <1>17, <1>18, <1>19, <1>20, <1>21, <1>22, <1>23, <1>24, <1>25, <1>26, <1>27, <1>28,
     <1>29, <1>30, <1>31, <1>32, <1>33, <1>34, <1>35, <1>36, <1>37
  DEF Next, InstanceNext, Recovery, ClientNext, Queueing, TaskNext, ThreadStep

\* A step keeps Asked: the request a task acts upon is on record.
LEMMA AskedStep == TypeOK /\ Progress /\ Known /\ Asked /\ [Next]_vars => Asked'
<1> SUFFICES ASSUME TypeOK, Progress, Known, Asked, [Next]_vars PROVE Asked'
  OBVIOUS
<1>0. RowsKept
  BY RowsStay
<1> USE DEF Asked, RowsKept, CancelledOnlyOnRequest, TypeOK, jobVars, runVars, instanceVars, taskVars, requestVars
<1>1. ASSUME NEW i \in Instances, Start(i) PROVE Asked'
  BY <1>1, <1>0 DEF Start
<1>2. ASSUME NEW i \in Instances, MarkOrphans(i) PROVE Asked'
  BY <1>2, <1>0 DEF MarkOrphans, Exists
<1>3. ASSUME NEW i \in Instances, ListQueued(i) PROVE Asked'
  BY <1>3, <1>0 DEF ListQueued
<1>4. ASSUME NEW i \in Instances, Resubmit(i) PROVE Asked'
  BY <1>4, <1>0 DEF Resubmit
<1>5. ASSUME NEW i \in Instances, Serve(i) PROVE Asked'
  BY <1>5, <1>0 DEF Serve
<1>6. ASSUME NEW i \in Instances, RecoveryFails(i) PROVE Asked'
  BY <1>6, <1>0 DEF RecoveryFails
<1>7. ASSUME NEW i \in Instances, Shutdown(i) PROVE Asked'
  BY <1>7, <1>0 DEF Shutdown
<1>8. ASSUME NEW i \in Instances, Exit(i) PROVE Asked'
  BY <1>8, <1>0 DEF Exit
<1>9. ASSUME NEW i \in Instances, Crash(i) PROVE Asked'
  <2>1. CancelledOnlyOnRequest'
    BY <1>9 DEF Crash, jobVars, runVars
  <2>2. \A k \in Instances, l \in JobIds :
          seen'[k][l] \/ outcome'[k][l] = "cancelled" => seen[k][l] \/ outcome[k][l] = "cancelled"
    BY <1>9, ConstantsAssumption DEF Crash, jobVars, runVars, Terminal
  <2>3. UNCHANGED cancelledAt
    BY <1>9 DEF Crash, jobVars, runVars
  <2> QED BY <2>1, <2>2, <2>3, <1>0
<1>10. ASSUME NEW i \in Instances, Take(i) PROVE Asked'
  BY <1>10, <1>0 DEF Take, At
<1>11. ASSUME NEW c \in Clients, NEW i \in Instances, NEW body \in Payloads, RunRequest(c, i, body)
      PROVE Asked'
  BY <1>11, <1>0 DEF RunRequest
<1>12. ASSUME NEW c \in Clients, NEW i \in Instances, NEW j \in JobIds, RetryRequest(c, i, j)
      PROVE Asked'
  BY <1>12, <1>0 DEF RetryRequest
<1>13. ASSUME NEW c \in Clients, CheckActive(c) PROVE Asked'
  BY <1>13, <1>0 DEF CheckActive
<1>14. ASSUME NEW c \in Clients, CreateJob(c) PROVE Asked'
  BY <1>14, <1>0 DEF CreateJob, Exists
<1>15. ASSUME NEW c \in Clients, Submit(c) PROVE Asked'
  BY <1>15, <1>0 DEF Submit
<1>16. ASSUME NEW j \in JobIds, CancelRequest(j) PROVE Asked'
  BY <1>16, <1>0 DEF CancelRequest
<1>17. ASSUME NEW c \in Clients, NEW i \in Instances, NEW body \in Payloads, SyncRun(c, i, body)
      PROVE Asked'
  BY <1>17, <1>0 DEF SyncRun
<1>18. ASSUME NEW c \in Clients, SyncEnd(c) PROVE Asked'
  BY <1>18, <1>0 DEF SyncEnd
<1>19. ASSUME NEW i \in Instances, NEW j \in JobIds, Claim(i, j) PROVE Asked'
  BY <1>19, <1>0 DEF Claim, At
<1>20. ASSUME NEW i \in Instances, NEW j \in JobIds, ReadClaim(i, j) PROVE Asked'
  <2>1. CASE At(i, j, "lock") /\ UNCHANGED <<seen, outcome>>
    BY <1>20, <2>1, <1>0 DEF ReadClaim, At
  <2>2. CASE Leave(i, j)
    <3>1. \A k \in Instances, l \in JobIds :
            seen'[k][l] \/ outcome'[k][l] = "cancelled"
              => seen[k][l] \/ outcome[k][l] = "cancelled"
      BY <2>2, ConstantsAssumption DEF Leave
    <3>2. UNCHANGED <<status, cancelledAt>>
      BY <1>20 DEF ReadClaim
    <3> QED BY <3>1, <3>2, <1>0
  <2> QED BY <1>20, <2>1, <2>2 DEF ReadClaim
<1>21. ASSUME NEW i \in Instances, NEW j \in JobIds, TakeLock(i, j) PROVE Asked'
  BY <1>21, <1>0 DEF TakeLock, At
<1>22. ASSUME NEW i \in Instances, NEW j \in JobIds, LockRefused(i, j) PROVE Asked'
  BY <1>22, <1>0 DEF LockRefused, At
<1>23. ASSUME NEW i \in Instances, NEW j \in JobIds, ReadCancel(i, j) PROVE Asked'
  BY <1>23, <1>0 DEF ReadCancel, At, Known, Exists
<1>24. ASSUME NEW i \in Instances, NEW j \in JobIds, Heartbeat(i, j) PROVE Asked'
  BY <1>24, <1>0 DEF Heartbeat, At
<1>25. ASSUME NEW j \in JobIds, HeartbeatExpires(j) PROVE Asked'
  BY <1>25, <1>0 DEF HeartbeatExpires
<1>26. ASSUME NEW i \in Instances, NEW j \in JobIds, PipelineEnds(i, j) PROVE Asked'
  BY <1>26, <1>0 DEF PipelineEnds, At, Reports
<1>27. ASSUME NEW i \in Instances, NEW j \in JobIds, RecordRun(i, j) PROVE Asked'
  BY <1>27, <1>0 DEF RecordRun, At
<1>28. ASSUME NEW i \in Instances, NEW j \in JobIds, ReadCurrent(i, j) PROVE Asked'
  <2>1. pc[i][j] = "current" => Exists(j)
    BY DEF Known
  <2>2. \A k \in Instances, l \in JobIds :
          outcome'[k][l] = "cancelled" =>
            outcome[k][l] = "cancelled" \/ (l = j /\ status[j] = "cancellation_requested")
    BY <1>28 DEF ReadCurrent
  <2>3. UNCHANGED <<seen, status, cancelledAt>>
    BY <1>28 DEF ReadCurrent
  <2> QED BY <1>28, <2>1, <2>2, <2>3, <1>0 DEF ReadCurrent, Exists
<1>29. ASSUME NEW i \in Instances, NEW j \in JobIds, Finish(i, j) PROVE Asked'
  <2>1. CancelledOnlyOnRequest'
    <3>1. \A k \in JobIds : status'[k] = status[k] \/ (k = j /\ status'[k] = outcome[i][j])
      BY <1>29 DEF Finish, Settle
    <3>2. outcome[i][j] \in Terminal
      BY <1>29 DEF Finish, Progress
    <3> QED BY <1>29, <3>1, <3>2 DEF Finish, Terminal
  <2>2. \A k \in Instances, l \in JobIds :
          seen'[k][l] \/ outcome'[k][l] = "cancelled" => seen[k][l] \/ outcome[k][l] = "cancelled"
    BY <1>29, ConstantsAssumption DEF Finish, Settle, Leave, At, Known, Terminal
  <2>3. UNCHANGED cancelledAt
    BY <1>29 DEF Finish, Settle, Leave, At, Known
  <2> QED BY <2>1, <2>2, <2>3, <1>0
<1>30. ASSUME NEW i \in Instances, NEW j \in JobIds, Raise(i, j) PROVE Asked'
  BY <1>30, <1>0 DEF Raise, At
<1>31. ASSUME NEW i \in Instances, NEW j \in JobIds, FailOnException(i, j) PROVE Asked'
  <2>1. CancelledOnlyOnRequest'
    BY <1>31 DEF FailOnException, Settle, Leave, At, Known
  <2>2. \A k \in Instances, l \in JobIds :
          seen'[k][l] \/ outcome'[k][l] = "cancelled" => seen[k][l] \/ outcome[k][l] = "cancelled"
    BY <1>31, ConstantsAssumption DEF FailOnException, Settle, Leave, At, Known, Terminal
  <2>3. UNCHANGED cancelledAt
    BY <1>31 DEF FailOnException, Settle, Leave, At, Known
  <2> QED BY <2>1, <2>2, <2>3, <1>0
<1>33. ASSUME NEW i \in Instances, NEW j \in JobIds, HandlerFails(i, j) PROVE Asked'
  <2>1. \A k \in Instances, l \in JobIds :
          seen'[k][l] \/ outcome'[k][l] = "cancelled" => seen[k][l] \/ outcome[k][l] = "cancelled"
    BY <1>33, ConstantsAssumption DEF HandlerFails, Leave
  <2>2. UNCHANGED <<status, cancelledAt>>
    BY <1>33 DEF HandlerFails
  <2> QED BY <2>1, <2>2, <1>0
<1>32. CASE UNCHANGED vars
  BY <1>32 DEF vars, jobVars, runVars, instanceVars, taskVars, requestVars, Exists
<1> QED
  BY <1>1, <1>2, <1>3, <1>4, <1>5, <1>6, <1>7, <1>8, <1>9, <1>10, <1>11, <1>12, <1>13,
     <1>14, <1>15, <1>16, <1>17, <1>18, <1>19, <1>20, <1>21, <1>22, <1>23, <1>24, <1>25,
     <1>26, <1>27, <1>28, <1>29, <1>30, <1>31, <1>32, <1>33
  DEF Next, InstanceNext, Recovery, ClientNext, Queueing, TaskNext, ThreadStep

\* A step keeps Recorded: the run is recorded before the row is settled.
LEMMA RecordedStep == TypeOK /\ Progress /\ Known /\ Recorded /\ [Next]_vars => Recorded'
<1> SUFFICES ASSUME TypeOK, Progress, Known, Recorded, [Next]_vars PROVE Recorded'
  OBVIOUS
<1> USE DEF Exists, Known, Recorded, TypeOK, jobVars, runVars, instanceVars, taskVars, requestVars
<1>1. ASSUME NEW i \in Instances, Start(i) PROVE Recorded'
  BY <1>1 DEF Start
<1>2. ASSUME NEW i \in Instances, MarkOrphans(i) PROVE Recorded'
  BY <1>2 DEF MarkOrphans
<1>3. ASSUME NEW i \in Instances, ListQueued(i) PROVE Recorded'
  BY <1>3 DEF ListQueued
<1>4. ASSUME NEW i \in Instances, Resubmit(i) PROVE Recorded'
  BY <1>4 DEF Resubmit
<1>5. ASSUME NEW i \in Instances, Serve(i) PROVE Recorded'
  BY <1>5 DEF Serve
<1>6. ASSUME NEW i \in Instances, RecoveryFails(i) PROVE Recorded'
  BY <1>6 DEF RecoveryFails
<1>7. ASSUME NEW i \in Instances, Shutdown(i) PROVE Recorded'
  BY <1>7 DEF Shutdown
<1>8. ASSUME NEW i \in Instances, Exit(i) PROVE Recorded'
  BY <1>8 DEF Exit
<1>9. ASSUME NEW i \in Instances, Crash(i) PROVE Recorded'
  BY <1>9 DEF Crash
<1>10. ASSUME NEW i \in Instances, Take(i) PROVE Recorded'
  BY <1>10 DEF Take, At
<1>11. ASSUME NEW c \in Clients, NEW i \in Instances, NEW body \in Payloads, RunRequest(c, i, body)
      PROVE Recorded'
  BY <1>11 DEF RunRequest
<1>12. ASSUME NEW c \in Clients, NEW i \in Instances, NEW j \in JobIds, RetryRequest(c, i, j)
      PROVE Recorded'
  BY <1>12 DEF RetryRequest
<1>13. ASSUME NEW c \in Clients, CheckActive(c) PROVE Recorded'
  BY <1>13 DEF CheckActive
<1>14. ASSUME NEW c \in Clients, CreateJob(c) PROVE Recorded'
  BY <1>14 DEF CreateJob
<1>15. ASSUME NEW c \in Clients, Submit(c) PROVE Recorded'
  BY <1>15 DEF Submit
<1>16. ASSUME NEW j \in JobIds, CancelRequest(j) PROVE Recorded'
  BY <1>16 DEF CancelRequest
<1>17. ASSUME NEW c \in Clients, NEW i \in Instances, NEW body \in Payloads, SyncRun(c, i, body)
      PROVE Recorded'
  BY <1>17 DEF SyncRun
<1>18. ASSUME NEW c \in Clients, SyncEnd(c) PROVE Recorded'
  BY <1>18 DEF SyncEnd
<1>19. ASSUME NEW i \in Instances, NEW j \in JobIds, Claim(i, j) PROVE Recorded'
  BY <1>19 DEF Claim, At
<1>20. ASSUME NEW i \in Instances, NEW j \in JobIds, ReadClaim(i, j) PROVE Recorded'
  <2>1. CASE At(i, j, "lock") /\ UNCHANGED <<seen, outcome>>
    BY <1>20, <2>1 DEF ReadClaim, At
  <2>2. CASE Leave(i, j)
    BY <1>20, <2>2 DEF ReadClaim, Leave, At
  <2> QED BY <1>20, <2>1, <2>2 DEF ReadClaim
<1>21. ASSUME NEW i \in Instances, NEW j \in JobIds, TakeLock(i, j) PROVE Recorded'
  BY <1>21 DEF TakeLock, At
<1>22. ASSUME NEW i \in Instances, NEW j \in JobIds, LockRefused(i, j) PROVE Recorded'
  BY <1>22 DEF LockRefused, At
<1>23. ASSUME NEW i \in Instances, NEW j \in JobIds, ReadCancel(i, j) PROVE Recorded'
  BY <1>23 DEF ReadCancel, At
<1>24. ASSUME NEW i \in Instances, NEW j \in JobIds, Heartbeat(i, j) PROVE Recorded'
  BY <1>24 DEF Heartbeat, At
<1>25. ASSUME NEW j \in JobIds, HeartbeatExpires(j) PROVE Recorded'
  BY <1>25 DEF HeartbeatExpires
<1>26. ASSUME NEW i \in Instances, NEW j \in JobIds, PipelineEnds(i, j) PROVE Recorded'
  BY <1>26 DEF PipelineEnds, At
<1>27. ASSUME NEW i \in Instances, NEW j \in JobIds, RecordRun(i, j) PROVE Recorded'
  BY <1>27 DEF RecordRun, At
<1>28. ASSUME NEW i \in Instances, NEW j \in JobIds, ReadCurrent(i, j) PROVE Recorded'
  BY <1>28 DEF ReadCurrent, At
<1>29. ASSUME NEW i \in Instances, NEW j \in JobIds, Finish(i, j) PROVE Recorded'
  <2>1. pc[i][j] = "finish" /\ Exists(j) /\ UNCHANGED <<payload, runs>>
    BY <1>29 DEF Finish
  <2>2. \A k \in JobIds : k # j => status'[k] = status[k]
    BY <1>29 DEF Finish, Settle
  <2>3. \A k \in Instances, l \in JobIds : pc'[k][l] = pc[k][l] \/ pc'[k][l] = "none"
    BY <1>29 DEF Finish, Leave, At
  <2>4. \A k \in JobIds : Exists(k) => Exists(k)'
    BY <1>29, RowsStay DEF RowsKept, Next, TaskNext, ThreadStep
  <2> HIDE DEF Exists
  <2> QED BY <2>1, <2>2, <2>3, <2>4
<1>30. ASSUME NEW i \in Instances, NEW j \in JobIds, Raise(i, j) PROVE Recorded'
  BY <1>30 DEF Raise, At
<1>31. ASSUME NEW i \in Instances, NEW j \in JobIds, FailOnException(i, j) PROVE Recorded'
  BY <1>31 DEF FailOnException, Settle, Leave, At
<1>33. ASSUME NEW i \in Instances, NEW j \in JobIds, HandlerFails(i, j) PROVE Recorded'
  BY <1>33 DEF HandlerFails, Leave, At
<1>32. CASE UNCHANGED vars
  BY <1>32 DEF vars, jobVars, runVars, instanceVars, taskVars, requestVars
<1> QED
  BY <1>1, <1>2, <1>3, <1>4, <1>5, <1>6, <1>7, <1>8, <1>9, <1>10, <1>11, <1>12, <1>13,
     <1>14, <1>15, <1>16, <1>17, <1>18, <1>19, <1>20, <1>21, <1>22, <1>23, <1>24, <1>25,
     <1>26, <1>27, <1>28, <1>29, <1>30, <1>31, <1>32, <1>33
  DEF Next, InstanceNext, Recovery, ClientNext, Queueing, TaskNext, ThreadStep

-----------------------------------------------------------------------------
(* Theorems.                                                               *)

\* The inductive invariant holds in every reachable state.
THEOREM Invariance == Spec => []IInv
<1>1. IInv /\ [Next]_vars => IInv'
  BY TypeStep, ProgressStep, KnownStep, LockStep, AskedStep, RecordedStep DEF IInv
<1> QED BY InitIInv, <1>1, PTL DEF Spec

\* Every variable keeps its type: in particular a row's status stays in its column's
\* vocabulary, and no task writes a row without a final status.
THEOREM TypeCorrect == Spec => []TypeOK
<1>1. IInv => TypeOK
  BY DEF IInv
<1> QED BY Invariance, <1>1, PTL

\* Two pipelines of one experiment never run together, for any number of instances,
\* pool threads and requests (_pipeline_run_lock).
THEOREM RunsExclusive == Spec => []OneRunPerExperiment
<1>1. LockHeld => OneRunPerExperiment
  <2> SUFFICES ASSUME LockHeld PROVE OneRunPerExperiment
    OBVIOUS
  <2>1. ASSUME NEW i \in Instances, NEW k \in Instances, NEW j \in JobIds, NEW l \in JobIds,
               Runs(i, j), Runs(k, l), LockOf(j) = LockOf(l)
        PROVE  i = k /\ j = l
    <3>1. <<i, j>> = <<k, l>>
      BY <2>1 DEF LockHeld
    <3> QED BY <3>1
  <2>2. ASSUME NEW i \in Instances, NEW j \in JobIds, NEW c \in Clients,
               Runs(i, j), request[c] = "sync"
        PROVE  LockOf(j) # WantedLock(c)
    <3>1. runLock[LockOf(j)] = <<i, j>> /\ runLock[WantedLock(c)] = c
      BY <2>2 DEF LockHeld
    <3> QED BY <3>1, HoldersDiffer
  <2>3. \A c, d \in Clients :
          /\ request[c] = "sync" /\ request[d] = "sync"
          /\ WantedLock(c) = WantedLock(d)
          => c = d
    BY DEF LockHeld
  <2> QED BY <2>1, <2>2, <2>3 DEF OneRunPerExperiment
<1>2. IInv => OneRunPerExperiment
  BY <1>1 DEF IInv
<1> QED BY Invariance, <1>2, PTL

\* A job is only ever cancelled when a request for it is on record
\* (request_pipeline_job_cancel, the outcome _run_pipeline_job writes).
THEOREM CancelledOnRequest == Spec => []CancelledOnlyOnRequest
<1>1. IInv => CancelledOnlyOnRequest
  BY DEF IInv, Asked
<1> QED BY Invariance, <1>1, PTL

\* A completed row has its run record if its request asked for one, and only then, wherever
\* processes died and however many executed it (_run_pipeline_job: record_pipeline_run, if
\* persist is set, before complete_pipeline_job).
THEOREM CompletedIsRecorded == Spec => []CompletedHasRun
<1>1. IInv => CompletedHasRun
  BY DEF IInv, Recorded, CompletedHasRun
<1> QED BY Invariance, <1>1, PTL

\* The edges of the status diagram that the statements of storage.py can take.
StatusMoves(j) ==
    \/ status'[j] = status[j]
    \/ status[j] = "absent" /\ status'[j] = "queued"
    \/ status[j] = "queued" /\ status'[j] \in {"running", "cancelled"}
    \/ status[j] = "running" /\ status'[j] = "cancellation_requested"
    \/ status[j] \notin Terminal /\ status'[j] \in Terminal
    \/ status'[j] = "failed" /\ \E i \in Instances : phase[i] = "mark" /\ j \in todo[i]

\* Every step moves every row along those edges.
LEMMA StatusStep == TypeOK /\ Progress /\ [Next]_vars => \A j \in JobIds : StatusMoves(j)
<1> SUFFICES ASSUME TypeOK, Progress, [Next]_vars, NEW n \in JobIds PROVE StatusMoves(n)
  OBVIOUS
<1> USE DEF StatusMoves, TypeOK
<1>1. CASE UNCHANGED status
  BY <1>1
<1>2. ASSUME NEW i \in Instances, MarkOrphans(i) PROVE StatusMoves(n)
  BY <1>2 DEF MarkOrphans
<1>3. ASSUME NEW c \in Clients, CreateJob(c) PROVE StatusMoves(n)
  BY <1>3 DEF CreateJob, Exists
<1>4. ASSUME NEW j \in JobIds, CancelRequest(j) PROVE StatusMoves(n)
  BY <1>4 DEF CancelRequest
<1>5. ASSUME NEW i \in Instances, NEW j \in JobIds, Claim(i, j) PROVE StatusMoves(n)
  BY <1>5 DEF Claim
<1>6. ASSUME NEW i \in Instances, NEW j \in JobIds, Finish(i, j) PROVE StatusMoves(n)
  BY <1>6 DEF Finish, Settle, Progress, Terminal
<1>7. ASSUME NEW i \in Instances, NEW j \in JobIds, FailOnException(i, j) PROVE StatusMoves(n)
  BY <1>7 DEF FailOnException, Settle, Terminal
<1>8. ASSUME NEW i \in Instances,
             Start(i) \/ ListQueued(i) \/ Resubmit(i) \/ Serve(i) \/ RecoveryFails(i)
               \/ Shutdown(i) \/ Exit(i) \/ Crash(i) \/ Take(i)
      PROVE  UNCHANGED status
  BY <1>8 DEF Start, ListQueued, Resubmit, Serve, RecoveryFails, Shutdown, Exit, Crash, Take,
              jobVars, runVars
<1>9. ASSUME NEW c \in Clients, NEW i \in Instances,
             \/ \E body \in Payloads : RunRequest(c, i, body) \/ SyncRun(c, i, body)
             \/ \E j \in JobIds : RetryRequest(c, i, j)
      PROVE  UNCHANGED status
  BY <1>9 DEF RunRequest, SyncRun, RetryRequest, jobVars, runVars
<1>10. ASSUME NEW c \in Clients, CheckActive(c) \/ Submit(c) \/ SyncEnd(c)
       PROVE  UNCHANGED status
  BY <1>10 DEF CheckActive, Submit, SyncEnd, jobVars, runVars
<1>11. ASSUME NEW i \in Instances, NEW j \in JobIds,
              ReadClaim(i, j) \/ TakeLock(i, j) \/ LockRefused(i, j) \/ Heartbeat(i, j)
                \/ RecordRun(i, j) \/ ReadCurrent(i, j) \/ ReadCancel(i, j)
                \/ PipelineEnds(i, j) \/ Raise(i, j) \/ HandlerFails(i, j)
       PROVE  UNCHANGED status
  BY <1>11 DEF ReadClaim, TakeLock, LockRefused, Heartbeat, RecordRun, ReadCurrent, ReadCancel,
               PipelineEnds, Raise, HandlerFails, jobVars, runVars
<1>12. ASSUME NEW j \in JobIds, HeartbeatExpires(j) PROVE UNCHANGED status
  BY <1>12 DEF HeartbeatExpires
<1>13. CASE UNCHANGED vars
  BY <1>13 DEF vars, jobVars, runVars
<1> QED
  BY <1>1, <1>2, <1>3, <1>4, <1>5, <1>6, <1>7, <1>8, <1>9, <1>10, <1>11, <1>12, <1>13
  DEF Next, InstanceNext, Recovery, ClientNext, Queueing, TaskNext, ThreadStep

\* No step of any process puts a row back into the queue: an orphan is failed and a
\* retry is a new row (claim_pipeline_job, recover_orphaned_jobs).
THEOREM RowsNeverRequeued == Spec => NeverRequeued
<1>1. IInv /\ [Next]_vars =>
        [\A j \in JobIds : status'[j] = "queued" => status[j] \in {"absent", "queued"}]_vars
  BY StatusStep DEF IInv, StatusMoves, Terminal
<1> QED BY Invariance, <1>1, PTL DEF Spec, NeverRequeued

\* The only way out of a final status is the recovery of a starting instance that had
\* read the row as an orphan (the UPDATE of recover_orphaned_jobs has no status guard).
THEOREM OnlyRecoveryLeavesFinal == Spec => OnlyRecoveryRewrites
<1>1. IInv /\ [Next]_vars =>
        [\A j \in JobIds :
          status[j] \in Terminal /\ status'[j] # status[j]
          => /\ status'[j] = "failed"
             /\ \E i \in Instances : phase[i] = "mark" /\ j \in todo[i]]_vars
  BY StatusStep DEF IInv, StatusMoves, Terminal
<1> QED BY Invariance, <1>1, PTL DEF Spec, OnlyRecoveryRewrites

=============================================================================
