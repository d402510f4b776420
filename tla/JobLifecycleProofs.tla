------------------------- MODULE JobLifecycleProofs -------------------------
(***************************************************************************)
(* More about PipelineJobs: what needs an account of where a job waits     *)
(* between its row and its execution.  With one instance every job is in   *)
(* one hand at a time, which carries that it is executed once, that a      *)
(* final status stays and that PipelineJobs implements JobLifecycle.       *)
(* Without store errors, and for any number of instances, no queued job is *)
(* forgotten, and no configuration has more unfinished jobs than requests  *)
(* are handled at a time.                                                  *)
(***************************************************************************)
EXTENDS PipelineJobsProofs, FiniteSetTheorems

\* One process serves the database: what README.md recommends for SQLite.
Sole == \A i, k \in Instances : i = k

\* Where a job is before a pool thread has taken it: in the queue of an executor, in the
\* list a recovery is about to submit, in the hand of the request that inserted it.
InPool(i, j) == \E n \in 1..Len(pool[i]) : pool[i][n] = j
Listed(i, j) == phase[i] = "resubmit" /\ j \in todo[i]
Submitting(c, j) == request[c] = "submit" /\ inserted[c] = j

\* A job that is in one of these places, or taken and not yet claimed.
Waits(j) ==
    \/ \E i \in Instances : InPool(i, j) \/ Listed(i, j) \/ pc[i][j] = "claim"
    \/ \E c \in Clients : Submitting(c, j)

\* Nothing is queued, executed or served by an instance that is down or has not yet
\* listed the queue, and nothing is queued by one that shuts down.
Quiet ==
    /\ \A i \in Instances : phase[i] \in {"down", "mark", "list"}
          => pool[i] = <<>> /\ \A j \in JobIds : pc[i][j] = "none"
    /\ \A i \in Instances : phase[i] = "draining" => pool[i] = <<>>
    /\ \A c \in Clients : request[c] # "idle" => phase[server[c]] = "up"

\* No executor queues a job twice.
QueuedOnce ==
    \A i \in Instances : \A m, n \in 1..Len(pool[i]) : pool[i][m] = pool[i][n] => m = n

\* A job is submitted, listed, queued or executed, and only one of these at a time.
InOneHand ==
    /\ QueuedOnce
    /\ \A i \in Instances, j \in JobIds : InPool(i, j) => pc[i][j] = "none" /\ ~Listed(i, j)
    /\ \A i \in Instances, j \in JobIds : Listed(i, j) => pc[i][j] = "none"
    /\ \A i \in Instances, c \in Clients, j \in JobIds :
          Submitting(c, j) => ~InPool(i, j) /\ pc[i][j] = "none"
    /\ \A c, d \in Clients, j \in JobIds : Submitting(c, j) /\ Submitting(d, j) => c = d

\* A row that nobody has claimed has not been executed, and a job that waits to be claimed
\* is not being executed by its row.
Unstarted ==
    /\ \A j \in JobIds : status[j] \in {"absent", "queued"}
          => executions[j] = 0 /\ \A i \in Instances : pc[i][j] \in {"none", "claim", "except"}
    /\ \A j \in JobIds : Waits(j) => status[j] \notin Executing

\* A thread that finds its row running is the first to execute the job.
RunsOnce ==
    /\ \A j \in JobIds : executions[j] <= 1
    /\ \A i \in Instances, j \in JobIds :
          pc[i][j] = "read" /\ status[j] = "running" => executions[j] = 0

\* The rows a starting instance is about to fail are still unfinished.
Marking == \A i \in Instances : phase[i] = "mark" => \A j \in todo[i] : status[j] \in Executing

\* A request that a task has seen stays visible in the row.
Heard ==
    \A i \in Instances, j \in JobIds :
        seen[i][j] \/ outcome[i][j] = "cancelled"
        => status[j] \in {"cancellation_requested"} \cup Terminal

\* What is inductive with one instance, next to IInv.
SoleInv == Quiet /\ InOneHand /\ Unstarted /\ RunsOnce /\ Marking /\ Heard

-----------------------------------------------------------------------------
(* Queues.                                                                 *)

\* ThreadPoolExecutor.submit puts one job behind those that wait.
LEMMA Appended ==
    ASSUME TypeOK, NEW i \in Instances, NEW j \in JobIds,
           pool' = [pool EXCEPT ![i] = Append(@, j)]
    PROVE  /\ \A k \in Instances, l \in JobIds : InPool(k, l)' <=> InPool(k, l) \/ (k = i /\ l = j)
           /\ QueuedOnce /\ ~InPool(i, j) => QueuedOnce'
<1> DEFINE s == pool[i]
<1>1. s \in Seq(JobIds) /\ Len(s) \in Nat
  BY DEF TypeOK
<1>2. /\ Len(Append(s, j)) = Len(s) + 1
      /\ Append(s, j)[Len(s) + 1] = j
      /\ \A n \in 1..Len(s) : Append(s, j)[n] = s[n]
  BY <1>1
<1>3. pool'[i] = Append(s, j) /\ \A k \in Instances : k # i => pool'[k] = pool[k]
  BY DEF TypeOK
<1> HIDE DEF s
<1>4. ASSUME NEW l \in JobIds PROVE InPool(i, l)' <=> InPool(i, l) \/ l = j
  <2>1. InPool(i, l)' <=> \E n \in 1..(Len(s) + 1) : Append(s, j)[n] = l
    BY <1>2, <1>3 DEF InPool
  <2>2. InPool(i, l) <=> \E n \in 1..Len(s) : s[n] = l
    BY DEF InPool, s
  <2> QED BY <1>1, <1>2, <2>1, <2>2
<1>5. ASSUME NEW k \in Instances, k # i, NEW l \in JobIds PROVE InPool(k, l)' <=> InPool(k, l)
  BY <1>3, <1>5 DEF InPool
<1>6. ASSUME QueuedOnce, ~InPool(i, j) PROVE QueuedOnce'
  <2> SUFFICES ASSUME NEW k \in Instances, NEW m \in 1..Len(pool'[k]), NEW n \in 1..Len(pool'[k]),
                      pool'[k][m] = pool'[k][n]
               PROVE  m = n
    BY DEF QueuedOnce
  <2>1. CASE k # i
    BY <1>3, <1>6, <2>1 DEF QueuedOnce
  <2>2. CASE k = i
    <3>1. m \in 1..(Len(s) + 1) /\ n \in 1..(Len(s) + 1) /\ Append(s, j)[m] = Append(s, j)[n]
      BY <1>2, <1>3, <2>2
    <3>2. \A p, q \in 1..Len(s) : s[p] = s[q] => p = q
      BY <1>6 DEF QueuedOnce, s
    <3>3. \A p \in 1..Len(s) : s[p] # j
      BY <1>6 DEF InPool, s
    <3> QED BY <1>1, <1>2, <3>1, <3>2, <3>3
  <2> QED BY <2>1, <2>2
<1> QED BY <1>4, <1>5, <1>6

\* A pool thread takes the job that waits longest; it waits no longer.
LEMMA Taken ==
    ASSUME TypeOK, QueuedOnce, NEW i \in Instances, pool[i] # <<>>,
           pool' = [pool EXCEPT ![i] = Tail(@)]
    PROVE  /\ Head(pool[i]) \in JobIds /\ InPool(i, Head(pool[i]))
           /\ \A k \in Instances, l \in JobIds :
                InPool(k, l)' <=> InPool(k, l) /\ ~(k = i /\ l = Head(pool[i]))
           /\ QueuedOnce'
<1> DEFINE s == pool[i]
<1>1. s \in Seq(JobIds) /\ Len(s) \in Nat \ {0}
  BY DEF TypeOK
<1>2. /\ Len(Tail(s)) = Len(s) - 1
      /\ \A n \in 1..(Len(s) - 1) : Tail(s)[n] = s[n + 1]
      /\ Head(s) = s[1] /\ s[1] \in JobIds
  BY <1>1
<1>3. pool'[i] = Tail(s) /\ \A k \in Instances : k # i => pool'[k] = pool[k]
  BY DEF TypeOK
<1>4. \A p, q \in 1..Len(s) : s[p] = s[q] => p = q
  BY DEF QueuedOnce
<1> HIDE DEF s
<1>5. ASSUME NEW l \in JobIds PROVE InPool(i, l)' <=> InPool(i, l) /\ l # Head(s)
  <2>1. InPool(i, l)' <=> \E n \in 1..(Len(s) - 1) : Tail(s)[n] = l
    BY <1>2, <1>3 DEF InPool
  <2>2. InPool(i, l) <=> \E n \in 1..Len(s) : s[n] = l
    BY DEF InPool, s
  <2>3. ASSUME NEW n \in 1..(Len(s) - 1), Tail(s)[n] = l
        PROVE  InPool(i, l) /\ l # Head(s)
    <3>1. n + 1 \in 1..Len(s) /\ 1 \in 1..Len(s) /\ n + 1 # 1 /\ s[n + 1] = l
      BY <1>1, <1>2, <2>3
    <3> QED BY <1>2, <1>4, <2>2, <3>1
  <2>4. ASSUME NEW n \in 1..Len(s), s[n] = l, l # Head(s)
        PROVE  \E m \in 1..(Len(s) - 1) : Tail(s)[m] = l
    <3>1. n - 1 \in 1..(Len(s) - 1) /\ Tail(s)[n - 1] = s[n]
      BY <1>1, <1>2, <2>4
    <3> QED BY <3>1, <2>4
  <2> QED BY <2>1, <2>2, <2>3, <2>4
<1>6. ASSUME NEW k \in Instances, k # i, NEW l \in JobIds PROVE InPool(k, l)' <=> InPool(k, l)
  BY <1>3, <1>6 DEF InPool
<1>7. QueuedOnce'
  <2> SUFFICES ASSUME NEW k \in Instances, NEW m \in 1..Len(pool'[k]), NEW n \in 1..Len(pool'[k]),
                      pool'[k][m] = pool'[k][n]
               PROVE  m = n
    BY DEF QueuedOnce
  <2>1. CASE k # i
    BY <1>3, <2>1 DEF QueuedOnce
  <2>2. CASE k = i
    <3>1. m \in 1..(Len(s) - 1) /\ n \in 1..(Len(s) - 1) /\ Tail(s)[m] = Tail(s)[n]
      BY <1>2, <1>3, <2>2
    <3>2. m + 1 \in 1..Len(s) /\ n + 1 \in 1..Len(s) /\ s[m + 1] = s[n + 1]
      BY <1>1, <1>2, <3>1
    <3>3. m + 1 = n + 1
      BY <1>4, <3>2
    <3> QED BY <3>1, <3>3
  <2> QED BY <2>1, <2>2
<1>8. InPool(i, Head(s)) /\ Head(s) \in JobIds
  BY <1>1, <1>2 DEF InPool, s
<1> QED BY <1>5, <1>6, <1>7, <1>8 DEF s

\* Nothing waits in an empty queue.
LEMMA EmptyQueue == ASSUME NEW i \in Instances, NEW j \in JobIds, pool[i] = <<>> PROVE ~InPool(i, j)
  BY DEF InPool

-----------------------------------------------------------------------------
(* Which actions write what.                                               *)

\* The statements that write a row's status, configuration or cancellation time.
LEMMA RowWriters ==
    [Next]_vars =>
      \/ UNCHANGED <<status, payload, cancelledAt>>
      \/ \E i \in Instances : MarkOrphans(i)
      \/ \E c \in Clients : CreateJob(c)
      \/ \E j \in JobIds : CancelRequest(j)
      \/ \E i \in Instances, j \in JobIds : Claim(i, j) \/ Finish(i, j) \/ FailOnException(i, j)
<1> SUFFICES ASSUME [Next]_vars
             PROVE  \/ UNCHANGED <<status, payload, cancelledAt>>
                    \/ \E i \in Instances : MarkOrphans(i)
                    \/ \E c \in Clients : CreateJob(c)
                    \/ \E j \in JobIds : CancelRequest(j)
                    \/ \E i \in Instances, j \in JobIds :
                         Claim(i, j) \/ Finish(i, j) \/ FailOnException(i, j)
  OBVIOUS
<1>1. ASSUME NEW i \in Instances,
             Start(i) \/ ListQueued(i) \/ Resubmit(i) \/ Serve(i) \/ RecoveryFails(i)
               \/ Shutdown(i) \/ Exit(i) \/ Crash(i) \/ Take(i)
      PROVE  UNCHANGED <<status, payload, cancelledAt>>
  BY <1>1 DEF Start, ListQueued, Resubmit, Serve, RecoveryFails, Shutdown, Exit, Crash, Take,
              jobVars, runVars
<1>2. ASSUME NEW c \in Clients, NEW i \in Instances,
             \/ \E body \in Payloads : RunRequest(c, i, body) \/ SyncRun(c, i, body)
             \/ \E j \in JobIds : RetryRequest(c, i, j)
      PROVE  UNCHANGED <<status, payload, cancelledAt>>
  BY <1>2 DEF RunRequest, SyncRun, RetryRequest, jobVars, runVars
<1>3. ASSUME NEW c \in Clients, CheckActive(c) \/ Submit(c) \/ SyncEnd(c)
      PROVE  UNCHANGED <<status, payload, cancelledAt>>
  BY <1>3 DEF CheckActive, Submit, SyncEnd, jobVars, runVars
<1>4. ASSUME NEW i \in Instances, NEW j \in JobIds,
             ReadClaim(i, j) \/ TakeLock(i, j) \/ LockRefused(i, j) \/ Heartbeat(i, j)
               \/ RecordRun(i, j) \/ ReadCurrent(i, j) \/ ReadCancel(i, j)
               \/ PipelineEnds(i, j) \/ Raise(i, j) \/ HandlerFails(i, j)
      PROVE  UNCHANGED <<status, payload, cancelledAt>>
  BY <1>4 DEF ReadClaim, TakeLock, LockRefused, Heartbeat, RecordRun, ReadCurrent, ReadCancel,
              PipelineEnds, Raise, HandlerFails, jobVars, runVars
<1>5. ASSUME NEW j \in JobIds, HeartbeatExpires(j) PROVE UNCHANGED <<status, payload, cancelledAt>>
  BY <1>5 DEF HeartbeatExpires
<1>6. CASE UNCHANGED vars
  BY <1>6 DEF vars, jobVars, runVars
<1> QED
  BY <1>1, <1>2, <1>3, <1>4, <1>5, <1>6
  DEF Next, InstanceNext, Recovery, ClientNext, Queueing, TaskNext, ThreadStep

\* A pool thread moves in its own task and leaves the queues and requests alone.
LEMMA TaskFrame ==
    ASSUME TypeOK, NEW i \in Instances, NEW j \in JobIds, TaskNext(i, j)
    PROVE  /\ pc[i][j] # "none"
           /\ \A k \in Instances, l \in JobIds :
                (k # i \/ l # j) => /\ pc'[k][l] = pc[k][l]
                                    /\ seen'[k][l] = seen[k][l]
                                    /\ outcome'[k][l] = outcome[k][l]
           /\ \A l \in JobIds : l # j => status'[l] = status[l]
           /\ \A l \in JobIds : (l # j \/ pc[i][j] # "read") => executions'[l] = executions[l]
           /\ UNCHANGED <<pool, phase, todo, starts, request, server, wanted, inserted>>
<1> USE DEF TypeOK, jobVars, runVars, instanceVars, requestVars
<1>1. CASE Claim(i, j)
  BY <1>1 DEF Claim, At
<1>2. CASE ReadClaim(i, j)
  BY <1>2 DEF ReadClaim, At, Leave
<1>3. CASE TakeLock(i, j)
  BY <1>3 DEF TakeLock, At
<1>4. CASE LockRefused(i, j)
  BY <1>4 DEF LockRefused, At
<1>5. CASE Heartbeat(i, j)
  BY <1>5 DEF Heartbeat, At
<1>6. CASE RecordRun(i, j)
  BY <1>6 DEF RecordRun, At
<1>7. CASE ReadCurrent(i, j)
  BY <1>7 DEF ReadCurrent, At
<1>8. CASE Finish(i, j)
  BY <1>8 DEF Finish, At, Leave, Settle
<1>9. CASE FailOnException(i, j)
  BY <1>9 DEF FailOnException, At, Leave, Settle
<1>10. CASE ReadCancel(i, j)
  BY <1>10 DEF ReadCancel, At
<1>11. CASE PipelineEnds(i, j)
  BY <1>11 DEF PipelineEnds, At
<1>12. CASE Raise(i, j)
  BY <1>12 DEF Raise, At
<1>13. CASE HandlerFails(i, j)
  BY <1>13 DEF HandlerFails, At, Leave
<1> QED
  BY <1>1, <1>2, <1>3, <1>4, <1>5, <1>6, <1>7, <1>8, <1>9, <1>10, <1>11, <1>12, <1>13
  DEF TaskNext, ThreadStep

-----------------------------------------------------------------------------
(* One instance: every conjunct is kept by every action.                   *)

\* A step keeps Quiet, with any number of instances.
LEMMA QuietStep == TypeOK /\ Progress /\ Quiet /\ [Next]_vars => Quiet'
<1> SUFFICES ASSUME TypeOK, Progress, Quiet, [Next]_vars PROVE Quiet'
  OBVIOUS
<1> USE DEF Quiet, Progress, TypeOK, jobVars, runVars, instanceVars, taskVars, requestVars
<1>1. ASSUME NEW i \in Instances, Start(i) PROVE Quiet'
  BY <1>1 DEF Start
<1>2. ASSUME NEW i \in Instances, Recovery(i) PROVE Quiet'
  BY <1>2 DEF Recovery, MarkOrphans, ListQueued, Resubmit, Serve
<1>3. ASSUME NEW i \in Instances, RecoveryFails(i) PROVE Quiet'
  BY <1>3 DEF RecoveryFails
<1>4. ASSUME NEW i \in Instances, Shutdown(i) PROVE Quiet'
  BY <1>4 DEF Shutdown
<1>5. ASSUME NEW i \in Instances, Exit(i) PROVE Quiet'
  BY <1>5 DEF Exit, Busy
<1>6. ASSUME NEW i \in Instances, Crash(i) PROVE Quiet'
  BY <1>6 DEF Crash
<1>7. ASSUME NEW i \in Instances, Take(i) PROVE Quiet'
  BY <1>7 DEF Take, At
<1>8. ASSUME NEW c \in Clients, NEW i \in Instances, NEW body \in Payloads,
             RunRequest(c, i, body) \/ SyncRun(c, i, body)
      PROVE  Quiet'
  <2>1. /\ phase[i] = "up" /\ UNCHANGED <<phase, pool, pc>>
        /\ \A d \in Clients : d # c => request'[d] = request[d] /\ server'[d] = server[d]
        /\ server'[c] = i
    BY <1>8 DEF RunRequest, SyncRun, Arrive
  <2> QED BY <2>1
<1>9. ASSUME NEW c \in Clients, NEW i \in Instances, NEW j \in JobIds, RetryRequest(c, i, j)
      PROVE  Quiet'
  BY <1>9 DEF RetryRequest, Arrive
<1>10. ASSUME NEW c \in Clients, CheckActive(c) \/ CreateJob(c) \/ SyncEnd(c) PROVE Quiet'
  BY <1>10 DEF CheckActive, CreateJob, SyncEnd, Answer
<1>11. ASSUME NEW c \in Clients, Submit(c) PROVE Quiet'
  BY <1>11 DEF Submit, Answer
<1>12. ASSUME NEW j \in JobIds, CancelRequest(j) \/ HeartbeatExpires(j) PROVE Quiet'
  BY <1>12 DEF CancelRequest, HeartbeatExpires
<1>13. ASSUME NEW i \in Instances, NEW j \in JobIds, TaskNext(i, j) PROVE Quiet'
  <2>1. /\ pc[i][j] # "none" /\ UNCHANGED <<pool, phase, request, server>>
        /\ \A k \in Instances, l \in JobIds : (k # i \/ l # j) => pc'[k][l] = pc[k][l]
    BY <1>13, TaskFrame
  <2>2. phase[i] \notin {"down", "mark", "list"}
    BY <2>1
  <2>3. ASSUME NEW k \in Instances, phase[k] \in {"down", "mark", "list"}
        PROVE  pool[k] = <<>> /\ \A l \in JobIds : pc'[k][l] = "none"
    <3>1. k # i /\ pool[k] = <<>> /\ \A l \in JobIds : pc[k][l] = "none"
      BY <2>2, <2>3
    <3> QED BY <2>1, <3>1
  <2> QED BY <2>1, <2>3
<1>14. CASE UNCHANGED vars
  BY <1>14 DEF vars
<1> QED
  BY <1>1, <1>2, <1>3, <1>4, <1>5, <1>6, <1>7, <1>8, <1>9, <1>10, <1>11, <1>12, <1>13, <1>14
  DEF Next, InstanceNext, ClientNext, Queueing

\* A step keeps InOneHand: a job is handed on, never copied.
LEMMA InOneHandStep ==
    ASSUME Sole, TypeOK, Progress, Known, Quiet, InOneHand, [Next]_vars
    PROVE  InOneHand'
<1> USE DEF Sole, TypeOK, jobVars, runVars, instanceVars, taskVars, requestVars
<1> DEFINE Handed(i, j) == pc[i][j] # "none" \/ Listed(i, j)
<1>a. ASSUME pool' = pool
      PROVE  /\ \A k \in Instances, l \in JobIds : InPool(k, l)' <=> InPool(k, l)
             /\ QueuedOnce'
  BY <1>a DEF InPool, QueuedOnce, InOneHand
<1>b. ASSUME pool' = pool, UNCHANGED <<request, inserted>>,
             \A k \in Instances, l \in JobIds :
               /\ pc'[k][l] # "none" => pc[k][l] # "none"
               /\ Listed(k, l)' => Listed(k, l)
      PROVE  InOneHand'
  BY <1>a, <1>b DEF InOneHand, Submitting
<1>c. ASSUME NEW c \in Clients, pool' = pool, UNCHANGED <<pc, phase, todo>>,
             request'[c] # "submit",
             \A d \in Clients : d # c => request'[d] = request[d] /\ inserted'[d] = inserted[d]
      PROVE  InOneHand'
  <2>1. \A d \in Clients, l \in JobIds : Submitting(d, l)' => Submitting(d, l)
    BY <1>c DEF Submitting
  <2>2. \A k \in Instances, l \in JobIds : Listed(k, l)' <=> Listed(k, l)
    BY <1>c DEF Listed
  <2> QED BY <1>a, <1>c, <2>1, <2>2 DEF InOneHand
<1>1. ASSUME NEW i \in Instances, Start(i) \/ Serve(i) PROVE InOneHand'
  BY <1>1, <1>b DEF Start, Serve, Listed
<1>2. ASSUME NEW i \in Instances, MarkOrphans(i) \/ RecoveryFails(i) \/ Exit(i) PROVE InOneHand'
  BY <1>2, <1>b DEF MarkOrphans, RecoveryFails, Exit, Listed
<1>3. ASSUME NEW i \in Instances, ListQueued(i) PROVE InOneHand'
  <2>1. /\ \A j \in JobIds : ~InPool(i, j) /\ pc[i][j] = "none"
        /\ UNCHANGED <<pool, pc, request, inserted>>
    BY <1>3, EmptyQueue DEF ListQueued, Quiet
  <2> QED BY <1>a, <2>1 DEF InOneHand, Submitting
<1>4. ASSUME NEW i \in Instances, Resubmit(i) PROVE InOneHand'
  <2>1. PICK j \in todo[i] : /\ pool' = [pool EXCEPT ![i] = Append(@, j)]
                             /\ todo' = [todo EXCEPT ![i] = @ \ {j}]
    BY <1>4 DEF Resubmit
  <2>2. j \in JobIds /\ Listed(i, j) /\ UNCHANGED <<phase, pc, request, inserted>>
    BY <1>4 DEF Resubmit, Listed
  <2>3. ~InPool(i, j) /\ pc[i][j] = "none" /\ \A c \in Clients : ~Submitting(c, j)
    <3>1. ~InPool(i, j) /\ pc[i][j] = "none"
      BY <2>2 DEF InOneHand
    <3>2. \A c \in Clients : request[c] = "idle"
      BY <2>2 DEF Quiet, Progress, Listed
    <3> QED BY <3>1, <3>2 DEF Submitting
  <2>4. /\ \A k \in Instances, l \in JobIds :
             InPool(k, l)' <=> InPool(k, l) \/ (k = i /\ l = j)
        /\ QueuedOnce'
    BY <2>1, <2>2, <2>3, Appended DEF InOneHand
  <2>5. \A k \in Instances, l \in JobIds : Listed(k, l)' => Listed(k, l) /\ l # j
    BY <2>1, <2>2 DEF Listed
  <2> QED BY <2>2, <2>3, <2>4, <2>5 DEF InOneHand, Submitting
<1>5. ASSUME NEW i \in Instances, Shutdown(i) \/ Crash(i) PROVE InOneHand'
  <2>1. pool'[i] = <<>> /\ phase'[i] # "resubmit"
        /\ \A j \in JobIds : pc'[i][j] # "none" => pc[i][j] # "none"
    BY <1>5 DEF Shutdown, Crash
  <2>2. \A c \in Clients : request'[c] = "submit" =>
           request[c] = "submit" /\ inserted'[c] = inserted[c]
    BY <1>5 DEF Shutdown, Crash
  <2>3. QueuedOnce' /\ \A j \in JobIds : ~InPool(i, j)' /\ ~Listed(i, j)'
    BY <2>1 DEF QueuedOnce, InPool, Listed
  <2> QED BY <2>1, <2>2, <2>3 DEF InOneHand, Submitting
<1>6. ASSUME NEW i \in Instances, Take(i) PROVE InOneHand'
  <2> DEFINE h == Head(pool[i])
  <2>1. /\ h \in JobIds /\ InPool(i, h)
        /\ \A k \in Instances, l \in JobIds :
             InPool(k, l)' <=> InPool(k, l) /\ ~(k = i /\ l = h)
        /\ QueuedOnce'
    BY <1>6, Taken DEF Take, InOneHand
  <2>2. /\ pc' = [pc EXCEPT ![i][h] = "claim"]
        /\ UNCHANGED <<phase, todo, request, inserted>>
    BY <1>6 DEF Take, At
  <2> HIDE DEF h
  <2>3. ~Listed(i, h) /\ \A c \in Clients : ~Submitting(c, h)
    BY <2>1 DEF InOneHand
  <2> QED BY <2>1, <2>2, <2>3 DEF InOneHand, Listed, Submitting
<1>7. ASSUME NEW c \in Clients, NEW i \in Instances, NEW body \in Payloads,
             RunRequest(c, i, body) \/ SyncRun(c, i, body)
      PROVE  InOneHand'
  BY <1>7, <1>c DEF RunRequest, SyncRun, Arrive
<1>8. ASSUME NEW c \in Clients, NEW i \in Instances, NEW j \in JobIds, RetryRequest(c, i, j)
      PROVE  InOneHand'
  BY <1>8, <1>c DEF RetryRequest, Arrive
<1>9. ASSUME NEW c \in Clients, CheckActive(c) \/ SyncEnd(c) PROVE InOneHand'
  BY <1>9, <1>c DEF CheckActive, SyncEnd, Answer
<1>10. ASSUME NEW c \in Clients, CreateJob(c) PROVE InOneHand'
  <2>1. PICK j \in JobIds : ~Exists(j) /\ inserted' = [inserted EXCEPT ![c] = j]
    BY <1>10 DEF CreateJob
  <2>2. request' = [request EXCEPT ![c] = "submit"] /\ UNCHANGED <<pool, pc, phase, todo>>
    BY <1>10 DEF CreateJob
  <2>3. \A i \in Instances : ~InPool(i, j) /\ pc[i][j] = "none"
    BY <2>1 DEF Known, InPool
  <2>4. \A d \in Clients : ~Submitting(d, j)
    BY <2>1 DEF Known, Submitting
  <2>5. /\ \A l \in JobIds : Submitting(c, l)' <=> l = j
        /\ \A d \in Clients, l \in JobIds : d # c => (Submitting(d, l)' <=> Submitting(d, l))
    BY <2>1, <2>2 DEF Submitting
  <2>6. \A i \in Instances, l \in JobIds : Listed(i, l)' <=> Listed(i, l)
    BY <2>2 DEF Listed
  <2>7. QueuedOnce' /\ \A i \in Instances, l \in JobIds : InPool(i, l)' <=> InPool(i, l)
    BY <1>a, <2>2
  <2>8. \A i \in Instances, d \in Clients, l \in JobIds :
          Submitting(d, l)' => ~InPool(i, l) /\ pc[i][l] = "none"
    BY <2>3, <2>5 DEF InOneHand
  <2>9. \A d, e \in Clients, l \in JobIds : Submitting(d, l)' /\ Submitting(e, l)' => d = e
    <3> SUFFICES ASSUME NEW d \in Clients, NEW e \in Clients, NEW l \in JobIds,
                        Submitting(d, l)', Submitting(e, l)', d # e
                 PROVE  FALSE
      OBVIOUS
    <3>1. CASE l = j
      <4>1. d = c
        BY <2>4, <2>5, <3>1
      <4>2. e = c
        BY <2>4, <2>5, <3>1
      <4> QED BY <4>1, <4>2
    <3>2. CASE l # j
      <4>1. Submitting(d, l) /\ Submitting(e, l)
        BY <2>5, <3>2
      <4> QED BY <4>1 DEF InOneHand
    <3> QED BY <3>1, <3>2
  <2> QED BY <2>2, <2>6, <2>7, <2>8, <2>9 DEF InOneHand
<1>11. ASSUME NEW c \in Clients, Submit(c) PROVE InOneHand'
  <2> DEFINE i == server[c]
             j == inserted[c]
  <2>1. i \in Instances /\ j \in JobIds /\ Submitting(c, j) /\ phase[i] = "up"
    BY <1>11 DEF Submit, Progress, Quiet, Submitting
  <2>2. /\ pool' = [pool EXCEPT ![i] = Append(@, j)]
        /\ request' = [request EXCEPT ![c] = "idle"]
        /\ \A d \in Clients : d # c => inserted'[d] = inserted[d]
        /\ UNCHANGED <<pc, phase, todo>>
    BY <1>11 DEF Submit, Answer
  <2> HIDE DEF i, j
  <2>3. ~InPool(i, j) /\ pc[i][j] = "none" /\ ~Listed(i, j)
    BY <2>1 DEF InOneHand, Listed
  <2>4. /\ \A k \in Instances, l \in JobIds :
             InPool(k, l)' <=> InPool(k, l) \/ (k = i /\ l = j)
        /\ QueuedOnce'
    BY <2>1, <2>2, <2>3, Appended DEF InOneHand
  <2>5. \A d \in Clients, l \in JobIds : Submitting(d, l)' => d # c /\ Submitting(d, l) /\ l # j
    BY <2>1, <2>2 DEF Submitting, InOneHand
  <2>6. \A k \in Instances, l \in JobIds : Listed(k, l)' <=> Listed(k, l)
    BY <2>2 DEF Listed
  <2> QED BY <2>1, <2>2, <2>3, <2>4, <2>5, <2>6 DEF InOneHand
<1>12. ASSUME NEW j \in JobIds, CancelRequest(j) \/ HeartbeatExpires(j) PROVE InOneHand'
  BY <1>12, <1>b DEF CancelRequest, HeartbeatExpires, Listed
<1>13. ASSUME NEW i \in Instances, NEW j \in JobIds, TaskNext(i, j) PROVE InOneHand'
  <2>1. /\ pc[i][j] # "none" /\ UNCHANGED <<pool, phase, todo, request, inserted>>
        /\ \A k \in Instances, l \in JobIds : (k # i \/ l # j) => pc'[k][l] = pc[k][l]
    BY <1>13, TaskFrame
  <2> QED BY <1>b, <2>1 DEF Listed
<1>14. CASE UNCHANGED vars
  BY <1>14, <1>b DEF vars, Listed
<1> QED
  BY <1>1, <1>2, <1>3, <1>4, <1>5, <1>6, <1>7, <1>8, <1>9, <1>10, <1>11, <1>12, <1>13, <1>14
  DEF Next, InstanceNext, Recovery, ClientNext, Queueing


\* With one instance, what is true of one task is true of every task of its job.
LEMMA StartedStep ==
    ASSUME Sole, TypeOK, Progress, Known, InOneHand, Unstarted, [Next]_vars
    PROVE  \A n \in JobIds : status'[n] \in {"absent", "queued"}
             => executions'[n] = 0 /\ \A i \in Instances : pc'[i][n] \in {"none", "claim", "except"}
<1> SUFFICES ASSUME NEW n \in JobIds, status'[n] \in {"absent", "queued"}
             PROVE  executions'[n] = 0 /\ \A i \in Instances : pc'[i][n] \in {"none", "claim", "except"}
  OBVIOUS
<1> USE DEF runVars
<1>0. /\ status[n] \in {"absent", "queued"}
      /\ executions[n] = 0 /\ \A i \in Instances : pc[i][n] \in {"none", "claim", "except"}
  <2>1. StatusMoves(n)
    BY StatusStep
  <2> QED BY <2>1 DEF StatusMoves, Terminal, Unstarted
<1>1. CASE UNCHANGED <<executions, pc>>
  BY <1>0, <1>1
<1>2. ASSUME NEW i \in Instances, Crash(i) PROVE UNCHANGED executions /\ \A k \in Instances : pc'[k][n] \in {"none", pc[k][n]}
  BY <1>2 DEF Crash, TypeOK
<1>3. ASSUME NEW i \in Instances, Take(i) PROVE UNCHANGED executions /\ \A k \in Instances : pc'[k][n] \in {"claim", pc[k][n]}
  BY <1>3 DEF Take, At, TypeOK
<1>4. ASSUME NEW i \in Instances, NEW j \in JobIds, TaskNext(i, j)
      PROVE  executions'[n] = 0 /\ \A k \in Instances : pc'[k][n] \in {"none", "claim", "except"}
  <2>1. /\ \A k \in Instances, l \in JobIds : (k # i \/ l # j) => pc'[k][l] = pc[k][l]
        /\ \A l \in JobIds : (l # j \/ pc[i][j] # "read") => executions'[l] = executions[l]
    BY <1>4, TaskFrame
  <2>2. CASE n # j
    BY <1>0, <2>1, <2>2
  <2>3. CASE n = j
    <3>1. pc[i][n] \in {"claim", "except"} /\ executions'[n] = 0
      BY <1>0, <1>4, <2>1, <2>3, TaskFrame
    <3>2. pc'[i][n] \in {"none", "except"}
      <4>1. ~Claim(i, n)
        BY <1>0, <3>1 DEF Claim, Known, Exists, TypeOK
      <4>2. Raise(i, n) \/ FailOnException(i, n) \/ HandlerFails(i, n)
        BY <1>4, <2>3, <3>1, <4>1
        DEF TaskNext, ThreadStep, ReadClaim, TakeLock, LockRefused, Heartbeat, RecordRun,
            ReadCurrent, Finish, ReadCancel, PipelineEnds
      <4> QED BY <4>2 DEF Raise, FailOnException, HandlerFails, Leave, At, TypeOK
    <3> QED BY <1>0, <2>1, <2>3, <3>1, <3>2
  <2> QED BY <2>2, <2>3
<1>5. ASSUME NEW i \in Instances, Start(i) \/ Recovery(i) \/ RecoveryFails(i) \/ Shutdown(i) \/ Exit(i)
      PROVE  UNCHANGED <<executions, pc>>
  BY <1>5 DEF Start, Recovery, MarkOrphans, ListQueued, Resubmit, Serve, RecoveryFails, Shutdown,
              Exit, taskVars
<1>6. ASSUME NEW c \in Clients, ClientNext(c) PROVE UNCHANGED <<executions, pc>>
  BY <1>6 DEF ClientNext, Queueing, CheckActive, CreateJob, Submit, SyncEnd, RunRequest, SyncRun,
              RetryRequest, taskVars
<1>7. ASSUME NEW j \in JobIds, CancelRequest(j) \/ HeartbeatExpires(j) PROVE UNCHANGED <<executions, pc>>
  BY <1>7 DEF CancelRequest, HeartbeatExpires, taskVars
<1>8. CASE UNCHANGED vars
  BY <1>1, <1>8 DEF vars, jobVars, runVars, instanceVars, taskVars, requestVars
<1> QED
  BY <1>0, <1>1, <1>2, <1>3, <1>4, <1>5, <1>6, <1>7, <1>8 DEF Next, InstanceNext


\* A job that begins to wait is a queued one: a row that was just inserted, or that a
\* starting instance has just listed.
LEMMA WaitsStep ==
    ASSUME TypeOK, Progress, InOneHand, [Next]_vars, NEW n \in JobIds, Waits(n)'
    PROVE  Waits(n) \/ status'[n] = "queued"
<1> USE DEF TypeOK, jobVars, runVars, instanceVars, taskVars, requestVars
<1> SUFFICES ASSUME ~Waits(n) PROVE status'[n] = "queued"
  OBVIOUS
<1>0. /\ \A k \in Instances : ~InPool(k, n) /\ ~Listed(k, n) /\ pc[k][n] # "claim"
      /\ \A c \in Clients : ~Submitting(c, n)
  BY DEF Waits
<1>a. ASSUME pool' = pool, \A k \in Instances : pc'[k][n] # "claim" /\ ~Listed(k, n)',
             \A c \in Clients : ~Submitting(c, n)'
      PROVE  FALSE
  BY <1>0, <1>a DEF Waits, InPool
<1>1. ASSUME NEW i \in Instances, Start(i) \/ MarkOrphans(i) \/ Serve(i) \/ RecoveryFails(i) \/ Exit(i)
      PROVE  FALSE
  BY <1>1, <1>0, <1>a
  DEF Start, MarkOrphans, Serve, RecoveryFails, Exit, Listed, Submitting
<1>2. ASSUME NEW i \in Instances, ListQueued(i) PROVE status'[n] = "queued"
  BY <1>2, <1>0, <1>a DEF ListQueued, Listed, Submitting
<1>3. ASSUME NEW i \in Instances, Resubmit(i) PROVE FALSE
  <2>1. PICK j \in todo[i] : /\ pool' = [pool EXCEPT ![i] = Append(@, j)]
                             /\ todo' = [todo EXCEPT ![i] = @ \ {j}]
    BY <1>3 DEF Resubmit
  <2>2. j \in JobIds /\ j # n /\ UNCHANGED <<phase, pc, request, inserted>>
    BY <1>0, <1>3 DEF Resubmit, Listed
  <2>a. \A k \in Instances, l \in JobIds : InPool(k, l)' <=> InPool(k, l) \/ (k = i /\ l = j)
    BY <2>1, <2>2, Appended
  <2>3. \A k \in Instances : ~InPool(k, n)'
    BY <1>0, <2>2, <2>a
  <2>4. \A k \in Instances : ~Listed(k, n)'
    BY <1>0, <2>1, <2>2 DEF Listed
  <2> QED BY <1>0, <2>2, <2>3, <2>4 DEF Waits, Submitting
<1>4. ASSUME NEW i \in Instances, Shutdown(i) \/ Crash(i) PROVE FALSE
  <2>1. \A k \in Instances : (k # i => pool'[k] = pool[k]) /\ pool'[i] = <<>>
    BY <1>4 DEF Shutdown, Crash
  <2>a. \A k \in Instances : Listed(k, n)' => Listed(k, n)
    BY <1>4 DEF Shutdown, Crash, Listed
  <2>2. \A k \in Instances : pc'[k][n] # "claim"
    <3>1. CASE Shutdown(i)
      BY <1>0, <3>1 DEF Shutdown
    <3>2. CASE Crash(i)
      <4>1. pc' = [pc EXCEPT ![i] = [j \in JobIds |-> "none"]]
        BY <3>2 DEF Crash
      <4> QED BY <1>0, <4>1
    <3> QED BY <1>4, <3>1, <3>2
  <2>3. \A c \in Clients : ~Submitting(c, n)'
    BY <1>4, <1>0, ConstantsAssumption DEF Shutdown, Crash, Submitting
  <2>4. ASSUME NEW k \in Instances PROVE ~InPool(k, n)'
    <3>1. CASE k = i
      BY <2>1, <3>1 DEF InPool
    <3>2. CASE k # i
      BY <1>0, <2>1, <3>2 DEF InPool
    <3> QED BY <3>1, <3>2
  <2> QED BY <1>0, <2>a, <2>2, <2>3, <2>4 DEF Waits
<1>5. ASSUME NEW i \in Instances, Take(i) PROVE FALSE
  <2>1. /\ InPool(i, Head(pool[i]))
        /\ \A k \in Instances : InPool(k, n)' => InPool(k, n)
    BY <1>5, Taken DEF Take, InOneHand
  <2>2. /\ pc' = [pc EXCEPT ![i][Head(pool[i])] = "claim"]
        /\ UNCHANGED <<phase, todo, request, inserted>>
    BY <1>5 DEF Take, At
  <2> QED BY <1>0, <2>1, <2>2 DEF Waits, Listed, Submitting
<1>6. ASSUME NEW c \in Clients, CheckActive(c) \/ SyncEnd(c) PROVE FALSE
  BY <1>6, <1>0, <1>a DEF CheckActive, SyncEnd, Answer, Listed, Submitting
<1>7. ASSUME NEW c \in Clients, NEW i \in Instances, NEW body \in Payloads,
             RunRequest(c, i, body) \/ SyncRun(c, i, body)
      PROVE  FALSE
  BY <1>7, <1>0, <1>a DEF RunRequest, SyncRun, Arrive, Listed, Submitting
<1>8. ASSUME NEW c \in Clients, NEW i \in Instances, NEW j \in JobIds, RetryRequest(c, i, j)
      PROVE  FALSE
  BY <1>8, <1>0, <1>a DEF RetryRequest, Arrive, Listed, Submitting
<1>9. ASSUME NEW c \in Clients, CreateJob(c) PROVE status'[n] = "queued"
  BY <1>9, <1>0, <1>a DEF CreateJob, Listed, Submitting
<1>10. ASSUME NEW c \in Clients, Submit(c) PROVE FALSE
  <2>1. /\ server[c] \in Instances /\ inserted[c] \in JobIds /\ inserted[c] # n
    BY <1>10, <1>0 DEF Submit, Progress, Submitting
  <2>a. \A k \in Instances, l \in JobIds :
          InPool(k, l)' <=> InPool(k, l) \/ (k = server[c] /\ l = inserted[c])
    <3>1. pool' = [pool EXCEPT ![server[c]] = Append(@, inserted[c])]
      BY <1>10 DEF Submit
    <3> QED BY <2>1, <3>1, Appended
  <2>2. \A k \in Instances : ~InPool(k, n)'
    BY <1>0, <2>1, <2>a
  <2>3. \A d \in Clients : ~Submitting(d, n)'
    BY <1>0, <1>10, ConstantsAssumption DEF Submit, Answer, Submitting
  <2>4. \A k \in Instances : ~Listed(k, n)' /\ pc'[k][n] # "claim"
    BY <1>0, <1>10 DEF Submit, Listed
  <2> QED BY <2>2, <2>3, <2>4 DEF Waits
<1>11. ASSUME NEW j \in JobIds, CancelRequest(j) \/ HeartbeatExpires(j) PROVE FALSE
  BY <1>11, <1>0, <1>a DEF CancelRequest, HeartbeatExpires, Listed, Submitting
<1>12. ASSUME NEW i \in Instances, NEW j \in JobIds, TaskNext(i, j) PROVE FALSE
  <2>1. /\ UNCHANGED <<pool, phase, todo, request, inserted>>
        /\ \A k \in Instances, l \in JobIds : (k # i \/ l # j) => pc'[k][l] = pc[k][l]
    BY <1>12, TaskFrame
  <2>2. pc'[i][j] # "claim"
    BY <1>12
    DEF TaskNext, ThreadStep, Claim, ReadClaim, TakeLock, LockRefused, Heartbeat, RecordRun,
        ReadCurrent, Finish, FailOnException, ReadCancel, PipelineEnds, Raise, HandlerFails,
        Leave, At
  <2> QED BY <1>0, <1>a, <2>1, <2>2 DEF Listed, Submitting
<1>13. CASE UNCHANGED vars
  BY <1>13, <1>0, <1>a DEF vars, Listed, Submitting
<1> QED
  BY <1>1, <1>2, <1>3, <1>4, <1>5, <1>6, <1>7, <1>8, <1>9, <1>10, <1>11, <1>12, <1>13
  DEF Next, InstanceNext, Recovery, ClientNext, Queueing

\* Only the claim of claim_pipeline_job makes a row that of a running job.
LEMMA OnlyClaimStarts ==
    ASSUME TypeOK, Progress, [Next]_vars, NEW n \in JobIds, status'[n] \in Executing
    PROVE  \/ status'[n] = status[n]
           \/ status[n] = "running" /\ status'[n] = "cancellation_requested"
           \/ /\ status[n] = "queued" /\ status'[n] = "running"
              /\ \E i \in Instances : Claim(i, n) /\ pc'[i][n] = "read"
<1> USE DEF TypeOK, Executing
<1>1. CASE UNCHANGED <<status, payload, cancelledAt>>
  BY <1>1
<1>2. ASSUME NEW i \in Instances, MarkOrphans(i) PROVE status'[n] = status[n]
  BY <1>2 DEF MarkOrphans
<1>3. ASSUME NEW c \in Clients, CreateJob(c) PROVE status'[n] = status[n]
  BY <1>3 DEF CreateJob
<1>4. ASSUME NEW j \in JobIds, CancelRequest(j)
      PROVE  \/ status'[n] = status[n]
             \/ status[n] = "running" /\ status'[n] = "cancellation_requested"
  <2>1. CASE j # n
    BY <1>4, <2>1 DEF CancelRequest
  <2>2. CASE j = n
    BY <1>4, <2>2 DEF CancelRequest
  <2> QED BY <2>1, <2>2
<1>5. ASSUME NEW i \in Instances, NEW j \in JobIds, Claim(i, j)
      PROVE  \/ status'[n] = status[n]
             \/ status[n] = "queued" /\ status'[n] = "running" /\ Claim(i, n) /\ pc'[i][n] = "read"
  <2>1. CASE j # n
    BY <1>5, <2>1 DEF Claim
  <2>2. CASE j = n
    <3>1. \/ status'[n] = status[n]
          \/ status[n] = "queued" /\ status'[n] = "running"
      BY <1>5, <2>2 DEF Claim
    <3>2. pc'[i][n] = "read"
      BY <1>5, <2>2 DEF Claim, At
    <3> QED BY <1>5, <2>2, <3>1, <3>2
  <2> QED BY <2>1, <2>2
<1>6. ASSUME NEW i \in Instances, NEW j \in JobIds, Finish(i, j) \/ FailOnException(i, j)
      PROVE  status'[n] = status[n]
  BY <1>6 DEF Finish, FailOnException, Settle, Progress, Terminal
<1> QED BY <1>1, <1>2, <1>3, <1>4, <1>5, <1>6, RowWriters

\* A step keeps Unstarted.
LEMMA UnstartedStep ==
    ASSUME Sole, TypeOK, Progress, Known, InOneHand, InOneHand', Unstarted, [Next]_vars
    PROVE  Unstarted'
<1>1. ASSUME NEW n \in JobIds, Waits(n)', status'[n] \in Executing PROVE FALSE
  <2>1. Waits(n)
    BY <1>1, WaitsStep DEF Executing
  <2>2. status[n] \notin Executing
    BY <2>1 DEF Unstarted
  <2>3. PICK i \in Instances : pc'[i][n] = "read"
    BY <1>1, <2>2, OnlyClaimStarts DEF Executing
  <2>4. \A k \in Instances : k = i
    BY DEF Sole
  <2> QED BY <1>1, <2>3, <2>4 DEF Waits, InOneHand
<1> QED BY <1>1, StartedStep DEF Unstarted


\* A step keeps RunsOnce: a job is claimed before it is executed, and by one thread.
LEMMA RunsOnceStep ==
    ASSUME Sole, TypeOK, Progress, InOneHand, Unstarted, RunsOnce, [Next]_vars
    PROVE  RunsOnce'
<1> USE DEF runVars
<1>a. ASSUME UNCHANGED executions,
             \A k \in Instances, l \in JobIds : pc'[k][l] \in {"none", "claim", pc[k][l]}
      PROVE  RunsOnce'
  <2> SUFFICES ASSUME NEW k \in Instances, NEW l \in JobIds,
                      pc[k][l] = "read" /\ status'[l] = "running"
               PROVE  executions[l] = 0
    BY <1>a DEF RunsOnce
  <2>1. CASE status[l] = "running"
    BY <2>1 DEF RunsOnce
  <2>2. CASE status[l] # "running"
    <3>1. PICK i \in Instances : Claim(i, l)
      BY <2>2, OnlyClaimStarts DEF Executing
    <3>2. pc[k][l] = "claim"
      BY <3>1 DEF Claim, Sole
    <3> QED BY <2>2, <3>2
  <2> QED BY <2>1, <2>2
<1>1. ASSUME NEW i \in Instances, Crash(i) PROVE RunsOnce'
  <2>1. UNCHANGED executions /\ pc' = [pc EXCEPT ![i] = [j \in JobIds |-> "none"]]
    BY <1>1 DEF Crash
  <2> QED BY <1>a, <2>1 DEF TypeOK
<1>2. ASSUME NEW i \in Instances, Take(i) PROVE RunsOnce'
  <2>1. UNCHANGED executions /\ pc' = [pc EXCEPT ![i][Head(pool[i])] = "claim"]
    BY <1>2 DEF Take, At
  <2> QED BY <1>a, <2>1 DEF TypeOK
<1>3. ASSUME NEW i \in Instances, NEW j \in JobIds, TaskNext(i, j) PROVE RunsOnce'
  <2>1. /\ \A k \in Instances, l \in JobIds : (k # i \/ l # j) => pc'[k][l] = pc[k][l]
        /\ \A l \in JobIds : l # j => status'[l] = status[l]
        /\ \A l \in JobIds : (l # j \/ pc[i][j] # "read") => executions'[l] = executions[l]
    BY <1>3, TaskFrame
  <2>2. /\ executions'[j] <= 1
        /\ pc'[i][j] = "read" /\ status'[j] = "running" => executions'[j] = 0
    <3> USE DEF TypeOK
    <3>1. CASE Claim(i, j)
      <4>1. UNCHANGED executions /\ pc'[i][j] = "read"
        BY <3>1 DEF Claim, At
      <4>2. CASE status[j] = "queued"
        BY <4>1, <4>2 DEF Unstarted, RunsOnce
      <4>3. CASE status[j] # "queued"
        BY <3>1, <4>1, <4>3 DEF Unstarted, RunsOnce, Waits, Claim, Executing
      <4> QED BY <4>2, <4>3
    <3>2. CASE ReadClaim(i, j)
      BY <3>2 DEF ReadClaim, At, Leave, RunsOnce
    <3>3. CASE TakeLock(i, j)
      BY <3>3 DEF TakeLock, At, RunsOnce
    <3>4. CASE LockRefused(i, j)
      BY <3>4 DEF LockRefused, At, RunsOnce
    <3>5. CASE Heartbeat(i, j)
      BY <3>5 DEF Heartbeat, At, RunsOnce
    <3>6. CASE RecordRun(i, j)
      BY <3>6 DEF RecordRun, At, RunsOnce
    <3>7. CASE ReadCurrent(i, j)
      BY <3>7 DEF ReadCurrent, At, RunsOnce
    <3>8. CASE Finish(i, j)
      BY <3>8 DEF Finish, At, Leave, RunsOnce
    <3>9. CASE FailOnException(i, j)
      BY <3>9 DEF FailOnException, At, Leave, RunsOnce
    <3>10. CASE ReadCancel(i, j)
      BY <3>10 DEF ReadCancel, At, RunsOnce
    <3>11. CASE PipelineEnds(i, j)
      BY <3>11 DEF PipelineEnds, At, RunsOnce
    <3>12. CASE Raise(i, j)
      BY <3>12 DEF Raise, At, RunsOnce
    <3>13. CASE HandlerFails(i, j)
      BY <3>13 DEF HandlerFails, At, Leave, RunsOnce
    <3> QED
      BY <1>3, <3>1, <3>2, <3>3, <3>4, <3>5, <3>6, <3>7, <3>8, <3>9, <3>10, <3>11, <3>12, <3>13
      DEF TaskNext, ThreadStep
  <2>3. \A k \in Instances : k = i
    BY DEF Sole
  <2> QED BY <2>1, <2>2, <2>3 DEF RunsOnce
<1>4. ASSUME NEW i \in Instances, Start(i) \/ Recovery(i) \/ RecoveryFails(i) \/ Shutdown(i) \/ Exit(i)
      PROVE  UNCHANGED <<executions, pc>>
  BY <1>4 DEF Start, Recovery, MarkOrphans, ListQueued, Resubmit, Serve, RecoveryFails, Shutdown,
              Exit, taskVars
<1>5. ASSUME NEW c \in Clients, ClientNext(c) PROVE UNCHANGED <<executions, pc>>
  BY <1>5 DEF ClientNext, Queueing, CheckActive, CreateJob, Submit, SyncEnd, RunRequest, SyncRun,
              RetryRequest, taskVars
<1>6. ASSUME NEW j \in JobIds, CancelRequest(j) \/ HeartbeatExpires(j) PROVE UNCHANGED <<executions, pc>>
  BY <1>6 DEF CancelRequest, HeartbeatExpires, taskVars
<1>7. CASE UNCHANGED <<executions, pc>>
  BY <1>7, <1>a
<1>8. CASE UNCHANGED vars
  BY <1>7, <1>8 DEF vars, jobVars, runVars, instanceVars, taskVars, requestVars
<1> QED
  BY <1>1, <1>2, <1>3, <1>4, <1>5, <1>6, <1>7, <1>8 DEF Next, InstanceNext

\* A step keeps Marking: while the instance marks its orphans nobody else ends them.
LEMMA MarkingStep ==
    ASSUME Sole, TypeOK, Progress, Quiet, Marking, [Next]_vars
    PROVE  Marking'
<1> SUFFICES ASSUME NEW i \in Instances, phase'[i] = "mark", NEW j \in todo'[i]
             PROVE  status'[j] \in Executing
  BY DEF Marking
<1> USE DEF TypeOK
<1>1. ASSUME NEW k \in Instances, Start(k) PROVE status'[j] \in Executing
  <2>1. k = i
    BY DEF Sole
  <2> QED BY <1>1, <2>1 DEF Start, Orphans, jobVars, runVars
<1>2. CASE phase[i] = "mark" /\ todo'[i] = todo[i]
  <2>0. status[j] \in Executing /\ j \in JobIds
    BY <1>2 DEF Marking
  <2>1. \A k \in Instances, l \in JobIds : k = i /\ pc[k][l] = "none"
    BY <1>2 DEF Sole, Quiet
  <2>2. CASE UNCHANGED <<status, payload, cancelledAt>>
    BY <2>0, <2>2
  <2>3. ASSUME NEW k \in Instances, MarkOrphans(k) PROVE FALSE
    BY <2>1, <2>3 DEF MarkOrphans
  <2>4. ASSUME NEW c \in Clients, CreateJob(c) PROVE status'[j] \in Executing
    BY <2>0, <2>4 DEF CreateJob, Exists, Executing
  <2>5. ASSUME NEW l \in JobIds, CancelRequest(l) PROVE status'[j] \in Executing
    BY <2>0, <2>5 DEF CancelRequest, Executing
  <2>6. ASSUME NEW k \in Instances, NEW l \in JobIds,
               Claim(k, l) \/ Finish(k, l) \/ FailOnException(k, l)
        PROVE  FALSE
    BY <2>1, <2>6 DEF Claim, Finish, FailOnException
  <2> QED BY <2>2, <2>3, <2>4, <2>5, <2>6, RowWriters
<1>3. ASSUME NEW k \in Instances,
             Recovery(k) \/ RecoveryFails(k) \/ Shutdown(k) \/ Exit(k) \/ Crash(k)
      PROVE  FALSE
  <2>1. k = i
    BY DEF Sole
  <2> QED BY <1>3, <2>1 DEF Recovery, MarkOrphans, ListQueued, Resubmit, Serve, RecoveryFails,
              Shutdown, Exit, Crash
<1>4. ASSUME NEW k \in Instances, Take(k) PROVE UNCHANGED <<phase, todo>>
  BY <1>4 DEF Take, instanceVars
<1>5. ASSUME NEW c \in Clients, ClientNext(c) PROVE UNCHANGED <<phase, todo>>
  BY <1>5 DEF ClientNext, Queueing, CheckActive, CreateJob, Submit, SyncEnd, RunRequest, SyncRun,
              RetryRequest, instanceVars
<1>6. ASSUME NEW l \in JobIds, CancelRequest(l) \/ HeartbeatExpires(l) PROVE UNCHANGED <<phase, todo>>
  BY <1>6 DEF CancelRequest, HeartbeatExpires, instanceVars
<1>7. ASSUME NEW k \in Instances, NEW l \in JobIds, TaskNext(k, l) PROVE UNCHANGED <<phase, todo>>
  BY <1>7, TaskFrame
<1>8. CASE UNCHANGED <<phase, todo>>
  BY <1>2, <1>8
<1>9. CASE UNCHANGED vars
  BY <1>8, <1>9 DEF vars, jobVars, runVars, instanceVars, taskVars, requestVars
<1> QED
  BY <1>1, <1>3, <1>4, <1>5, <1>6, <1>7, <1>8, <1>9 DEF Next, InstanceNext

\* A step keeps Heard, with any number of instances: the row does not forget the request.
LEMMA HeardStep == ASSUME TypeOK, Progress, Heard, [Next]_vars PROVE Heard'
<1> DEFINE Told(n) == status[n] \in {"cancellation_requested"} \cup Terminal
<1>0. \A n \in JobIds : Told(n) => Told(n)'
  BY StatusStep DEF StatusMoves, Terminal
<1>a. ASSUME \A k \in Instances, l \in JobIds :
               seen'[k][l] \/ outcome'[k][l] = "cancelled"
               => seen[k][l] \/ outcome[k][l] = "cancelled" \/ Told(l)
      PROVE  Heard'
  BY <1>0, <1>a DEF Heard
<1>1. ASSUME NEW i \in Instances, Crash(i) PROVE Heard'
  BY <1>1, <1>a, ConstantsAssumption DEF Crash, TypeOK
<1>2. ASSUME NEW i \in Instances, NEW j \in JobIds, TaskNext(i, j) PROVE Heard'
  <2>1. \A k \in Instances, l \in JobIds :
          (k # i \/ l # j) => seen'[k][l] = seen[k][l] /\ outcome'[k][l] = outcome[k][l]
    BY <1>2, TaskFrame
  <2>2. seen'[i][j] \/ outcome'[i][j] = "cancelled"
        => seen[i][j] \/ outcome[i][j] = "cancelled" \/ Told(j)
    <3> USE DEF TypeOK, taskVars
    <3>1. CASE Leave(i, j)
      BY <3>1, ConstantsAssumption DEF Leave, Terminal
    <3>2. CASE UNCHANGED <<seen, outcome>>
      BY <3>2
    <3>3. CASE LockRefused(i, j)
      BY <3>3 DEF LockRefused
    <3>4. CASE ReadCurrent(i, j)
      BY <3>4 DEF ReadCurrent
    <3>5. CASE ReadCancel(i, j)
      BY <3>5 DEF ReadCancel
    <3>6. CASE PipelineEnds(i, j)
      <4>1. PICK report \in Reports(i, j) : outcome' = [outcome EXCEPT ![i][j] = report]
        BY <3>6 DEF PipelineEnds
      <4>2. UNCHANGED seen /\ (report = "cancelled" => seen[i][j])
        BY <3>6 DEF PipelineEnds, Reports
      <4> QED BY <4>1, <4>2
    <3> QED
      BY <1>2, <3>1, <3>2, <3>3, <3>4, <3>5, <3>6
      DEF TaskNext, ThreadStep, Claim, ReadClaim, TakeLock, Heartbeat, RecordRun, Finish,
          FailOnException, Raise, HandlerFails
  <2> QED BY <1>a, <2>1, <2>2
<1>3. ASSUME NEW i \in Instances,
             Start(i) \/ Recovery(i) \/ RecoveryFails(i) \/ Shutdown(i) \/ Exit(i) \/ Take(i)
      PROVE  UNCHANGED <<seen, outcome>>
  BY <1>3 DEF Start, Recovery, MarkOrphans, ListQueued, Resubmit, Serve, RecoveryFails, Shutdown,
              Exit, Take, taskVars
<1>4. ASSUME NEW c \in Clients, ClientNext(c) PROVE UNCHANGED <<seen, outcome>>
  BY <1>4 DEF ClientNext, Queueing, CheckActive, CreateJob, Submit, SyncEnd, RunRequest, SyncRun,
              RetryRequest, taskVars
<1>5. ASSUME NEW j \in JobIds, CancelRequest(j) \/ HeartbeatExpires(j) PROVE UNCHANGED <<seen, outcome>>
  BY <1>5 DEF CancelRequest, HeartbeatExpires, taskVars
<1>6. CASE UNCHANGED <<seen, outcome>>
  BY <1>6, <1>a
<1>7. CASE UNCHANGED vars
  BY <1>6, <1>7 DEF vars, jobVars, runVars, instanceVars, taskVars, requestVars
<1> QED
  BY <1>1, <1>2, <1>3, <1>4, <1>5, <1>6, <1>7 DEF Next, InstanceNext


\* With one instance SoleInv holds in every reachable state, next to IInv.
LEMMA SoleInvariance == ASSUME Sole PROVE Spec => [](IInv /\ SoleInv)
<1>1. Init => SoleInv
  <2> SUFFICES ASSUME Init PROVE SoleInv
    OBVIOUS
  <2>1. Quiet /\ InOneHand /\ Marking
    BY DEF Init, Quiet, InOneHand, QueuedOnce, InPool, Listed, Submitting, Marking
  <2>2. Unstarted /\ RunsOnce /\ Heard
    BY ConstantsAssumption DEF Init, Unstarted, Waits, InPool, Listed, Submitting, RunsOnce, Heard, Executing
  <2> QED BY <2>1, <2>2 DEF SoleInv
<1>2. IInv /\ SoleInv /\ [Next]_vars => SoleInv'
  <2> SUFFICES ASSUME TypeOK, Progress, Known, SoleInv, [Next]_vars PROVE SoleInv'
    BY DEF IInv
  <2> USE DEF SoleInv
  <2>1. Quiet' /\ Marking' /\ Heard'
    BY QuietStep, MarkingStep, HeardStep
  <2>2. InOneHand'
    BY InOneHandStep
  <2>3. Unstarted' /\ RunsOnce'
    BY <2>2, UnstartedStep, RunsOnceStep
  <2> QED BY <2>1, <2>2, <2>3
<1> QED BY <1>1, <1>2, Invariance, PTL DEF Spec

\* A job is executed once at most, whatever crashes, restarts, cancellations and store
\* errors come in between, as long as one process serves the database: it waits in one
\* place, is claimed once, and a recovered job is failed, not run again (claim_pipeline_job,
\* recover_orphaned_jobs).
THEOREM ExecutedOnce == ASSUME Sole PROVE Spec => []ExecutedAtMostOnce
<1>1. SoleInv => ExecutedAtMostOnce
  BY DEF SoleInv, RunsOnce, ExecutedAtMostOnce
<1> QED BY <1>1, SoleInvariance, PTL

\* A finished row never changes when one process serves the database: the rows its
\* recovery fails are still unfinished when it fails them (storage.py: terminal states
\* are entered once; recover_orphaned_jobs runs before anything is served).
THEOREM FinalStays == ASSUME Sole PROVE Spec => TerminalIsFinal
<1>1. IInv /\ SoleInv /\ [Next]_vars =>
        [\A j \in JobIds : status[j] \in Terminal => status'[j] = status[j]]_vars
  <2> SUFFICES ASSUME IInv, SoleInv, [Next]_vars, NEW j \in JobIds, status[j] \in Terminal
               PROVE  status'[j] = status[j]
    OBVIOUS
  <2>1. StatusMoves(j)
    BY StatusStep DEF IInv
  <2>2. ~ \E i \in Instances : phase[i] = "mark" /\ j \in todo[i]
    BY DEF SoleInv, Marking, Terminal, Executing
  <2> QED BY <2>1, <2>2 DEF StatusMoves, Terminal
<1> QED BY <1>1, SoleInvariance, PTL DEF Spec, TerminalIsFinal

-----------------------------------------------------------------------------
(* The abstract specification.                                             *)

\* Every step of the service is a move of the table's promise or leaves the row alone:
\* the recovery is Recover, the INSERT Enqueue, the two UPDATEs of the executor Claim and
\* Settle, the UPDATE of the request RequestCancel.
LEMMA LifecycleStep ==
    ASSUME Sole, IInv, SoleInv, [Next]_vars
    PROVE  [Lifecycle!Next]_<<status, cancelledAt>>
<1> USE DEF IInv, SoleInv
<1>0. status \in [JobIds -> {"absent"} \cup Active \cup Terminal]
  BY DEF TypeOK
<1>1. CASE UNCHANGED <<status, payload, cancelledAt>>
  BY <1>1
<1>2. ASSUME NEW i \in Instances, MarkOrphans(i) PROVE Lifecycle!Recover
  <2>1. todo[i] \in SUBSET {j \in JobIds : status[j] \in Lifecycle!Executing}
    BY <1>2 DEF MarkOrphans, Marking, TypeOK, Executing, Lifecycle!Executing
  <2>2. /\ status' = [j \in JobIds |-> IF j \in todo[i] THEN "failed" ELSE status[j]]
        /\ UNCHANGED cancelledAt
    BY <1>2 DEF MarkOrphans
  <2> QED BY <2>1, <2>2 DEF Lifecycle!Recover
<1>3. ASSUME NEW c \in Clients, CreateJob(c) PROVE \E j \in JobIds : Lifecycle!Enqueue(j)
  BY <1>3 DEF CreateJob, Exists, Lifecycle!Enqueue, Lifecycle!Move
<1>4. ASSUME NEW j \in JobIds, CancelRequest(j) PROVE Lifecycle!RequestCancel(j)
  <2>1. /\ status[j] \in {"queued", "running"}
        /\ status' = [status EXCEPT ![j] = IF status[j] = "queued" THEN "cancelled"
                                                               ELSE "cancellation_requested"]
        /\ cancelledAt' = [cancelledAt EXCEPT ![j] = TRUE]
    BY <1>4 DEF CancelRequest
  <2> QED BY <2>1 DEF Lifecycle!RequestCancel, Lifecycle!Move
<1>5. ASSUME NEW i \in Instances, NEW j \in JobIds, Claim(i, j)
      PROVE  Lifecycle!Claim(j) \/ UNCHANGED <<status, cancelledAt>>
  BY <1>5 DEF Claim, Lifecycle!Claim, Lifecycle!Move
<1>a. ASSUME NEW j \in JobIds, NEW s \in Terminal, Settle(j, s), UNCHANGED cancelledAt,
             status[j] # "absent",
             status[j] = "queued" => s = "failed",
             status[j] = "running" => s # "cancelled"
      PROVE  Lifecycle!Settle(j) \/ UNCHANGED <<status, cancelledAt>>
  <2>1. CASE status[j] \in Terminal
    BY <1>0, <1>a, <2>1 DEF Settle
  <2>2. CASE status[j] \notin Terminal
    <3>1. status' = [status EXCEPT ![j] = s]
      BY <1>a, <2>2 DEF Settle
    <3>2. status[j] \in {"queued", "running", "cancellation_requested"}
      BY <1>0, <1>a, <2>2 DEF Active
    <3> QED
      BY <1>a, <3>1, <3>2 DEF Lifecycle!Settle, Lifecycle!Move, Lifecycle!Terminal, Terminal
  <2> QED BY <2>1, <2>2
<1>6. ASSUME NEW i \in Instances, NEW j \in JobIds, Finish(i, j)
      PROVE  Lifecycle!Settle(j) \/ UNCHANGED <<status, cancelledAt>>
  <2>1. /\ pc[i][j] = "finish" /\ outcome[i][j] \in Terminal
        /\ Settle(j, outcome[i][j]) /\ UNCHANGED cancelledAt
    BY <1>6 DEF Finish, Progress
  <2>2. status[j] \notin {"absent", "queued"}
    BY <2>1 DEF Unstarted
  <2>3. status[j] = "running" => outcome[i][j] # "cancelled"
    BY DEF Heard, Terminal
  <2> QED BY <1>a, <2>1, <2>2, <2>3
<1>7. ASSUME NEW i \in Instances, NEW j \in JobIds, FailOnException(i, j)
      PROVE  Lifecycle!Settle(j) \/ UNCHANGED <<status, cancelledAt>>
  <2>1. pc[i][j] = "except" /\ Settle(j, "failed") /\ UNCHANGED cancelledAt
    BY <1>7 DEF FailOnException
  <2>2. status[j] # "absent"
    BY <2>1 DEF Known, Exists
  <2> QED BY <1>a, <2>1, <2>2 DEF Terminal
<1> QED
  BY <1>1, <1>2, <1>3, <1>4, <1>5, <1>6, <1>7, RowWriters DEF Lifecycle!Next

\* With one instance the service implements the life of a job that JobLifecycle states:
\* statuses move along its edges only, and the cancellation time records the request.
THEOREM ImplementsLifecycle == ASSUME Sole PROVE Spec => LifecycleSpec
<1>1. Init => Lifecycle!Init
  BY DEF Init, Lifecycle!Init
<1>2. IInv /\ SoleInv /\ [Next]_vars => [Lifecycle!Next]_<<status, cancelledAt>>
  BY LifecycleStep
<1> QED BY <1>1, <1>2, SoleInvariance, PTL DEF Spec, LifecycleSpec, Lifecycle!Spec


-----------------------------------------------------------------------------
(* Any number of instances.                                                *)

\* A step keeps QueuedIsCarried when the store does not fail: whoever holds a queued job
\* hands it on, and an instance that drops its queue will list the table again.
LEMMA CarriedStep ==
    ASSUME ~StoreMayFail, TypeOK, Progress, Known, QueuedIsCarried, [Next]_vars
    PROVE  QueuedIsCarried'
<1> SUFFICES ASSUME NEW n \in JobIds, status'[n] = "queued" PROVE Carried(n)'
  BY DEF QueuedIsCarried
<1> USE DEF TypeOK, jobVars, runVars, instanceVars, taskVars, requestVars
<1> DEFINE Unlisted(i) == phase[i] \in {"down", "draining", "mark", "list"}
<1>0. Carried(n) <=>
        \/ \E i \in Instances :
            Unlisted(i) \/ Listed(i, n) \/ InPool(i, n) \/ pc[i][n] = "claim"
        \/ \E c \in Clients : Submitting(c, n)
  BY DEF Carried, Listed, InPool, Submitting
<1>1. Carried(n)' <=>
        \/ \E i \in Instances :
            Unlisted(i)' \/ Listed(i, n)' \/ InPool(i, n)' \/ pc'[i][n] = "claim"
        \/ \E c \in Clients : Submitting(c, n)'
  BY DEF Carried, Listed, InPool, Submitting
<1>2. CASE status[n] # "queued"
  <2>1. status[n] = "absent"
    BY <1>2, StatusStep DEF StatusMoves, Terminal
  <2>2. PICK c \in Clients : CreateJob(c) /\ status'[n] # status[n]
    <3>1. ~UNCHANGED status
      BY <1>2
    <3>2. ASSUME NEW i \in Instances, MarkOrphans(i) PROVE FALSE
      BY <1>2, <3>2 DEF MarkOrphans
    <3>3. ASSUME NEW j \in JobIds, CancelRequest(j) PROVE FALSE
      BY <2>1, <3>3 DEF CancelRequest
    <3>4. ASSUME NEW i \in Instances, NEW j \in JobIds,
                 Claim(i, j) \/ Finish(i, j) \/ FailOnException(i, j)
          PROVE  FALSE
      <4>1. pc[i][j] # "none"
        BY <3>4 DEF Claim, Finish, FailOnException
      <4>2. j # n
        BY <2>1, <4>1 DEF Known, Exists
      <4> QED BY <1>2, <3>4, <4>2 DEF Claim, Finish, FailOnException, Settle
    <3> QED BY <1>2, <3>1, <3>2, <3>3, <3>4, RowWriters
  <2>3. Submitting(c, n)'
    BY <2>2 DEF CreateJob, Submitting
  <2> QED BY <1>1, <2>3
<1>3. CASE status[n] = "queued"
  <2>0. Carried(n)
    BY <1>3 DEF QueuedIsCarried
  <2>a. ASSUME \A i \in Instances :
                 /\ Unlisted(i) => Unlisted(i)' \/ Listed(i, n)'
                 /\ Listed(i, n) => Unlisted(i)' \/ Listed(i, n)' \/ InPool(i, n)'
                 /\ InPool(i, n) => Unlisted(i)' \/ InPool(i, n)' \/ pc'[i][n] = "claim"
                 /\ pc[i][n] = "claim" => Unlisted(i)' \/ pc'[i][n] = "claim",
               \A c \in Clients : Submitting(c, n) =>
                 Submitting(c, n)' \/ \E i \in Instances : Unlisted(i)' \/ InPool(i, n)'
        PROVE  Carried(n)'
    BY <2>0, <2>a, <1>0, <1>1
  <2>b. pool' = pool => \A i \in Instances : InPool(i, n)' <=> InPool(i, n)
    BY DEF InPool
  <2>1. ASSUME NEW i \in Instances, Start(i) \/ MarkOrphans(i) \/ ListQueued(i) \/ Exit(i)
        PROVE  Carried(n)'
    BY <1>3, <2>1, <2>a, <2>b DEF Start, MarkOrphans, ListQueued, Exit, Listed, Submitting
  <2>2. ASSUME NEW i \in Instances, Resubmit(i) PROVE Carried(n)'
    <3>1. PICK j \in todo[i] : /\ pool' = [pool EXCEPT ![i] = Append(@, j)]
                               /\ todo' = [todo EXCEPT ![i] = @ \ {j}]
      BY <2>2 DEF Resubmit
    <3>2. j \in JobIds /\ UNCHANGED <<phase, pc, request, inserted>>
      BY <2>2 DEF Resubmit
    <3>3. \A k \in Instances, l \in JobIds : InPool(k, l)' <=> InPool(k, l) \/ (k = i /\ l = j)
      BY <3>1, <3>2, Appended
    <3> QED BY <2>a, <3>1, <3>2, <3>3 DEF Listed, Submitting
  <2>3. ASSUME NEW i \in Instances, Serve(i) PROVE Carried(n)'
    BY <2>3, <2>a, <2>b DEF Serve, Listed, Submitting
  <2>4. ASSUME NEW i \in Instances, RecoveryFails(i) PROVE FALSE
    BY <2>4 DEF RecoveryFails
  <2>5. ASSUME NEW i \in Instances, Shutdown(i) \/ Crash(i) PROVE Carried(n)'
    BY <2>5, <1>1 DEF Shutdown, Crash
  <2>6. ASSUME NEW i \in Instances, Take(i) PROVE Carried(n)'
    <3> DEFINE s == pool[i]
               h == Head(s)
    <3>1. s \in Seq(JobIds) /\ s # <<>> /\ pool' = [pool EXCEPT ![i] = Tail(@)]
      BY <2>6 DEF Take
    <3>2. pc' = [pc EXCEPT ![i][h] = "claim"] /\ UNCHANGED <<phase, todo, request, inserted>>
      BY <2>6 DEF Take, At
    <3>3. \A k \in Instances : k # i => (InPool(k, n)' <=> InPool(k, n))
      BY <3>1 DEF InPool
    <3>4. InPool(i, n) => InPool(i, n)' \/ n = h
      <4>1. SUFFICES ASSUME NEW m \in 1..Len(s), s[m] = n, n # h PROVE InPool(i, n)'
        BY DEF InPool
      <4>2. m - 1 \in 1..Len(Tail(s)) /\ Tail(s)[m - 1] = n
        BY <3>1, <4>1
      <4>3. pool'[i] = Tail(s)
        BY <3>1
      <4> QED BY <4>2, <4>3 DEF InPool
    <3>5. h \in JobIds
      BY <3>1
    <3> HIDE DEF s, h
    <3> QED BY <2>a, <3>2, <3>3, <3>4, <3>5 DEF Listed, Submitting
  <2>7. ASSUME NEW c \in Clients, NEW i \in Instances, NEW body \in Payloads,
               RunRequest(c, i, body) \/ SyncRun(c, i, body)
        PROVE  Carried(n)'
    BY <2>7, <2>a, <2>b DEF RunRequest, SyncRun, Arrive, Listed, Submitting
  <2>8. ASSUME NEW c \in Clients, NEW i \in Instances, NEW j \in JobIds, RetryRequest(c, i, j)
        PROVE  Carried(n)'
    BY <2>8, <2>a, <2>b DEF RetryRequest, Arrive, Listed, Submitting
  <2>9. ASSUME NEW c \in Clients, CheckActive(c) \/ SyncEnd(c) PROVE Carried(n)'
    BY <2>9, <2>a, <2>b DEF CheckActive, SyncEnd, Answer, Listed, Submitting
  <2>10. ASSUME NEW c \in Clients, CreateJob(c) PROVE Carried(n)'
    <3>1. request[c] = "create" /\ UNCHANGED <<pool, pc, phase, todo>>
          /\ \A d \in Clients : d # c => request'[d] = request[d] /\ inserted'[d] = inserted[d]
      BY <2>10 DEF CreateJob
    <3> QED BY <3>1, <2>a, <2>b DEF Listed, Submitting
  <2>11. ASSUME NEW c \in Clients, Submit(c) PROVE Carried(n)'
    <3>1. /\ server[c] \in Instances /\ inserted[c] \in JobIds
          /\ pool' = [pool EXCEPT ![server[c]] = Append(@, inserted[c])]
      BY <2>11 DEF Submit, Progress
    <3>2. \A k \in Instances, l \in JobIds :
            InPool(k, l)' <=> InPool(k, l) \/ (k = server[c] /\ l = inserted[c])
      BY <3>1, Appended
    <3>3. UNCHANGED <<pc, phase, todo>>
          /\ \A d \in Clients : d # c => request'[d] = request[d] /\ inserted'[d] = inserted[d]
      BY <2>11 DEF Submit, Answer
    <3> QED BY <2>a, <3>1, <3>2, <3>3 DEF Listed, Submitting
  <2>12. ASSUME NEW j \in JobIds, CancelRequest(j) \/ HeartbeatExpires(j) PROVE Carried(n)'
    BY <2>12, <2>a, <2>b DEF CancelRequest, HeartbeatExpires, Listed, Submitting
  <2>13. ASSUME NEW i \in Instances, NEW j \in JobIds, TaskNext(i, j) PROVE Carried(n)'
    <3>1. /\ UNCHANGED <<pool, phase, todo, request, inserted>>
          /\ \A k \in Instances, l \in JobIds : (k # i \/ l # j) => pc'[k][l] = pc[k][l]
      BY <2>13, TaskFrame
    <3>2. ASSUME n = j, pc[i][n] = "claim" PROVE FALSE
      <4>1. Claim(i, n)
        BY <2>13, <3>2
        DEF TaskNext, ThreadStep, ReadClaim, TakeLock, LockRefused, Heartbeat, RecordRun,
            ReadCurrent, Finish, FailOnException, ReadCancel, PipelineEnds, Raise, HandlerFails
      <4> QED BY <1>3, <4>1 DEF Claim
    <3> QED BY <2>a, <2>b, <3>1, <3>2 DEF Listed, Submitting
  <2>14. CASE UNCHANGED vars
    BY <2>14, <2>a, <2>b DEF vars, Listed, Submitting
  <2> QED
    BY <2>1, <2>2, <2>3, <2>4, <2>5, <2>6, <2>7, <2>8, <2>9, <2>10, <2>11, <2>12, <2>13, <2>14
    DEF Next, InstanceNext, Recovery, ClientNext, Queueing
<1> QED BY <1>2, <1>3

\* No queued job is forgotten, for any number of instances that crash and start at any
\* moment, as long as the store does not fail during a recovery or in a pool thread: a
\* thread, an executor, a request or a recovery still holds it (_recover_jobs_on_startup
\* submits the queued rows again; lifespan drops the pending futures when it ends).
THEOREM QueuedStaysCarried == ASSUME ~StoreMayFail PROVE Spec => []QueuedIsCarried
<1>1. Init => QueuedIsCarried
  BY DEF Init, QueuedIsCarried
<1>2. IInv /\ QueuedIsCarried /\ [Next]_vars => QueuedIsCarried'
  BY CarriedStep DEF IInv
<1> QED BY <1>1, <1>2, Invariance, PTL DEF Spec

\* The unfinished jobs of a configuration, and the requests for it that are between the
\* check of _queue_pipeline_job and its insert.
Unfinished(cfg) == {j \in JobIds : status[j] \in Active /\ payload[j].config = cfg}
Passed(cfg) == {c \in Clients : request[c] = "create" /\ wanted[c].config = cfg}

\* A request that has passed the check holds the place of the job it will insert.
PlacesTaken ==
    \A cfg \in Configs :
        /\ IsFiniteSet(Unfinished(cfg))
        /\ Cardinality(Unfinished(cfg)) + Cardinality(Passed(cfg)) <= Cardinality(Clients)

\* A step keeps PlacesTaken: the check lets nobody through while a job is unfinished, and
\* an insert gives up the place it fills.
LEMMA PlacesStep ==
    ASSUME IsFiniteSet(Clients), TypeOK, Progress, Known, PlacesTaken, [Next]_vars
    PROVE  PlacesTaken'
<1> USE DEF TypeOK
<1>0. RowsKept /\ \A body \in Payloads : body.config \in Configs
  BY RowsStay, ConstantsAssumption
<1>a. \A cfg \in Configs : IsFiniteSet(Passed(cfg)) /\ IsFiniteSet(Unfinished(cfg))
      /\ Cardinality(Passed(cfg)) \in Nat /\ Cardinality(Unfinished(cfg)) \in Nat
  BY FS_Subset, FS_CardinalityType DEF Passed, PlacesTaken
<1>b. ASSUME \A j \in JobIds : status'[j] \in Active => status[j] \in Active,
             \A c \in Clients : request'[c] = "create" =>
               request[c] = "create" /\ wanted'[c] = wanted[c]
      PROVE  PlacesTaken'
  <2> SUFFICES ASSUME NEW cfg \in Configs
               PROVE  /\ IsFiniteSet(Unfinished(cfg)')
                      /\ Cardinality(Unfinished(cfg)') + Cardinality(Passed(cfg)')
                           <= Cardinality(Clients)
    BY DEF PlacesTaken
  <2>1. Unfinished(cfg)' \subseteq Unfinished(cfg)
    BY <1>0, <1>b DEF Unfinished, RowsKept, Exists, Active
  <2>2. Passed(cfg)' \subseteq Passed(cfg)
    BY <1>b DEF Passed
  <2>3. /\ IsFiniteSet(Unfinished(cfg)')
        /\ Cardinality(Unfinished(cfg)') <= Cardinality(Unfinished(cfg))
        /\ Cardinality(Passed(cfg)') <= Cardinality(Passed(cfg))
        /\ Cardinality(Unfinished(cfg)') \in Nat /\ Cardinality(Passed(cfg)') \in Nat
    BY <1>a, <2>1, <2>2, FS_Subset, FS_CardinalityType
  <2>4. Cardinality(Clients) \in Nat
    BY FS_CardinalityType
  <2> QED BY <1>a, <2>3, <2>4 DEF PlacesTaken
<1>1. ASSUME NEW c \in Clients, CreateJob(c) PROVE PlacesTaken'
  <2>1. PICK j \in JobIds : /\ ~Exists(j)
                            /\ status' = [status EXCEPT ![j] = "queued"]
                            /\ payload' = [payload EXCEPT ![j] = wanted[c]]
    BY <1>1 DEF CreateJob
  <2>2. request[c] = "create" /\ request' = [request EXCEPT ![c] = "submit"] /\ UNCHANGED wanted
    BY <1>1 DEF CreateJob
  <2> SUFFICES ASSUME NEW cfg \in Configs
               PROVE  /\ IsFiniteSet(Unfinished(cfg)')
                      /\ Cardinality(Unfinished(cfg)') + Cardinality(Passed(cfg)')
                           <= Cardinality(Clients)
    BY DEF PlacesTaken
  <2>3. Cardinality(Clients) \in Nat
    BY FS_CardinalityType
  <2>4. CASE wanted[c].config = cfg
    <3>1. Unfinished(cfg)' = Unfinished(cfg) \cup {j} /\ j \notin Unfinished(cfg)
      BY <2>1, <2>4 DEF Unfinished, Exists, Active
    <3>2. Passed(cfg)' = Passed(cfg) \ {c} /\ c \in Passed(cfg)
      BY <2>2, <2>4 DEF Passed
    <3>3. /\ IsFiniteSet(Unfinished(cfg)')
          /\ Cardinality(Unfinished(cfg)') = Cardinality(Unfinished(cfg)) + 1
      <4>1. j \notin Unfinished(cfg) /\ IsFiniteSet(Unfinished(cfg))
        BY <1>a, <3>1
      <4>2. /\ IsFiniteSet(Unfinished(cfg) \cup {j})
            /\ Cardinality(Unfinished(cfg) \cup {j}) = Cardinality(Unfinished(cfg)) + 1
        BY <4>1, FS_AddElement
      <4> QED BY <3>1, <4>2
    <3>4. Cardinality(Passed(cfg)') = Cardinality(Passed(cfg)) - 1
      BY <1>a, <3>2, FS_RemoveElement
    <3> QED BY <1>a, <2>3, <3>3, <3>4 DEF PlacesTaken
  <2>5. CASE wanted[c].config # cfg
    <3>1. Unfinished(cfg)' = Unfinished(cfg)
      BY <2>1, <2>5 DEF Unfinished, Exists, Active
    <3>2. Passed(cfg)' = Passed(cfg)
      BY <2>2, <2>5 DEF Passed
    <3> QED BY <1>a, <3>1, <3>2 DEF PlacesTaken
  <2> QED BY <2>4, <2>5
<1>2. ASSUME NEW c \in Clients, CheckActive(c) PROVE PlacesTaken'
  <2>1. CASE Answer(c)
    <3>1. UNCHANGED status /\ \A d \in Clients : request'[d] = "create" =>
                                request[d] = "create" /\ wanted'[d] = wanted[d]
      BY <1>2, <2>1 DEF CheckActive, Answer, jobVars
    <3> QED BY <1>b, <3>1
  <2>2. CASE ~HasActiveJob(wanted[c].config)
             /\ request' = [request EXCEPT ![c] = "create"] /\ UNCHANGED wanted
    <3> SUFFICES ASSUME NEW cfg \in Configs
                 PROVE  /\ IsFiniteSet(Unfinished(cfg)')
                        /\ Cardinality(Unfinished(cfg)') + Cardinality(Passed(cfg)')
                             <= Cardinality(Clients)
      BY DEF PlacesTaken
    <3>1. Unfinished(cfg)' = Unfinished(cfg)
      BY <1>2 DEF CheckActive, jobVars, Unfinished
    <3>2. CASE wanted[c].config = cfg
      <4>1. Unfinished(cfg) = {}
        BY <2>2, <3>2 DEF HasActiveJob, Unfinished
      <4>2. Cardinality(Passed(cfg)') <= Cardinality(Clients)
            /\ Cardinality(Passed(cfg)') \in Nat
        <5>1. Passed(cfg)' \subseteq Clients
          BY DEF Passed
        <5> QED BY <5>1, FS_Subset, FS_CardinalityType
      <4> QED BY <3>1, <4>1, <4>2, FS_EmptySet
    <3>3. CASE wanted[c].config # cfg
      <4>1. Passed(cfg)' = Passed(cfg)
        BY <2>2, <3>3 DEF Passed
      <4> QED BY <1>a, <3>1, <4>1 DEF PlacesTaken
    <3> QED BY <3>2, <3>3
  <2> QED BY <1>2, <2>1, <2>2 DEF CheckActive
<1>c. CASE ~ \E c \in Clients : CreateJob(c) \/ CheckActive(c)
  <2>1. \A j \in JobIds : status'[j] \in Active => status[j] \in Active
    <3> USE DEF Active
    <3>1. CASE UNCHANGED <<status, payload, cancelledAt>>
      BY <3>1
    <3>2. ASSUME NEW i \in Instances, MarkOrphans(i)
          PROVE  \A j \in JobIds : status'[j] \in Active => status[j] \in Active
      BY <3>2 DEF MarkOrphans
    <3>3. ASSUME NEW j \in JobIds, CancelRequest(j)
          PROVE  \A k \in JobIds : status'[k] \in Active => status[k] \in Active
      BY <3>3 DEF CancelRequest
    <3>4. ASSUME NEW i \in Instances, NEW j \in JobIds, Claim(i, j)
          PROVE  \A k \in JobIds : status'[k] \in Active => status[k] \in Active
      BY <3>4 DEF Claim
    <3>5. ASSUME NEW i \in Instances, NEW j \in JobIds, Finish(i, j) \/ FailOnException(i, j)
          PROVE  \A k \in JobIds : status'[k] \in Active => status[k] \in Active
      BY <3>5 DEF Finish, FailOnException, Settle, Progress, Terminal
    <3> QED BY <1>c, <3>1, <3>2, <3>3, <3>4, <3>5, RowWriters
  <2>2. \A c \in Clients : request'[c] = "create" =>
          request[c] = "create" /\ wanted'[c] = wanted[c]
    <3>1. ASSUME NEW c \in Clients, ClientNext(c)
          PROVE  \A d \in Clients : request'[d] = "create" =>
                   request[d] = "create" /\ wanted'[d] = wanted[d]
      BY <1>c, <3>1
      DEF ClientNext, Queueing, Submit, SyncEnd, Answer, RunRequest, SyncRun, RetryRequest,
          Arrive
    <3>2. ASSUME NEW i \in Instances, Crash(i)
          PROVE  \A d \in Clients : request'[d] = "create" =>
                   request[d] = "create" /\ wanted'[d] = wanted[d]
      BY <3>2 DEF Crash
    <3>3. ASSUME NEW i \in Instances,
                 Start(i) \/ Recovery(i) \/ RecoveryFails(i) \/ Shutdown(i) \/ Exit(i) \/ Take(i)
          PROVE  UNCHANGED <<request, wanted>>
      BY <3>3 DEF Start, Recovery, MarkOrphans, ListQueued, Resubmit, Serve, RecoveryFails,
                  Shutdown, Exit, Take, requestVars
    <3>4. ASSUME NEW j \in JobIds, CancelRequest(j) \/ HeartbeatExpires(j)
          PROVE  UNCHANGED <<request, wanted>>
      BY <3>4 DEF CancelRequest, HeartbeatExpires, requestVars
    <3>5. ASSUME NEW i \in Instances, NEW j \in JobIds, TaskNext(i, j)
          PROVE  UNCHANGED <<request, wanted>>
      BY <3>5, TaskFrame
    <3>6. CASE UNCHANGED vars
      BY <3>6 DEF vars, jobVars, runVars, instanceVars, taskVars, requestVars
    <3> QED BY <3>1, <3>2, <3>3, <3>4, <3>5, <3>6 DEF Next, InstanceNext
  <2> QED BY <1>b, <2>1, <2>2
<1> QED BY <1>1, <1>2, <1>c

\* One configuration has no more unfinished jobs than requests were ever handled at a time,
\* whatever the instances, pool threads, crashes and recoveries do: the check and the insert
\* of _queue_pipeline_job are two statements, and what goes wrong between them goes wrong
\* once per request that is there.  One request at a time, one unfinished job.
THEOREM DuplicatesStayBounded ==
    ASSUME IsFiniteSet(Clients) PROVE Spec => []DuplicatesBounded
<1>1. Init => PlacesTaken
  <2> SUFFICES ASSUME Init, NEW cfg \in Configs
               PROVE  /\ IsFiniteSet(Unfinished(cfg))
                      /\ Cardinality(Unfinished(cfg)) + Cardinality(Passed(cfg))
                           <= Cardinality(Clients)
    BY DEF PlacesTaken
  <2>1. Unfinished(cfg) = {} /\ Passed(cfg) = {}
    BY DEF Init, Unfinished, Passed, Active
  <2> QED BY <2>1, FS_EmptySet, FS_CardinalityType
<1>2. IInv /\ PlacesTaken /\ [Next]_vars => PlacesTaken'
  BY PlacesStep DEF IInv
<1>3. PlacesTaken => DuplicatesBounded
  <2> SUFFICES ASSUME PlacesTaken, NEW cfg \in Configs
               PROVE  Cardinality(Unfinished(cfg)) <= Cardinality(Clients)
    BY DEF DuplicatesBounded, Unfinished
  <2>1. IsFiniteSet(Unfinished(cfg)) /\ IsFiniteSet(Passed(cfg))
    BY FS_Subset DEF PlacesTaken, Passed
  <2> QED BY <2>1, FS_CardinalityType DEF PlacesTaken
<1> QED BY <1>1, <1>2, <1>3, Invariance, PTL DEF Spec

=============================================================================
