---------------------------- MODULE PipelineJobs ----------------------------
(***************************************************************************)
(* The asynchronous pipeline jobs of vision-model-lab: the rows of the     *)
(* table pipeline_jobs (storage.py), and the service instances, request    *)
(* threads and pool threads (api.py) that read and write them.  Every      *)
(* database statement commits by itself, so every statement is one action  *)
(* and anything may happen between two of them.                            *)
(*                                                                         *)
(* Left out: the job's log and audit rows, the clock (a heartbeat is fresh *)
(* or stale), what a request asks for besides its configuration and        *)
(* whether the run is recorded.                                            *)
(***************************************************************************)
EXTENDS Naturals, Sequences, FiniteSets

CONSTANTS
    Instances,     \* worker ids "host:pid"; one that starts again is the same host:pid
    Clients,       \* request threads of the API
    Configs,       \* experiment configuration files
    Payloads,      \* bodies of a run request: a configuration, whether to persist the run
    Experiments,   \* experiment ids: the key of the run lock
    ExperimentOf,  \* the experiment a configuration names
    JobIds,        \* ids of pipeline_jobs rows; bounds how many jobs are created
    Workers,       \* SETTINGS.pipeline_workers, the threads of the pool
    MaxStarts,     \* bound: how often each instance may start
    StoreMayFail,  \* whether startup recovery and the pool threads meet store errors
    None

ASSUME ConstantsAssumption ==
    /\ JobIds \subseteq Nat
    /\ Payloads \subseteq [config : Configs, persist : BOOLEAN]
    /\ ExperimentOf \in [Configs -> Experiments]
    /\ Workers \in Nat \ {0}
    /\ MaxStarts \in [Instances -> Nat]
    /\ StoreMayFail \in BOOLEAN
    /\ Clients \cap (Instances \X JobIds) = {}
    /\ None \notin Instances \cup Clients \cup JobIds /\ None \notin Payloads
    /\ None \notin Instances \X JobIds
    /\ None \notin {"completed", "failed", "cancelled"}

VARIABLES
    status,       \* pipeline_jobs.status, "absent" when there is no such row
    payload,      \* pipeline_jobs.payload_json: the request body; config_path is its config
    owner,        \* pipeline_jobs.worker_id
    fresh,        \* whether heartbeat_at is younger than 120 s
    cancelledAt,  \* whether cancelled_at is set
    runs,         \* how many pipeline_runs rows each job has
    executions,   \* history: how often a pool thread has gone on to execute each job
    phase,        \* of each instance: down, startup recovery, serving, shutting down
    todo,         \* the ids the startup recovery of an instance has read
    starts,       \* how often each instance has started
    pool,         \* the queue of the instance's ThreadPoolExecutor
    pc,           \* where _run_pipeline_job is, in an instance, for a job
    seen,         \* its _CancelCheck has seen the request
    outcome,      \* the status it is going to write
    request,      \* where a request thread is
    server,       \* the instance that serves it
    wanted,       \* the request body
    inserted,     \* the row it has inserted
    runLock       \* the holder of each experiment's run lock

jobVars == <<status, payload, owner, fresh, cancelledAt>>
runVars == <<runs, executions>>
instanceVars == <<phase, todo, starts>>
taskVars == <<pc, seen, outcome>>
requestVars == <<request, server, wanted, inserted>>
vars == <<jobVars, runVars, instanceVars, pool, taskVars, requestVars, runLock>>

Terminal == {"completed", "failed", "cancelled"}
Active == {"queued", "running", "cancellation_requested"}
Executing == {"running", "cancellation_requested"}

Holder == (Instances \X JobIds) \cup Clients

Exists(j) == status[j] # "absent"
LockOf(j) == ExperimentOf[payload[j].config]
WantedLock(c) == ExperimentOf[wanted[c].config]
Busy(i) == {j \in JobIds : pc[i][j] # "none"}
Unlocked(e) == [runLock EXCEPT ![e] = None]

Init ==
    /\ status = [j \in JobIds |-> "absent"]
    /\ payload = [j \in JobIds |-> None]
    /\ owner = [j \in JobIds |-> None]
    /\ fresh = [j \in JobIds |-> FALSE]
    /\ cancelledAt = [j \in JobIds |-> FALSE]
    /\ runs = [j \in JobIds |-> 0]
    /\ executions = [j \in JobIds |-> 0]
    /\ phase = [i \in Instances |-> "down"]
    /\ todo = [i \in Instances |-> {}]
    /\ starts = [i \in Instances |-> 0]
    /\ pool = [i \in Instances |-> <<>>]
    /\ pc = [i \in Instances |-> [j \in JobIds |-> "none"]]
    /\ seen = [i \in Instances |-> [j \in JobIds |-> FALSE]]
    /\ outcome = [i \in Instances |-> [j \in JobIds |-> None]]
    /\ request = [c \in Clients |-> "idle"]
    /\ server = [c \in Clients |-> None]
    /\ wanted = [c \in Clients |-> None]
    /\ inserted = [c \in Clients |-> None]
    /\ runLock = [e \in Experiments |-> None]

-----------------------------------------------------------------------------
(* Instances.                                                              *)

\* Mutant: recovery looks for stale heartbeats only.
StaleOrphans(i) == {j \in JobIds : status[j] \in Executing /\ ~fresh[j]}

\* The WHERE clause of recover_orphaned_jobs: the rows of this worker, the stale ones of any.
Orphans(i) ==
    {j \in JobIds : status[j] \in Executing /\ (owner[j] \in {i, None} \/ ~fresh[j])}

\* _recover_jobs_on_startup begins with recover_orphaned_jobs, whose SELECT runs
\* outside a transaction.
Start(i) ==
    /\ phase[i] = "down"
    /\ starts[i] < MaxStarts[i]
    /\ starts' = [starts EXCEPT ![i] = @ + 1]
    /\ phase' = [phase EXCEPT ![i] = "mark"]
    /\ todo' = [todo EXCEPT ![i] = Orphans(i)]
    /\ UNCHANGED <<jobVars, runVars, pool, taskVars, requestVars, runLock>>

\* Mutant: an orphan goes back to the queue instead of failing.
MarkOrphansQueued(i) ==
    /\ phase[i] = "mark"
    /\ status' = [j \in JobIds |-> IF j \in todo[i] THEN "queued" ELSE status[j]]
    /\ phase' = [phase EXCEPT ![i] = "list"]
    /\ todo' = [todo EXCEPT ![i] = {}]
    /\ UNCHANGED <<payload, owner, fresh, cancelledAt, runVars, starts, pool, taskVars,
                   requestVars, runLock>>

\* The UPDATE of recover_orphaned_jobs names the rows by id and nothing else.
MarkOrphans(i) ==
    /\ phase[i] = "mark"
    /\ status' = [j \in JobIds |-> IF j \in todo[i] THEN "failed" ELSE status[j]]
    /\ phase' = [phase EXCEPT ![i] = "list"]
    /\ todo' = [todo EXCEPT ![i] = {}]
    /\ UNCHANGED <<payload, owner, fresh, cancelledAt, runVars, starts, pool, taskVars,
                   requestVars, runLock>>

\* Mutant: only the queued rows this worker owns; a queued row has no owner.
ListOwnQueued(i) ==
    /\ phase[i] = "list"
    /\ phase' = [phase EXCEPT ![i] = "resubmit"]
    /\ todo' = [todo EXCEPT ![i] = {j \in JobIds : status[j] = "queued" /\ owner[j] = i}]
    /\ UNCHANGED <<jobVars, runVars, starts, pool, taskVars, requestVars, runLock>>

\* list_queued_pipeline_jobs: the queued rows of every instance.
ListQueued(i) ==
    /\ phase[i] = "list"
    /\ phase' = [phase EXCEPT ![i] = "resubmit"]
    /\ todo' = [todo EXCEPT ![i] = {j \in JobIds : status[j] = "queued"}]
    /\ UNCHANGED <<jobVars, runVars, starts, pool, taskVars, requestVars, runLock>>

\* The loop that submits them again, in the order of their ids.
Resubmit(i) ==
    /\ phase[i] = "resubmit"
    /\ \E j \in todo[i] :
        /\ \A k \in todo[i] : j <= k
        /\ pool' = [pool EXCEPT ![i] = Append(@, j)]
        /\ todo' = [todo EXCEPT ![i] = @ \ {j}]
    /\ UNCHANGED <<jobVars, runVars, phase, starts, taskVars, requestVars, runLock>>

\* The loop has ended: requests are served.
Serve(i) ==
    /\ phase[i] = "resubmit"
    /\ todo[i] = {}
    /\ phase' = [phase EXCEPT ![i] = "up"]
    /\ UNCHANGED <<jobVars, runVars, todo, starts, pool, taskVars, requestVars, runLock>>

\* A store error ends the recovery early; it is logged and requests are served.
RecoveryFails(i) ==
    /\ StoreMayFail
    /\ phase[i] \in {"mark", "list", "resubmit"}
    /\ phase' = [phase EXCEPT ![i] = "up"]
    /\ todo' = [todo EXCEPT ![i] = {}]
    /\ UNCHANGED <<jobVars, runVars, starts, pool, taskVars, requestVars, runLock>>

\* The end of lifespan: pending futures are dropped, running ones are not awaited.
Shutdown(i) ==
    /\ phase[i] = "up"
    /\ \A c \in Clients : server[c] # i
    /\ phase' = [phase EXCEPT ![i] = "draining"]
    /\ pool' = [pool EXCEPT ![i] = <<>>]
    /\ UNCHANGED <<jobVars, runVars, todo, starts, taskVars, requestVars, runLock>>

\* The interpreter joins the pool threads before the process ends.
Exit(i) ==
    /\ phase[i] = "draining"
    /\ Busy(i) = {}
    /\ phase' = [phase EXCEPT ![i] = "down"]
    /\ UNCHANGED <<jobVars, runVars, todo, starts, pool, taskVars, requestVars, runLock>>

\* The process dies: its queue, threads and requests are gone, its file locks
\* are released by the kernel, and the table stays as it is.
Crash(i) ==
    /\ phase[i] # "down"
    /\ phase' = [phase EXCEPT ![i] = "down"]
    /\ todo' = [todo EXCEPT ![i] = {}]
    /\ pool' = [pool EXCEPT ![i] = <<>>]
    /\ pc' = [pc EXCEPT ![i] = [j \in JobIds |-> "none"]]
    /\ seen' = [seen EXCEPT ![i] = [j \in JobIds |-> FALSE]]
    /\ outcome' = [outcome EXCEPT ![i] = [j \in JobIds |-> None]]
    /\ request' = [c \in Clients |-> IF server[c] = i THEN "idle" ELSE request[c]]
    /\ server' = [c \in Clients |-> IF server[c] = i THEN None ELSE server[c]]
    /\ wanted' = [c \in Clients |-> IF server[c] = i THEN None ELSE wanted[c]]
    /\ inserted' = [c \in Clients |-> IF server[c] = i THEN None ELSE inserted[c]]
    /\ runLock' = [e \in Experiments |->
                     IF \/ \E j \in JobIds : runLock[e] = <<i, j>>
                        \/ \E c \in Clients : runLock[e] = c /\ server[c] = i
                     THEN None ELSE runLock[e]]
    /\ UNCHANGED <<jobVars, runVars, starts>>

-----------------------------------------------------------------------------
(* Requests.                                                               *)

\* Bound: a request that would create a row only arrives while an id is left.
RowsLeft ==
    Cardinality({j \in JobIds : ~Exists(j)})
        > Cardinality({c \in Clients : request[c] \in {"check", "create"}})

Arrive(c, i, body, where) ==
    /\ request[c] = "idle"
    /\ phase[i] = "up"
    /\ request' = [request EXCEPT ![c] = where]
    /\ server' = [server EXCEPT ![c] = i]
    /\ wanted' = [wanted EXCEPT ![c] = body]
    /\ UNCHANGED inserted

Answer(c) ==
    /\ request' = [request EXCEPT ![c] = "idle"]
    /\ server' = [server EXCEPT ![c] = None]
    /\ wanted' = [wanted EXCEPT ![c] = None]
    /\ inserted' = [inserted EXCEPT ![c] = None]

\* POST /api/pipelines/run with async_run.
RunRequest(c, i, body) ==
    /\ RowsLeft
    /\ Arrive(c, i, body, "check")
    /\ UNCHANGED <<jobVars, runVars, instanceVars, pool, taskVars, runLock>>

\* POST /api/pipelines/jobs/{id}/retry reads the row; only a finished job may be retried.
RetryRequest(c, i, j) ==
    /\ RowsLeft
    /\ status[j] \in Terminal
    /\ Arrive(c, i, payload[j], "check")
    /\ UNCHANGED <<jobVars, runVars, instanceVars, pool, taskVars, runLock>>

\* Mutant: a job that is being cancelled counts as gone.
HasActiveJobNotStopping(cfg) ==
    \E j \in JobIds : status[j] \in {"queued", "running"} /\ payload[j].config = cfg

HasActiveJob(cfg) == \E j \in JobIds : status[j] \in Active /\ payload[j].config = cfg

\* _queue_pipeline_job, first statement: has_active_pipeline_job, refused with 409.
CheckActive(c) ==
    /\ request[c] = "check"
    /\ \/ HasActiveJob(wanted[c].config) /\ Answer(c)
       \/ /\ ~HasActiveJob(wanted[c].config)
          /\ request' = [request EXCEPT ![c] = "create"]
          /\ UNCHANGED <<server, wanted, inserted>>
    /\ UNCHANGED <<jobVars, runVars, instanceVars, pool, taskVars, runLock>>

\* _queue_pipeline_job, second statement: create_pipeline_job inserts the next id.
CreateJob(c) ==
    /\ request[c] = "create"
    /\ \E j \in JobIds :
        /\ ~Exists(j)
        /\ \A k \in JobIds : ~Exists(k) => j <= k
        /\ status' = [status EXCEPT ![j] = "queued"]
        /\ payload' = [payload EXCEPT ![j] = wanted[c]]
        /\ inserted' = [inserted EXCEPT ![c] = j]
    /\ request' = [request EXCEPT ![c] = "submit"]
    /\ UNCHANGED <<owner, fresh, cancelledAt, runVars, instanceVars, pool, taskVars, server,
                   wanted, runLock>>

\* _queue_pipeline_job, last: EXECUTOR.submit.
Submit(c) ==
    /\ request[c] = "submit"
    /\ pool' = [pool EXCEPT ![server[c]] = Append(@, inserted[c])]
    /\ Answer(c)
    /\ UNCHANGED <<jobVars, runVars, instanceVars, taskVars, runLock>>

\* Mutant: the cancellation time is written for running jobs only.
CancelRequestUntimed(j) ==
    /\ \E i \in Instances : phase[i] = "up"
    /\ status[j] \in {"queued", "running"}
    /\ status' = [status EXCEPT ![j] =
                    IF @ = "queued" THEN "cancelled" ELSE "cancellation_requested"]
    /\ cancelledAt' = [cancelledAt EXCEPT ![j] = status[j] = "running"]
    /\ UNCHANGED <<payload, owner, fresh, runVars, instanceVars, pool, taskVars, requestVars,
                   runLock>>

\* Mutant: a queued job is asked to stop like a running one.
CancelRequestUniform(j) ==
    /\ \E i \in Instances : phase[i] = "up"
    /\ status[j] \in {"queued", "running"}
    /\ status' = [status EXCEPT ![j] = "cancellation_requested"]
    /\ cancelledAt' = [cancelledAt EXCEPT ![j] = TRUE]
    /\ UNCHANGED <<payload, owner, fresh, runVars, instanceVars, pool, taskVars, requestVars,
                   runLock>>

\* POST /api/pipelines/jobs/{id}/cancel: one guarded UPDATE, at any moment.
CancelRequest(j) ==
    /\ \E i \in Instances : phase[i] = "up"
    /\ status[j] \in {"queued", "running"}
    /\ status' = [status EXCEPT ![j] =
                    IF @ = "queued" THEN "cancelled" ELSE "cancellation_requested"]
    /\ cancelledAt' = [cancelledAt EXCEPT ![j] = TRUE]
    /\ UNCHANGED <<payload, owner, fresh, runVars, instanceVars, pool, taskVars, requestVars,
                   runLock>>

\* POST /api/pipelines/run without async_run: the request thread takes the run
\* lock itself and no row is written.  A refused lock is reported and changes nothing.
SyncRun(c, i, body) ==
    /\ runLock[ExperimentOf[body.config]] = None
    /\ Arrive(c, i, body, "sync")
    /\ runLock' = [runLock EXCEPT ![ExperimentOf[body.config]] = c]
    /\ UNCHANGED <<jobVars, runVars, instanceVars, pool, taskVars>>

SyncEnd(c) ==
    /\ request[c] = "sync"
    /\ runLock' = Unlocked(WantedLock(c))
    /\ Answer(c)
    /\ UNCHANGED <<jobVars, runVars, instanceVars, pool, taskVars>>

-----------------------------------------------------------------------------
(* _run_pipeline_job on a pool thread.                                     *)

At(i, j, where) == pc' = [pc EXCEPT ![i][j] = where]

Leave(i, j) ==
    /\ At(i, j, "none")
    /\ seen' = [seen EXCEPT ![i][j] = FALSE]
    /\ outcome' = [outcome EXCEPT ![i][j] = None]

\* A free thread takes the head of the queue.
Take(i) ==
    /\ pool[i] # <<>>
    /\ Cardinality(Busy(i)) < Workers
    /\ pool' = [pool EXCEPT ![i] = Tail(@)]
    /\ At(i, Head(pool[i]), "claim")
    /\ UNCHANGED <<jobVars, runVars, instanceVars, seen, outcome, requestVars, runLock>>

\* Mutant: the UPDATE lost its status condition.
ClaimUnguarded(i, j) ==
    /\ pc[i][j] = "claim"
    /\ status' = [status EXCEPT ![j] = "running"]
    /\ owner' = [owner EXCEPT ![j] = i]
    /\ fresh' = [fresh EXCEPT ![j] = TRUE]
    /\ At(i, j, "read")
    /\ UNCHANGED <<payload, cancelledAt, runVars, instanceVars, pool, seen, outcome,
                   requestVars, runLock>>

\* claim_pipeline_job: UPDATE ... WHERE status = 'queued'.
Claim(i, j) ==
    /\ pc[i][j] = "claim"
    /\ \/ /\ status[j] = "queued"
          /\ status' = [status EXCEPT ![j] = "running"]
          /\ owner' = [owner EXCEPT ![j] = i]
          /\ fresh' = [fresh EXCEPT ![j] = TRUE]
       \/ status[j] # "queued" /\ UNCHANGED <<status, owner, fresh>>
    /\ At(i, j, "read")
    /\ UNCHANGED <<payload, cancelledAt, runVars, instanceVars, pool, seen, outcome,
                   requestVars, runLock>>

\* claim_pipeline_job then reads the row; the caller goes on when it says
\* running, whoever runs it, and gives up on any other status.
ReadClaim(i, j) ==
    /\ pc[i][j] = "read"
    /\ \/ /\ status[j] = "running" /\ At(i, j, "lock")
          /\ executions' = [executions EXCEPT ![j] = @ + 1]
          /\ UNCHANGED <<seen, outcome>>
       \/ status[j] # "running" /\ Leave(i, j) /\ UNCHANGED executions
    /\ UNCHANGED <<jobVars, runs, instanceVars, pool, requestVars, runLock>>

\* Mutant: only the lock inside the process, no lock file.
TakeLockOfProcess(i, j) ==
    /\ pc[i][j] = "lock"
    /\ \A l \in JobIds : runLock[LockOf(j)] # <<i, l>>
    /\ runLock' = [runLock EXCEPT ![LockOf(j)] = <<i, j>>]
    /\ At(i, j, "run")
    /\ UNCHANGED <<jobVars, runVars, instanceVars, pool, seen, outcome, requestVars>>

\* run_experiment_pipeline takes the run lock without waiting.
TakeLock(i, j) ==
    /\ pc[i][j] = "lock"
    /\ runLock[LockOf(j)] = None
    /\ runLock' = [runLock EXCEPT ![LockOf(j)] = <<i, j>>]
    /\ At(i, j, "run")
    /\ UNCHANGED <<jobVars, runVars, instanceVars, pool, seen, outcome, requestVars>>

\* Mutant: the refusal produces a report without a status.
LockRefusedSilently(i, j) ==
    /\ pc[i][j] = "lock"
    /\ runLock[LockOf(j)] # None
    /\ At(i, j, "record")
    /\ UNCHANGED <<jobVars, runVars, instanceVars, pool, seen, outcome, requestVars, runLock>>

\* Mutant: the refused run leaves the with statement like the one that has the lock.
LockRefusedReleases(i, j) ==
    /\ pc[i][j] = "lock"
    /\ runLock[LockOf(j)] # None
    /\ At(i, j, "record")
    /\ outcome' = [outcome EXCEPT ![i][j] = "failed"]
    /\ runLock' = Unlocked(LockOf(j))
    /\ UNCHANGED <<jobVars, runVars, instanceVars, pool, seen, requestVars>>

\* PipelineAlreadyRunning becomes a failed report.
LockRefused(i, j) ==
    /\ pc[i][j] = "lock"
    /\ runLock[LockOf(j)] # None
    /\ At(i, j, "record")
    /\ outcome' = [outcome EXCEPT ![i][j] = "failed"]
    /\ UNCHANGED <<jobVars, runVars, instanceVars, pool, seen, requestVars, runLock>>

\* _CancelCheck: get_pipeline_job, at intervals while the stages run; once it has
\* seen the request it never reads again.
ReadCancel(i, j) ==
    /\ pc[i][j] = "run"
    /\ ~seen[i][j]
    /\ At(i, j, "beat")
    /\ seen' = [seen EXCEPT ![i][j] = status[j] = "cancellation_requested"]
    /\ UNCHANGED <<jobVars, runVars, instanceVars, pool, outcome, requestVars, runLock>>

\* _CancelCheck, after the read: heartbeat_pipeline_job.
Heartbeat(i, j) ==
    /\ pc[i][j] = "beat"
    /\ fresh' = [fresh EXCEPT ![j] = @ \/ (owner[j] = i /\ status[j] \in Executing)]
    /\ At(i, j, "run")
    /\ UNCHANGED <<status, payload, owner, cancelledAt, runVars, instanceVars, pool, seen,
                   outcome, requestVars, runLock>>

\* 120 s without a heartbeat: packaging and in-process stages send none.
HeartbeatExpires(j) ==
    /\ status[j] \in Executing
    /\ fresh[j]
    /\ fresh' = [fresh EXCEPT ![j] = FALSE]
    /\ UNCHANGED <<status, payload, owner, cancelledAt, runVars, instanceVars, pool, taskVars,
                   requestVars, runLock>>

Reports(i, j) == {"failed", IF seen[i][j] THEN "cancelled" ELSE "completed"}

\* Mutant: the run is not recorded before the row is settled.
PipelineEndsUnrecorded(i, j) ==
    /\ pc[i][j] = "run"
    /\ \E report \in Reports(i, j) : outcome' = [outcome EXCEPT ![i][j] = report]
    /\ At(i, j, "current")
    /\ runLock' = Unlocked(LockOf(j))
    /\ UNCHANGED <<jobVars, runVars, instanceVars, pool, seen, requestVars>>

\* run_experiment_pipeline returns its report.  A request that was seen ends in
\* cancelled, or in failed when the training preflight was interrupted.
PipelineEnds(i, j) ==
    /\ pc[i][j] = "run"
    /\ \E report \in Reports(i, j) : outcome' = [outcome EXCEPT ![i][j] = report]
    /\ At(i, j, "record")
    /\ runLock' = Unlocked(LockOf(j))
    /\ UNCHANGED <<jobVars, runVars, instanceVars, pool, seen, requestVars>>

\* record_pipeline_run, if the request asked for it, and the artifact index.
RecordRun(i, j) ==
    /\ pc[i][j] = "record"
    /\ runs' = IF payload[j].persist THEN [runs EXCEPT ![j] = @ + 1] ELSE runs
    /\ At(i, j, "current")
    /\ UNCHANGED <<jobVars, executions, instanceVars, pool, seen, outcome, requestVars, runLock>>

\* The row is read once more: a request that came late still cancels the job.
ReadCurrent(i, j) ==
    /\ pc[i][j] = "current"
    /\ At(i, j, "finish")
    /\ outcome' = [outcome EXCEPT ![i][j] =
                     IF status[j] = "cancellation_requested" THEN "cancelled" ELSE @]
    /\ UNCHANGED <<jobVars, runVars, instanceVars, pool, seen, requestVars, runLock>>

\* Mutant: the UPDATE settles a row that is already settled.
SettleUnguarded(j, s) == status' = [status EXCEPT ![j] = s]

\* complete_pipeline_job and fail_pipeline_job share this guarded UPDATE.
Settle(j, s) == status' = [status EXCEPT ![j] = IF @ \in Terminal THEN @ ELSE s]

Finish(i, j) ==
    /\ pc[i][j] = "finish"
    /\ Settle(j, outcome[i][j])
    /\ Leave(i, j)
    /\ UNCHANGED <<payload, owner, fresh, cancelledAt, runVars, instanceVars, pool,
                   requestVars, runLock>>

\* The pipeline or the artifact index raises, or any statement when the store fails;
\* leaving the with statement releases the run lock.
Raise(i, j) ==
    /\ \/ pc[i][j] \in {"lock", "run", "record"}
       \/ StoreMayFail /\ pc[i][j] \in {"claim", "read", "current", "finish"}
    /\ At(i, j, "except")
    /\ runLock' = IF pc[i][j] = "run" THEN Unlocked(LockOf(j)) ELSE runLock
    /\ UNCHANGED <<jobVars, runVars, instanceVars, pool, seen, outcome, requestVars>>

\* The except clause: fail_pipeline_job.
FailOnException(i, j) ==
    /\ pc[i][j] = "except"
    /\ Settle(j, "failed")
    /\ Leave(i, j)
    /\ UNCHANGED <<payload, owner, fresh, cancelledAt, runVars, instanceVars, pool,
                   requestVars, runLock>>

\* The except clause raises itself, from its log line or its UPDATE: the thread is
\* done and the row stays as it is.
HandlerFails(i, j) ==
    /\ StoreMayFail
    /\ pc[i][j] = "except"
    /\ Leave(i, j)
    /\ UNCHANGED <<jobVars, runVars, instanceVars, pool, requestVars, runLock>>

-----------------------------------------------------------------------------
Recovery(i) == MarkOrphans(i) \/ ListQueued(i) \/ Resubmit(i) \/ Serve(i)

InstanceNext(i) ==
    \/ Start(i) \/ Recovery(i) \/ RecoveryFails(i) \/ Shutdown(i) \/ Exit(i)
    \/ Crash(i) \/ Take(i)

Queueing(c) == CheckActive(c) \/ CreateJob(c) \/ Submit(c)

ClientNext(c) ==
    \/ Queueing(c) \/ SyncEnd(c)
    \/ \E i \in Instances :
        \/ \E body \in Payloads : RunRequest(c, i, body) \/ SyncRun(c, i, body)
        \/ \E j \in JobIds : RetryRequest(c, i, j)

\* The steps of a pool thread that nothing but the thread itself delays.
ThreadStep(i, j) ==
    \/ Claim(i, j) \/ ReadClaim(i, j) \/ TakeLock(i, j) \/ LockRefused(i, j)
    \/ Heartbeat(i, j) \/ RecordRun(i, j) \/ ReadCurrent(i, j) \/ Finish(i, j)
    \/ FailOnException(i, j)

TaskNext(i, j) ==
    \/ ThreadStep(i, j) \/ ReadCancel(i, j) \/ PipelineEnds(i, j)
    \/ Raise(i, j) \/ HandlerFails(i, j)

Next ==
    \/ \E i \in Instances : InstanceNext(i)
    \/ \E c \in Clients : ClientNext(c)
    \/ \E j \in JobIds : CancelRequest(j) \/ HeartbeatExpires(j)
    \/ \E i \in Instances, j \in JobIds : TaskNext(i, j)

Spec == Init /\ [][Next]_vars

(***************************************************************************)
(* Threads that can run do run; a stale heartbeat is a matter of time; a   *)
(* stage ends, because external commands have a deadline (strongly fair,   *)
(* as cancel checks interrupt it again and again).  Nothing makes users    *)
(* send requests, processes crash or stop, or anyone start an instance.    *)
(***************************************************************************)
Fairness ==
    /\ \A i \in Instances :
        /\ WF_vars(Recovery(i)) /\ WF_vars(Take(i)) /\ WF_vars(Exit(i))
        /\ \A j \in JobIds : WF_vars(ThreadStep(i, j)) /\ SF_vars(PipelineEnds(i, j))
    /\ \A c \in Clients : WF_vars(Queueing(c)) /\ WF_vars(SyncEnd(c))
    /\ \A j \in JobIds : WF_vars(HeartbeatExpires(j))

FairSpec == Spec /\ Fairness

-----------------------------------------------------------------------------
(* Properties.                                                             *)

\* Every variable has its type.
TypeOK ==
    /\ status \in [JobIds -> {"absent"} \cup Active \cup Terminal]
    /\ payload \in [JobIds -> Payloads \cup {None}]
    /\ owner \in [JobIds -> Instances \cup {None}]
    /\ fresh \in [JobIds -> BOOLEAN]
    /\ cancelledAt \in [JobIds -> BOOLEAN]
    /\ runs \in [JobIds -> Nat] /\ executions \in [JobIds -> Nat]
    /\ phase \in [Instances -> {"down", "mark", "list", "resubmit", "up", "draining"}]
    /\ todo \in [Instances -> SUBSET JobIds]
    /\ starts \in [Instances -> Nat]
    /\ pool \in [Instances -> Seq(JobIds)]
    /\ pc \in [Instances -> [JobIds -> {"none", "claim", "read", "lock", "run", "beat",
                                       "record", "current", "finish", "except"}]]
    /\ seen \in [Instances -> [JobIds -> BOOLEAN]]
    /\ outcome \in [Instances -> [JobIds -> Terminal \cup {None}]]
    /\ request \in [Clients -> {"idle", "check", "create", "submit", "sync"}]
    /\ server \in [Clients -> Instances \cup {None}]
    /\ wanted \in [Clients -> Payloads \cup {None}]
    /\ inserted \in [Clients -> JobIds \cup {None}]
    /\ runLock \in [Experiments -> Holder \cup {None}]

Runs(i, j) == pc[i][j] \in {"run", "beat"}

\* Two pipelines of one experiment never run together, whichever of the job
\* queue, another instance or a synchronous request started them
\* (_pipeline_run_lock; ARCHITECTURE.md: they may not overwrite the same outputs).
OneRunPerExperiment ==
    /\ \A i, k \in Instances, j, l \in JobIds :
        Runs(i, j) /\ Runs(k, l) /\ LockOf(j) = LockOf(l) => i = k /\ j = l
    /\ \A i \in Instances, j \in JobIds, c \in Clients :
        Runs(i, j) /\ request[c] = "sync" => LockOf(j) # WantedLock(c)
    /\ \A c, d \in Clients :
        /\ request[c] = "sync" /\ request[d] = "sync"
        /\ WantedLock(c) = WantedLock(d)
        => c = d

\* A job is cancelled only if somebody asked for it: neither a crash, a recovery,
\* another job's request nor a second executor can cancel it (request_pipeline_job_cancel).
CancelledOnlyOnRequest ==
    \A j \in JobIds : status[j] \in {"cancelled", "cancellation_requested"}
                        => cancelledAt[j]

\* A job that reads completed has its run record exactly if its request asked for one
\* (persist), whenever a process died on the way and whoever executed it
\* (_run_pipeline_job records the run before it settles the row).
CompletedHasRun ==
    \A j \in JobIds : status[j] = "completed" => (runs[j] > 0 <=> payload[j].persist)

\* Somebody is going to run every queued job: it waits in an executor, is about to be
\* submitted or claimed, or an instance is down or has not listed the queue yet.
Carried(j) ==
    \/ \E i \in Instances :
        \/ phase[i] \in {"down", "draining", "mark", "list"}
        \/ phase[i] = "resubmit" /\ j \in todo[i]
        \/ \E n \in 1..Len(pool[i]) : pool[i][n] = j
        \/ pc[i][j] = "claim"
    \/ \E c \in Clients : request[c] = "submit" /\ inserted[c] = j
QueuedIsCarried ==
    \A j \in JobIds : status[j] = "queued" => Carried(j)

\* A job is executed once at most, across crashes and restarts and whether or not the
\* first execution came to an end: a recovered job is failed, not run again (the guard
\* of claim_pipeline_job, recover_orphaned_jobs).
ExecutedAtMostOnce == \A j \in JobIds : executions[j] <= 1

\* A configuration has no more unfinished jobs than requests are handled at a time: the
\* check of has_active_pipeline_job ("block concurrent duplicate execution") fails only
\* those that passed it before the first of them inserted its row, however jobs end,
\* crash and are recovered.  One request at a time, one unfinished job.
DuplicatesBounded ==
    \A cfg \in Configs :
        Cardinality({j \in JobIds : status[j] \in Active /\ payload[j].config = cfg})
            <= Cardinality(Clients)

\* Only the worker that claimed a job goes on with it (_run_pipeline_job: a claim that
\* missed because another worker holds the job "gives up this execution").
OnlyOwnerExecutes ==
    \A i \in Instances, j \in JobIds :
        pc[i][j] \in {"lock", "run", "beat", "record"} => owner[j] = i

\* No step puts a row back into the queue: a retry is a new row.
NeverRequeued ==
    [][\A j \in JobIds : status'[j] = "queued" => status[j] \in {"absent", "queued"}]_vars

\* A finished row never changes (storage.py: "terminal states ... once entered, no way back").
TerminalIsFinal ==
    [][\A j \in JobIds : status[j] \in Terminal => status'[j] = status[j]]_vars

\* With several instances a finished row can change in one way only: the recovery of a
\* starting instance had read it as an orphan and fails it.
OnlyRecoveryRewrites ==
    [][\A j \in JobIds :
        status[j] \in Terminal /\ status'[j] # status[j]
        => /\ status'[j] = "failed"
           /\ \E i \in Instances : phase[i] = "mark" /\ j \in todo[i]]_vars

AllDown == \A i \in Instances : phase[i] = "down"

\* A job nobody cancels is finished eventually, unless the service goes down
\* (_recover_jobs_on_startup: "the DB state must converge").
JobsSettle ==
    \A j \in JobIds : status[j] \in {"queued", "running"}
                        ~> (status[j] \notin {"queued", "running"} \/ AllDown)

\* A job no thread works on, found by an instance that starts, does not stay that way
\* (_recover_jobs_on_startup, recover_orphaned_jobs).
Orphaned(j) == status[j] \in Executing /\ \A i \in Instances : pc[i][j] = "none"
StartupRecoversOrphans ==
    \A j \in JobIds, i \in Instances :
        (phase[i] = "mark" /\ Orphaned(j)) ~> (phase[i] = "down" \/ ~Orphaned(j))

\* The table promises what JobLifecycle says of each job (with one instance).
Lifecycle == INSTANCE JobLifecycle WITH requested <- cancelledAt
LifecycleSpec == Lifecycle!Spec
=============================================================================
