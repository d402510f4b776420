# TLA+ verification of vision-model-lab

vision-model-lab trains, exports, evaluates, packages and releases vision models. A
FastAPI service (`src/src/vision_model_lab/api.py`) keeps metadata in SQLite or
PostgreSQL (`storage.py`), runs experiment pipelines (`pipeline.py`, `adapters/`) on a
thread pool, builds model packages (`packaging/`, `trust.py`) and records registrations,
approvals and rollouts. Several service instances may share one database and one
workspace. This directory holds the models of that system, the TLC configurations that
check them and the proofs about them. Paths below are relative to
`src/src/vision_model_lab/` unless they start otherwise; `docs/` is that of the repository.

## 1. Inventory

| Component | State | Operations | Interacts through | What makes it correct |
|---|---|---|---|---|
| Asynchronous pipeline jobs (`api.py` 132-187, 443-554, 735-819; `storage.py` 485-663) | table `pipeline_jobs`, the executor's queue, local state of pool threads | run, retry, cancel, startup recovery, shutdown, claim, heartbeat, settle | the database; the pool; the run lock | a job runs at most once, ends once, is not lost; cancellation works; recovery converges |
| Experiment run lock (`pipeline.py` 28-90) | dictionary of thread locks, lock files under `artifacts/run-locks` | acquire without waiting, release | every run: CLI, synchronous request, pool thread | one run of an experiment at a time, in all processes; a dead holder does not block the next |
| Pipeline stages (`pipeline.py` 93-368) | stage payloads, report files | training, export, evaluation, packaging | adapters, cancel check, event sink | a failed or cancelled stage stops the run; only completed runs are packaged |
| Task adapters, external commands (`adapters/`) | child process, output collectors, produced files | start, poll, cancel, time out, collect | cancel check, log sink, file system | the command is gone when the stage has ended; only fresh files count |
| Job log (`api.py` 407-440, `adapters/local_tasks.py` 188-228, `storage.py` 665-761) | pending lines, batches in flight, table `pipeline_job_logs` | add, flush, record, list since an id, purge | two reader threads per command, the job thread, clients that follow a log | no line is lost or written twice; a follower misses no row; the log of a stage is complete when the stage has ended |
| Audit and result rows (`api.py` 504-537) | `audit_events`, `result_json` | written after settling | the job row | they say what the row says |
| Model package (`packaging/model_package.py`, `pipeline.py` 371-472, `utils.py` 85-122) | files of a package directory, digest cache of each process | create, validate | stage reports, registry | a package that validates is of one piece; a packaging that succeeds has delivered its own build |
| Trust gate (`trust.py`, `model_card.py`) | none | check stage reports before packaging, the card afterwards | stage reports, model card | only complete, real evidence makes a releasable package |
| Registry, approvals, rollouts (`api.py` 925-1038, `storage.py` 878-1005) | three tables | register, approve or reject, roll out | packages | only approved models that are no smoke models reach staging or production |
| Users, sessions, throttle (`api.py` 61-129, 583-623, `auth.py`, `storage.py` 1007-1068) | tables `users`, `auth_sessions`; failure counters | login, logout, change password, purge | every guarded endpoint | no session outlives a password change; bounded guessing |
| Schema and migrations (`storage.py` 45-343, 1173-1486, `cli.py` 128-191, `src/migrations/`) | the database file, its tables and columns, `alembic_version` | built-in DDL, removal of an empty file, stamp, upgrade | every service that starts, `vmlab storage migrate` | whoever reports success has the whole schema; an established database is not removed; a migration run again succeeds |
| Store connections (`storage.py` 346-412) | connections | connect, commit, roll back | all of the above | a transaction is atomic |
| Others: maintenance, datasets, uploads, validators, settings, command line, console, scripts | | | | see `PROJECT.json`, `components` |

What is hard here is concurrency and failure. Every database statement commits by itself,
so any two statements of one handler have others between them; several instances and
request threads work on one table; instances crash, restart and recover what they find;
cancellations race with every step of a job; heartbeats time out while stages run.
`PROJECT.json` lists each such hazard at its line, with the properties that cover it, or
a note where the code does not keep them.

How the models compose: `ExperimentRun` is a pipeline with its locks and commands;
`RunContract`, which it implements, is what `PipelineJobs` takes for granted of it.
`JobLog` is what the same job writes while it runs. `ModelPackage` is the package that
`ExperimentRun` builds in one step, file by file; `Release` extends it by what happens to
a package afterwards, and both ask `Evidence` what a package has to prove. `Sessions` and
`Schema` stand beside them; all share the store, where one call is one transaction.

## 2. Plan

Done, in the order of their weight:

1. `PipelineJobs` with its abstract specification `JobLifecycle`.
2. `ExperimentRun` (run lock, stages, external commands, packaging requests) with its
   abstract specification `RunContract`.
3. `JobLog`: buffer, transactions, follower, purge.
4. `Evidence`, `ModelPackage`, `Release`: creation file by file with failures, validation
   with the digest cache, registration, approvals and rollouts with concurrent requests.
5. `Sessions`: bootstrap, login, throttle, password change, purge.
6. `Schema`: built-in DDL against Alembic, an old database at every version.
7. The proofs of section 6.

Every invariant and action property that a run checks is now a theorem, and so are both
refinements. Left: a model of the PostgreSQL migration path; uploads.

## 3. Modules

### PipelineJobs

| Variable | Code |
|---|---|
| `status`, `payload`, `owner`, `cancelledAt` | columns `status`, `payload_json` (the request's body, with its configuration), `worker_id`, `cancelled_at` (set or not) of `pipeline_jobs`; `"absent"` is "no such row" |
| `fresh` | whether `heartbeat_at` is within `stale_after_seconds` (120 s) |
| `runs` | the `pipeline_runs` rows a job has written |
| `executions` | history: how often a pool thread went on to execute a job |
| `phase`, `todo`, `starts` | an instance between start and end: `mark` and `list` are the statements of `_recover_jobs_on_startup`, `resubmit` its loop, `up` serving, `draining` the shutdown that waits for pool threads; `todo` the ids a statement has read |
| `pool` | the queue of `EXECUTOR` |
| `pc`, `seen`, `outcome` | a pool thread in `_run_pipeline_job`: `claim`, `read`, `lock`, `run` (with `beat` inside `_CancelCheck`), `record`, `current`, `finish`, `except`; what `_CancelCheck` has seen; the status it will write |
| `request`, `server`, `wanted`, `inserted` | a request thread between the statements of `_queue_pipeline_job`, or in a synchronous run |
| `runLock` | the holder of the run lock of each experiment |

One action per database statement, lock operation or queue operation:
`Start`/`MarkOrphans` are the SELECT and the UPDATE of `recover_orphaned_jobs`,
`ListQueued`/`Resubmit`/`Serve` the rest of the startup, `RecoveryFails` its `except`;
`RunRequest`, `RetryRequest`, `CheckActive`, `CreateJob`, `Submit`, `CancelRequest`,
`SyncRun`, `SyncEnd` are requests; `Take` to `HandlerFails` are the life of a pool thread.
`Crash` ends a process at any point and keeps the table.

Abstractions: job log and audit rows are left out; of a request's body the configuration
and `persist`, which decides about the run record, are kept; time is `HeartbeatExpires`, possible at any moment for a job
whose stage sends no heartbeat; a pipeline is a stay at `run` with any number of cancel
checks and ends in completed or failed, or cancelled or failed once a request was seen;
the run lock is taken and released in one step. `StoreMayFail` lets the statements of the
startup recovery and of the pool threads raise; statements of requests do not fail (the
request would be answered with an error and change nothing).
An instance that starts again keeps its worker id `host:pid`, as in a container; a restart
under another id is the start of another instance.

### JobLifecycle

What the table promises of one job: queued, running, asked to stop, settled once. It is
the abstract specification of `PipelineJobs` with a single instance (`requested` is
`cancelledAt`). With two instances the promise is broken (section 5).

### ExperimentRun

One experiment, and the calls that work on its directory.

| Variable | Code |
|---|---|
| `threadLock`, `fileLock` | the `threading.Lock` of the experiment in `_PIPELINE_LOCKS` of each process; the `flock` on its file under `artifacts/run-locks` |
| `pc`, `cmd` | where a call is, and at which of the commands `preflight`, `training`, `export`, `evaluation` |
| `asked`, `seen` | the job is in `cancellation_requested`; `_CancelCheck._cancelled` |
| `alive`, `written`, `exited` | commands with a process left; those that have written; `process.poll()` of the one a call waits for |
| `before` | `checkpoint_before`, `produced_before`, `metrics_before` |
| `result`, `report` | what the command, then the stage came to; what the call returned or raised |
| `file`, `target` | `produced_checkpoint`, `produced_onnx`, `produced_metrics`; the ONNX file in the experiment's export directory |
| `reports`, `evidence` | `train.report.json`, `export.report.json`, `eval.report.json`; `stage_payloads`, or the reports a packaging request has read |
| `package` | the model package |
| `down` | processes that have died |

`TakeThreadLock` to `ReleaseThreadLock` are `_pipeline_run_lock`, one action per lock
operation, `MakeLockDir` the `ensure_dir` before its `try`. `CheckBetweenStages`,
`EnterStage`, `Spawn`, the poll loop (`CommandEnded`, `CancelCommand`, `Deadline`),
`Terminate`, the `Settle` actions, `CopyProduct` and `FinishStage` are a stage of a
production adapter; `StageEnds` is what every end of a stage does (payload, report file,
next stage or return, an event sink that may raise), `StageRaises` is `_run_stage_safely`
catching an exception. `Gate`, `ReadReport`, `BuildPackage` and `PackageFails` are the
packaging, also of `/api/packages/create` (`RequestPackage`). `CommandWrites`,
`CommandExits` and `Crash` are the world outside.

Abstractions: the content of a file is the call whose command wrote it and the call whose
file that command read; a command writes once and reads when it writes; `preflight` writes
nothing. ONNX checks, thresholds and manifests pass or fail. SIGKILL works, and a command
that exits by itself leaves no descendants; with `Stubborn` it may leave some when it obeys
SIGTERM. An ONNX file named in a packaging request is the experiment's. The package is built
in one step. An evaluation that finds no ONNX file exports once more (`local_tasks.py`
910-921); it is left out, since a run evaluates the file its own export has just reported
and nothing in the program deletes it. Adapters are production adapters
(`requires_external_artifacts`). File errors (`FilesMayFail`) are those of creating and
writing; `StoreMayFail` is the store in the cancel check and in the event sink of a job.

### RunContract

What callers of `run_experiment_pipeline` rely on: runs exclude each other; one that has
heard of its cancellation does not complete; one that has not does not report cancelled;
refusals come before entering. `PhaseOf` and `VerdictOf` are the refinement mapping. A run
counts as entered from taking the flock to dropping it.

### JobLog

The log of one job, from the pipes of its commands to a client that follows it.

| Variable | Code |
|---|---|
| `pc`, `stage` | the job thread: event sink before and after a stage (`api.py` 481-483), `spawn` to `join` in `local_tasks.py`, the last flush of the job |
| `reader`, `late`, `count` | the two threads of `_StreamCollector`; those the job goes on without, because `join(timeout=5)` has run out or an error left the poll loop and nothing was joined; lines read |
| `pending`, `due` | `_JobLogBuffer._pending`; `max_interval` has passed since `_last_flush` |
| `batch`, `open` | what a thread has taken under the lock and not inserted yet; the uncommitted rows of its `record_pipeline_job_logs` |
| `lastId`, `rows`, `gone` | the id sequence and the committed rows of `pipeline_job_logs`; entries that are lost or purged |
| `cursor`, `shown` | the `since_id` of a client and what it has received |

`ReadLine` is `add`: it appends under the lock and, when 200 lines or a second have come
together, takes the whole buffer; `InsertRow` and `Commit` write the batch after the lock is
free. `Flush` and `Emit` are the event sink, which flushes before it records an event;
`JoinTimesOut` and `Joined` the end of a command, `CheckRaises` the cancel check that raises
in the poll loop (`local_tasks.py` 346; `_CancelCheck` catches `KeyError` only);
`WriteFails` an error in a batch (the buffer swallows it) or in an event (the job ends);
`Poll` is `list_pipeline_job_logs`, `Purge` the maintenance, `Crash` the end of the process.
`Backend` decides who may write beside whom and what an error rolls back: the shared
in-memory connection is never rolled back. Left out: the text of a line, the copy of the
output kept for the report. That lines of one stream stay in order is not a property: a
reader and the job thread write their batches in any order.

### Evidence, ModelPackage, Release

`Evidence` has no state: `GateIssues` is `validate_package_trust`, `CardOf` is
`build_model_card_data`, `CardIssues` and `StrictIssues` are `validate_model_card` without
and with `strict_provenance`. A comparison of texts or numbers is a field that says how it
turns out; the checks a card of this program passes whatever the configuration says are left
out (sections and fields that are there, the version, precision and format of the artifact
name, path and digest of the configuration). `LeftToTheCard` is what the gate does not look
at.

| Variable | Code |
|---|---|
| `model`, `card`, `labels`, `examples` | the files of a package, each replaced atomically; a build stands for an exported ONNX file with its reports |
| `cache` | `_DIGEST_CACHE` of each process, for this path |
| `pc`, `build`, `strict`, `stat`, `digest`, `read` | a thread in `create_model_package` (`copy` to `examples`) or `validate_model_package` (`check ...`), and its local variables |
| `want`, `registry` | the stage a registration asks for; the stage column of `model_registry` |
| `approvals`, `approver` | `release_approvals`, oldest first; an approval between its check and its insert |
| `deployer`, `rollouts` | `create_deployment_rollout` between its reads; `deployment_rollouts` |
| `proven` | history: which builds had a package accepted for more than smoke; copied into approvals and rollouts |

`Create` passes the trust gate; `CopyModel`, `HashModel`, `WriteLabels`, `WriteCard`,
`CopyExamples` write one file each in the code's order; then the same thread validates
(`CheckStat`, `CheckRead` or `FromCache`, `CheckCard`, `CheckSidecars`). `Stat` and
`ReadAll` are the two halves of `sha256_file`. `CreateFails`, `Dies` and `Evict` break off,
die, or empty the cache. `Register` validates strictly for everything but smoke and
`Upsert` writes the row; `CheckRow` and `RecordApproval`, `ReadRegistry`, `FindApproval`,
`FindTarget` and `RecordRollout` are one call of the store each. Left out: packages of
`vmlab package create`, which bring a card of their own; the texts of a decision; traffic.

### Sessions

| Variable | Code |
|---|---|
| `password` | the user row: 0 is no row, each change is the next number |
| `state`, `holder`, `born` | a row of `auth_sessions` (revoked, expired, deleted); its user; the password stored when it was inserted |
| `admitted` | requests that `auth_middleware` has let in and that may still log out |
| `failures`, `locked` | `_LoginThrottle._failures` of each instance: the count, and whether `blocked_until` is in the future |
| `pc`, `at`, `who`, `found` | a login between throttle, lookup, hash and insert |
| `cli`, `target` | `vmlab user set-password` between its statements |
| `boot`, `starts`, `reported` | the start of an instance: count users, create the administrator, announce its password, purge |

Passwords are numbers because only "the one that was stored then" and "the one that is
stored now" matter. Left out: hashing, roles, the static API token.

### Schema

| Variable | Code |
|---|---|
| `path`, `files`, `created` | which file is at the path; whether each file has its first page, its tables, the two columns of revision 060, its version; a removed file stays with those who have it open |
| `pc`, `conn`, `at`, `seen` | an actor in `initialize` (`look` to `alter`), in `_needs_alembic_stamp` (`check`), in Alembic's `stamp` or `upgrade` (revisions `040`, `050`, `060`); its connection; the next table; `PRAGMA table_info` |
| `starts`, `failed` | bounds |

`Look` and `Unlink` are the two halves of `_reset_empty_database_files`, `Raise` the retry
of `initialize` after an error. `Unlink` removes the file and its companions in one step;
the code removes them one after the other (`storage.py` 333-342), and what SQLite makes of a
new file beside the WAL of an old one is left out. `EnterWal` writes the first page into the
file itself, as SQLite does, so a file without a page has an empty WAL; in a removed file
`journal_mode=WAL` fails and `_configure_journal_mode` falls back to a mode that writes
nothing (297-301). A removed file refuses the first `CREATE TABLE` of a connection, and goes
on to take the statements of one that has written to it; that the file at the path may be
another one by then is left out too, as are errors of a migration whose file is removed
after its first statement. `CreateTable`, `ReadColumns`, `AddColumn` are the built-in DDL,
whose statements commit one by one; `BaseTable` creates without looking, as revision 040
does, `AuthTable` looks first, `StampHead` sets the last version whatever is there. Every
table of the two revisions is one element of a sequence; columns other than the two of
revision 060, indexes and rows are left out. This is SQLite; PostgreSQL is described in
section 5.

### Proofs and MC modules

The theorems (section 6) are in `PipelineJobsProofs` and `JobLifecycleProofs` (about
`PipelineJobs`), `ExperimentRunProofs` and `RunProductsProofs` (about `ExperimentRun`),
`JobLogProofs`, `ReleaseProofs`, `SessionsProofs` and `SchemaProofs`. `MCPipelineJobs`,
`MCExperimentRun`, `MCJobLog`, `MCRelease`, `MCSessions` and `MCSchema` hold the instances
of the constants for TLC.

## 4. Runs

Deadlock is checked in `release`, where the calls never run out. Elsewhere it is not: users
may stop sending requests, operators may stop starting services, and the numbers of jobs,
starts, lines and calls are bounded. The jobs and experiment runs use one experiment, so
that the run lock is contended.

| Run | Bounds (jobs runs: instances, requests, jobs, starts) | Shows |
|---|---|---|
| `jobs_single` | 1, 2, 2, twice, 2 pool threads, 2 configurations, whose requests do and do not ask for a run record, store errors | types; a job is executed once at most; a completed one has a run record if and only if one was asked for; a finished row stays; `JobLifecycle` is implemented; the inductive invariant |
| `jobs_cluster` | 2, 1, 2, once each (symmetric) | runs exclude each other; cancelled only on request; nothing is requeued; only a recovery can rewrite a finished row |
| `jobs_serial` | 1, 1, 2, twice, with fairness | no more unfinished jobs of a configuration than requests handled at a time, here one; every queued job is in somebody's hands; every job nobody cancels is finished; a restart recovers what the crash left |
| `run_exclusive` | runs in 2 processes, preflight, packaging, one of a job, no faults, with fairness | no two calls have commands at work; none outlives its call; packages are of one piece and of one run; every call ends and frees its locks although nothing makes a command end |
| `run_faults` | runs in 2 processes that may die, store and file errors, descendants that ignore SIGTERM | the inductive invariant; exclusion; a run that has seen its cancellation delivers nothing; `RunContract` is implemented |
| `run_requests` | 2 runs in threads of one process (symmetric), a packaging request in another | types; refused only while another call is active |
| `job_log` | 2 stages, one of them with a command and its two readers, a line each, buffer of 2, pages of 2, one purge; SQLite, write errors, a crash, with fairness | types; every line is in one place; the log is complete when it says so; a follower misses no row and sees every line that is kept |
| `sessions` | 2 instances, 2 logins, 2 password changes at a time and 2 in all, 1 user, 1 host, 1 token, limit 1, one start each, store errors (symmetric) | overlapping logins pass the limit by less than their number; no session outlives a finished change; one administrator |
| `release` | 3 builds (good; good without a revision; smoke, with the size and time of the good one), 2 packagings in one process, registrations in another, 1 failure, 2 model ids, 2 approvals of which a rollout sees 1, one rollout | an accepted package is of one piece; a packaging that succeeds has delivered; rollouts follow an approval that followed evidence |
| `schema` | 2 services, a migration that is repeated, 2 failures, 4 files, 6 databases to begin with, with fairness | success means the whole schema; a database with a page, once those who saw it without one are through, is removed no more; the migration succeeds in the end |
| `v_owner`, `v_reset` | | section 5 |

The bounds are the smallest in which the races exist: two jobs for contention and overtaking
in the queue, two requests for check-then-insert (with two, `DuplicatesBounded` needs three
jobs to say something; it was checked there too, with one start), two instances for claims
and recoveries that cross, two starts for a recovery of what the first left behind. Bounds
are `JobIds` (rows; requests only arrive while an id is left), `MaxStarts` and `Workers`. In
`ExperimentRun` two calls are the smallest in which locks, leftovers and replaced files
matter; a call is made once, so that `Calls` is the only bound. `OneWriter`,
`TreesTerminated`, `OnePiece`, `RefusedOnlyWhileActive` and the liveness properties are
checked without faults, because the code keeps them only then (section 5). In `JobLog` two
readers and the job thread are all that share a buffer; a buffer of two entries is full, or
not full, with the two lines there are, and a page of two splits what two lines and the
events of two stages write. In `Sessions` two of each meet at every pair of statements, two
changes are needed for a revocation that a second change makes up for, and with limit 1 two
logins exceed it; one token is enough because `NoOldSession` is about one session at a time.
In `Release` two packagings are the smallest number with an older package to overwrite; the
builds cover a package that passes the gate and not the card, and a cache that mistakes one
file for another; an approval limit below the number of approvals lets one drop out. With
three packagings the invariants hold too. `Schema` starts from nothing, an empty file, the
tables of the built-in DDL of two older versions, and Alembic's 040 and 050; a base revision
of two tables is enough to die between them, and two failures let a migration die, run again
and die once more. The bounds `MaxFiles` and `MaxStarts` are never what stops a migration
(`MigrationSettles` holds). `Apart` makes services and migrations that find no table start
one after the other, which nothing in the code does: `UpIsComplete` needs it on an empty
database and only there. `v_reset` is the same system without it, beginning with no
database. `EstablishedStays` does not depend on it (section 6).

Fairness (`FairSpec`): pool threads, request threads and the startup that can run do run;
`PipelineEnds` is strongly fair since external commands have a deadline
(`adapters/local_tasks.py` 338-363) while cancel checks keep disabling the step;
a heartbeat goes stale when time passes. Nothing makes users act, processes crash or stop,
or an operator start an instance: the liveness properties except a service that is down.
In `ExperimentRun` a call that can go on does (weak fairness of all its steps together):
the poll loop always can, since the deadline is a number of seconds (`local_tasks.py` 342,
355). Commands need not end and users need not cancel.
In `JobLog` the job thread goes on, joins run out after 5 s, some thread that can write
does, and the client polls; nothing makes a command write or close its pipes. In `Schema`
a service that can go on does, and the migration is run again until it succeeds
(`StartMigration` is part of `Migrate`); failures are bounded by `MaxFailures`.

## 5. What the code does otherwise

Two runs check a statement of the code or its documents and find a behaviour that breaks it
(`PROJECT.json`, `findings`, quotes the line).

| Run | Behaviour |
|---|---|
| `v_owner` | an instance that starts resubmits a job queued in another one; its claim misses, it reads `running` and executes the job as well (`api.py` 495) |
| `v_reset` | two services start with no database; the second sees the file of the first while it is empty, the first enters WAL mode and creates a table, and the second removes the file with its WAL (`storage.py` 333), which a test says must never happen (`tests/test_storage.py` 259) |

The constants of the models also show what follows from one fault at a time; these
instances are not among the runs, and the hazards of `PROJECT.json` name their lines.

Jobs and runs:

- with two instances, one start each, `TerminalIsFinal` fails: a recovery reads a stale job,
  the job completes, the UPDATE by id makes it failed (`storage.py` 609);
- two requests both check, then both insert a job of one configuration (`api.py` 541):
  `DuplicatesBounded` bounds the unfinished jobs of a configuration by the requests handled
  at a time, and is one job each only if the requests come one after the other;
- a cancellation between the claim and the read of the claimed row makes the worker drop
  its own job, which stays in `cancellation_requested` until the next start (`api.py` 491);
- with `Stubborn`, `TreesTerminated` fails: a descendant ignores SIGTERM, the command does
  not, and no SIGKILL is sent (`local_tasks.py` 176; `docs/ARCHITECTURE.md` 93 says the
  process tree is terminated);
- with a packaging request, `OneWriter` fails: it exports without the run lock while a run
  is at work (`pipeline.py` 421; `docs/ARCHITECTURE.md` 95);

- with `FilesMayFail`, `RefusedOnlyWhileActive` and `LockComesFree` fail: `ensure_dir` may
  raise between the acquisition of the thread lock and the `try` (`pipeline.py` 50);
- with `StoreMayFail`, `OneWriter` fails: `_CancelCheck` catches `KeyError` only, and any
  other error leaves the poll loop with the command running (`local_tasks.py` 346);
- with `Crashes`, `OneWriter` fails: the commands of a dead process go on in their own
  sessions while the kernel frees the lock (`local_tasks.py` 303);
- with a packaging request, `OnePiece` fails: it may replace the ONNX file between the
  evaluation and the packaging of a run (`pipeline.py` 431);
- in `PipelineJobs`, a cancellation accepted after the worker's last read of the row ends
  in completed (`api.py` 525), and an instance that starts under a new worker id within
  120 s of a crash leaves the job running (`storage.py` 608).

Job log:

- a reader that is late may hold lines of the other stream in its batch, so that both are
  missing when the end of the stage is recorded (`local_tasks.py` 224, `api.py` 419);
- when the cancel check raises in the poll loop, the command goes on and no reader is joined:
  the end of the stage is recorded at once, its lines come after it, and what a reader adds
  after the last flush stays in the buffer (`local_tasks.py` 346, `api.py` 459).
  `LogComplete` and `LinesAppear` leave these readers out, like those whose join timed out;
- with `Backend = "postgresql"`, `NothingMissed` fails: ids are given out before the commit,
  and a follower that has seen a later id never asks for the earlier one (`storage.py` 713);
- batches of one stream that a reader and the job thread hold are written in any order
  (`api.py` 427);
- the interval is looked at when a line arrives: the last line before a pause stays in the
  buffer as long as the pause lasts (`api.py` 419; `docs/OPERATIONS.md` 131 speaks of a
  delay of about one second).

Packages and releases:

- with two creators of one package, `AcceptedIsConsistent` and `CreatedIsDelivered` fail: the
  card of one has the digest of the other's file (`model_package.py` 499). Packagings of one
  package do not exclude each other;
- a validation may get the digest of an older file of the same size and time from the cache
  (`utils.py` 107); `AcceptedIsConsistent` says so in its premise;
- no hash ties the labels to the rest: a packaging that breaks off leaves its own beside the
  card of the older package;
- the gate does not look at the experiment id, the code revision, the dataset ids, the
  layout, dtype and size of the input, and `deployment.max_batch_size`: a production build
  with one of them missing or invalid passes it, overwrites the older package and then fails
  its validation (`GateLeavesToTheCard`: the strict check of the card finds these and nothing
  else);
- an approval is that of a model id: it outlives a new registration, and a smoke package
  can be in place while a model approved earlier is rolled out (`api.py` 1019-1022;
  `docs/OPERATIONS.md` 122); only the newest 500 approvals are searched (`api.py` 1021).

Sessions: a login verified against the old password inserts its session after the change,
which then stays valid (`api.py` 601; `born` is the new password, so that `NoOldSession`
leaves it out); the generated password is lost when the process dies before it has
announced it (`api.py` 108).

Schema: two services that add the columns at the same time make one of them fail its start
once (`storage.py` 264). On PostgreSQL, which has no model, a service that starts before the
first migration creates the tables without a version, `_needs_alembic_stamp` returns
False for a DSN (`cli.py` 146), and the migration then stops at the first existing
table every time.

## 6. Proofs

`PipelineJobsProofs` proves for every choice of the constants (any number of instances,
requests, jobs, threads, starts; with or without store errors) that `Spec` implies
`[]TypeOK`, `[]OneRunPerExperiment`, `[]CancelledOnlyOnRequest`, `[]CompletedHasRun`,
`NeverRequeued` and `OnlyRecoveryRewrites`. The only assumption is `ConstantsAssumption`:
types, and that request threads, tasks, statuses and `None` are different things.

None of these is inductive. `IInv` adds what the threads know: `Progress` (a task past its
pipeline has a final outcome; a request under way knows its configuration and row),
`Known` (queues, lists, tasks and requests only name rows that exist, and rows never
change their configuration, so the lock a task releases is the lock it took), `LockHeld`
(whoever runs holds the lock), `Asked` (a task that saw a request, or will write
cancelled, works on a row with a recorded request) and `Recorded` (a job past
`record_pipeline_run` has a run row if and only if its request asked for it). One lemma per conjunct goes through the actions;
`RowsStay` (no row disappears or changes its configuration) and `StatusStep` (the edges of
the status diagram) are the two lemmas about steps. TLC checks `IInv` in `jobs_single`.

`JobLifecycleProofs` proves more of `PipelineJobs`, for any number of jobs, pool threads and
starts; the first two items under a premise, because without it the code does otherwise
(section 5):

- With one instance (`Sole`) and any store errors and crashes, `[]ExecutedAtMostOnce`,
  `TerminalIsFinal` and `LifecycleSpec`, the refinement of `JobLifecycle`. `SoleInv` says
  where a job is between its row and its execution: `InOneHand` (it is being submitted,
  listed by the recovery, queued or executed, one of these at a time, and queued once),
  `Quiet` (an instance that is down or recovers has nothing queued or executed), `Unstarted`
  (a row nobody has claimed has not been executed, and a job that waits to be claimed has
  no executing row), `RunsOnce` (a thread that finds its row running is the first), `Marking` (the rows a
  recovery is about to fail are unfinished) and `Heard` (a request that a task has seen
  stays visible). `Quiet`, `InOneHand` and `Marking` are what a second instance breaks.
  The refinement is one lemma per edge of the abstract diagram.
- Without store errors (`~StoreMayFail`), for any number of instances, `[]QueuedIsCarried`:
  every queued row is in somebody's hands, or a start is going to list it. With store errors
  it is false: a recovery that fails, or a task whose claim raises, leaves a row queued that
  nobody holds.
- For any finite number of requests and any number of instances, `[]DuplicatesBounded`, by
  `PlacesTaken`: the unfinished jobs of a configuration, together with the requests for it
  that are between their check and their insert, are no more than there are requests.

`ExperimentRunProofs` proves for any number of calls and processes and with every fault of
the model that `Spec` implies `[]TypeOK`, `[]RunsExclude`,
`[]CancelledRunsDeliverNothing` and `ContractSpec`, the refinement of `RunContract`. The
only assumption is `RunAssumption`: types, and that `None` is no call. `RunsExclude` is not
inductive: `LockHeld` adds which lock a call has at which label and that the flock belongs
to somebody inside. `CancelledRunsDeliverNothing` needs `Told`: a result or report
`cancelled` is one of a run that has seen its cancellation, a call about to package has not
seen any, and a call still at work has reported and delivered nothing. `Footprint` reduces
the steps of a stage to what the locks see of them (a move of one call along its path, no
lock touched), `EndingCautious` and `EndingTyped` treat the end of a stage once for all the
steps it is part of. `IInv` joins these; TLC checks it in `run_faults`. The refinement is
one step per action in `ContractStep`: steps of a stage are `Hear` or stutter,
`TakeFileLock` is `Enter` because the flock is free and `LockHeld` then has nobody inside,
`ReleaseFileLock` is `Finish`, `Crash` is `Die`. Under `~FilesMayFail` (a lock directory
that cannot be made leaves the thread lock taken for good, section 5) it also proves
`RefusedOnlyWhileActive`, with `HolderActive`: whoever has a thread lock is a call at work
in that process. Processes may die, store and commands may fail.

`RunProductsProofs` proves the rest of `run_exclusive`'s safety, for any number of runs and
processes, any outcome of the commands and file errors. `Graceful` excludes what cuts a call
off from its command: processes that die, a store that raises in the poll loop, and
descendants that ignore SIGTERM; each of these is a way to break the property in the code
(section 5). Under it `[]TreesTerminated`, packaging requests included, by `ExitsHeard`: a
call that polls has been told when its command is gone. With `LockedOnly` (no packaging
requests, which run the export without the lock) also `[]OneWriter`, `[]OnePiece` and
`[]FreshProducts`. The first is `TreesTerminated` and the exclusion of `IInv` together; for
the other two `ProductsInv` follows the products of the run that is inside through its
stages: from the fingerprint on the file of a stage is the old one or its own (`InStage`),
a fresh one is its own (`Accepted`), what is behind it is its own (`BehindIt`), and the
reports it packages are about these (`ReadyToPackage`). Nobody else can write while it is
inside, since a command at work belongs to a call that waits for it (`WritingKeeps`).
TLC found `TreesInv`, `ProductsInv` and `HolderActive` to hold on the instances of
`run_exclusive` and `run_requests` before they were proved.

`SessionsProofs` proves, for any number of instances, logins, users, hosts, tokens and
password changes, `[]TypeOK`, `[]AttemptsBounded`, `[]NoOldSession` and `[]BootstrapAgrees`
under `SessionsAssumption` (types, finitely many clients, an administrator among the users).
`AttemptsBounded` counts, and is inductive with the types: `Ask` adds a login to `Trying`
only below the limit, where there are at most all clients; `Reject` moves one from `Trying`
to the count. `NoOldSession` needs `Registered`: a login past its check belongs to a user
who has a password, so that a session is never born with none. `BootstrapAgrees` needs
`Announcing`, which takes in the instances that are about to announce. TLC checks the
properties in `sessions`.

`JobLogProofs` proves, for any number of stages, readers, lines, pages and purges, on every
backend, with failing writes and a process that dies, `[]TypeOK`, `[]EachLineOnce` and
`[]LogComplete`; and `[]NothingMissed` under the premise `Backend # "postgresql"` (with it,
the formula is false).

- `OnceInv` counts nothing, because a line's places are a set: `NoneLost` (every line read
  is pending, in a batch, in a transaction, stored or gone), `OnePlace` (in no two of
  these), `Single` (not twice in one) and `LinesOnly`. `EachLineOnce` follows since the set
  of places then has one element.
- `FirstInv` orders the writes: `ReadersOK` (a reader that reads belongs to the command
  being run, or the job went on without it), `FlushedOK` (the buffer is empty between the
  flush at the end of a stage and its row), `EndedOK` (the row of an end is written at the
  end only) and `LinesFirst` (whatever the stage has read is stored, with a smaller id, or
  gone by then).
- `IInv` is for the follower: `IdsOK`, the ids in use have been given out, and, where one
  thread writes at a time, `Ordered`: one transaction is open, and its ids lie above the
  committed ones and above the client's cursor.

`SchemaProofs` proves, for any sequences of tables, any number of services, starts,
failures and files, `[]TypeOK` and `EstablishedStays`, both whoever comes between: a file
that has a page keeps it (`PagesStay`), and nobody comes to remove it who has not looked
before (`NobodyRemoves`). `[]UpIsComplete` has a premise, `Founded`: there is a database
with tables to begin with, or those who find none start one after the other (`Apart`);
`v_reset` shows what happens without. `SchemaAssumption` has the types, that the built-in
schema has the jobs table, that Alembic's version table is none of the others, and that a
file without a page has nothing in it. In `SchemaInv`, `Alone` says that one actor is at
work while there is no table yet, `Serial` that starts come one after the other as long as
there is none, `ConnOK` that the file an actor works on is the one at the path, `DoneOK`
that what it has done so far is in that file, `RoleOK` that the migration comes to the
built-in DDL with the last version only.

`ReleaseProofs` proves, for any builds, reports, signatures, threads and bounds, `[]TypeOK`
and `[]DeliveredWasProven`, however many package at the same time; under the premise
`Alone`, one creator of the package, also `[]CreatedIsDelivered` and
`[]AcceptedIsConsistent`; and `GateLeavesToTheCard`, a fact about gate and card for all
reports. The assumptions are `PackageAssumption` and `ReleaseAssumption` (types, threads and
constants that differ). `Evidenced` carries the evidence from the registry row to the
approval and the rollout, each of which may work with what it read earlier; `Judged` says
that a strict validation in hand means a releasable card; `InHand` that a thread holds what
its label says it has read; `InPlace` and `OnePiece` that a lone creator's files are where
it put them and that every card names the digest of its own build. The last two fail without
`Alone`.

Only model-checked: liveness (`JobsSettle`, `StartupRecoversOrphans`, `CallsEnd`,
`LockComesFree`, `LinesAppear`, `MigrationSettles`), which is out of the prover's reach.

## 7. Not modelled

- Datasets and manifests, and the validators of other documents: pure passes over one file
  and one upsert.
- Uploads and the object store (`api.py` 860): file copies around one call of the store; a
  partial file can stay at its final name, and no modelled component reads it.
- The management console, scripts, Docker, CI: clients and packaging of the service.
- Settings and the other commands of the command line: constants, and calls of functions
  that are modelled with their component.
- Audit and artifact rows: inserted and listed, and nothing decides by them.
- Baseline adapters: computations without a command or a state of their own.
- `vmlab package create`: the same files with a card the caller brings.
- PostgreSQL's service and migration path, which runs in one transaction (section 5), and
  downgrades.

