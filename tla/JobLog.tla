------------------------------- MODULE JobLog -------------------------------
(***************************************************************************)
(* The log of one pipeline job: the reader threads of its external         *)
(* commands (_StreamCollector in local_tasks.py), the buffer they share    *)
(* with the job thread (_JobLogBuffer in api.py), the table                *)
(* pipeline_job_logs (storage.py), a client that follows the log with      *)
(* since_id and the periodic purge.                                        *)
(*                                                                         *)
(* A batch leaves the buffer under its lock and is written afterwards, row *)
(* by row, in a transaction of its own.  Left out: the text of a line, the *)
(* copy of the output kept for the report, other jobs' rows.               *)
(***************************************************************************)
EXTENDS Naturals, Sequences, FiniteSets, Functions

CONSTANTS
    Stages,        \* bound: external commands the job runs one after the other
    Streams,       \* "stdout" and "stderr"
    Readers,       \* pairs of a stage and a stream: one thread per pipe of a command
    MaxLines,      \* bound: lines a command writes to each stream
    MaxEntries,    \* _JobLogBuffer._max_entries, 200 in the code
    PageLimit,     \* rows a client asks for at a time
    MaxPurges,     \* bound: how often the purge runs
    Backend,       \* "sqlite", "postgresql", or "memory" (one shared connection)
    StoreMayFail,  \* whether transactions of the log may fail
    Crashes,       \* whether the process may die
    Job            \* the job thread

ASSUME LogAssumption ==
    /\ {MaxLines, MaxPurges} \subseteq Nat
    /\ {Stages, MaxEntries, PageLimit} \subseteq Nat \ {0}
    /\ Backend \in {"sqlite", "postgresql", "memory"}
    /\ {StoreMayFail, Crashes} \subseteq BOOLEAN
    /\ Streams \cap {"started", "ended"} = {}
    /\ Readers \subseteq (1 .. Stages) \X Streams
    /\ Job \notin Nat \X Streams

Threads == Readers \cup {Job}

\* What a row says: line n of a stream of a stage, or an event of the stage.
LineOf(r, n) == <<r[1], r[2], n>>
Event(k, kind) == <<k, kind, 0>>
Entries == (1 .. Stages) \X (Streams \cup {"started", "ended"}) \X (0 .. MaxLines)

VARIABLES
    pc,       \* where the job thread is
    stage,    \* the stage it is at
    reader,   \* of each reader thread: "absent", "reading" or "closed"
    late,     \* the readers it goes on without: the join has timed out, or there was none
    count,    \* how many lines each reader has read
    pending,  \* _JobLogBuffer._pending
    due,      \* whether max_interval has passed since _last_flush
    batch,    \* the entries a thread has taken and not inserted yet
    open,     \* the rows of its open transaction, as pairs of id and entry
    lastId,   \* the id sequence of pipeline_job_logs
    rows,     \* the committed rows
    gone,     \* entries lost with a failed write or a dead process, or purged
    cursor,   \* the id of the last row a client has received, its next since_id
    shown,    \* the lines it has received
    purges    \* how often the purge has deleted rows

jobVars == <<pc, stage, late>>
bufferVars == <<pending, due>>
writeVars == <<batch, open, lastId>>
clientVars == <<cursor, shown>>
vars == <<jobVars, reader, count, bufferVars, writeVars, rows, gone, clientVars, purges>>

PCs == {"before", "sayStarted", "spawn", "command", "join", "after", "sayEnded",
        "next", "finally", "leave", "done", "dead"}
Row == (Nat \ {0}) \X Entries

TypeOK ==
    /\ pc \in PCs /\ stage \in 1 .. Stages /\ late \subseteq Readers
    /\ reader \in [Readers -> {"absent", "reading", "closed"}]
    /\ count \in [Readers -> 0 .. MaxLines]
    /\ pending \in Seq(Entries) /\ due \in BOOLEAN
    /\ batch \in [Threads -> Seq(Entries)]
    /\ open \in [Threads -> SUBSET Row]
    /\ lastId \in Nat /\ cursor \in Nat /\ purges \in 0 .. MaxPurges
    /\ rows \subseteq Row /\ gone \subseteq Entries /\ shown \subseteq Entries

Init ==
    /\ pc = "before" /\ stage = 1 /\ late = {}
    /\ reader = [r \in Readers |-> "absent"]
    /\ count = [r \in Readers |-> 0]
    /\ pending = <<>> /\ due = FALSE
    /\ batch = [t \in Threads |-> <<>>]
    /\ open = [t \in Threads |-> {}]
    /\ lastId = 0 /\ rows = {} /\ gone = {} /\ cursor = 0 /\ shown = {} /\ purges = 0

-----------------------------------------------------------------------------
(* The buffer *)

Idle(t) == batch[t] = <<>> /\ open[t] = {}

\* Mutant: entries are put behind the batch of the thread as one.
TakeAsOne(t, entries) ==
    /\ batch' = [batch EXCEPT ![t] = @ \o <<entries>>]
    /\ pending' = <<>>
    /\ due' = FALSE

\* Mutant: the buffer is copied, not taken.
TakeCopy(t, entries) ==
    /\ batch' = [batch EXCEPT ![t] = entries]
    /\ pending' = entries
    /\ due' = FALSE

\* Thread t takes entries out of the buffer, which starts a new interval.
Take(t, entries) ==
    /\ batch' = [batch EXCEPT ![t] = entries]
    /\ pending' = <<>>
    /\ due' = FALSE

\* _JobLogBuffer.add: the line that makes a flush due takes the whole buffer.
Add(t, line) ==
    LET held == Append(pending, line) IN
    IF Len(held) >= MaxEntries \/ due
    THEN Take(t, held)
    ELSE pending' = held /\ UNCHANGED <<due, batch>>

\* Time passes, with or without anything in the buffer; it matters only to a reader that
\* has a line to come.
Tick ==
    /\ ~due /\ \E r \in Readers : reader[r] = "reading" /\ count[r] < MaxLines
    /\ due' = TRUE
    /\ UNCHANGED <<jobVars, reader, count, pending, writeVars, rows, gone, clientVars, purges>>

-----------------------------------------------------------------------------
(* Reader threads *)

\* A thread is in on_line until the line it has read is in the buffer or written.
ReadLine(r) ==
    /\ reader[r] = "reading" /\ Idle(r) /\ count[r] < MaxLines
    /\ count' = [count EXCEPT ![r] = @ + 1]
    /\ Add(r, LineOf(r, count[r] + 1))
    /\ UNCHANGED <<jobVars, reader, open, lastId, rows, gone, clientVars, purges>>

\* Every process that had the pipe has closed its end.
ReaderCloses(r) ==
    /\ reader[r] = "reading" /\ Idle(r)
    /\ reader' = [reader EXCEPT ![r] = "closed"]
    /\ UNCHANGED <<jobVars, count, bufferVars, writeVars, rows, gone, clientVars, purges>>

-----------------------------------------------------------------------------
(* Transactions *)

\* Mutant: ids are given out before the write lock.
MayInsertAny(t) == t \in Threads

\* SQLite and the shared connection admit one writer; PostgreSQL any number.
MayInsert(t) == Backend = "postgresql" \/ \A u \in Threads \ {t} : open[u] = {}

InsertRow(t) ==
    /\ batch[t] # <<>> /\ MayInsert(t)
    /\ open' = [open EXCEPT ![t] = @ \cup {<<lastId + 1, Head(batch[t])>>}]
    /\ batch' = [batch EXCEPT ![t] = Tail(@)]
    /\ lastId' = lastId + 1
    /\ UNCHANGED <<jobVars, reader, count, bufferVars, rows, gone, clientVars, purges>>

Commit(t) ==
    /\ batch[t] = <<>> /\ open[t] # {}
    /\ rows' = rows \cup open[t]
    /\ open' = [open EXCEPT ![t] = {}]
    /\ UNCHANGED <<jobVars, reader, count, bufferVars, batch, lastId, gone, clientVars, purges>>

\* The buffer swallows the error of a batch; that of an event ends the job.
\* The shared connection is not rolled back and keeps the rows it has.  Ids that a
\* rollback gives back on SQLite have never been visible: they are left unused here.
WriteFails(t) ==
    /\ StoreMayFail /\ ~Idle(t)
    /\ batch' = [batch EXCEPT ![t] = <<>>]
    /\ open' = [open EXCEPT ![t] = {}]
    /\ IF Backend = "memory"
       THEN rows' = rows \cup open[t] /\ gone' = gone \cup Range(batch[t])
       ELSE gone' = gone \cup Range(batch[t]) \cup {e[2] : e \in open[t]} /\ UNCHANGED rows
    /\ pc' = IF t = Job /\ pc \in {"spawn", "next"} THEN "finally" ELSE pc
    /\ UNCHANGED <<stage, late, reader, count, bufferVars, lastId, clientVars, purges>>

-----------------------------------------------------------------------------
(* The job thread *)

At(where, next) == pc = where /\ pc' = next /\ Idle(Job)

\* log_buffer.flush(): first thing of event_sink, and the finally of the job.
Flush ==
    /\ \/ At("before", "sayStarted")
       \/ At("after", "sayEnded")
       \/ At("finally", "leave")
    /\ Take(Job, pending)
    /\ UNCHANGED <<stage, late, reader, count, open, lastId, rows, gone, clientVars, purges>>

\* record_pipeline_job_log, when the flush is over.
Emit ==
    /\ \E kind \in {"started", "ended"} :
          /\ At(IF kind = "started" THEN "sayStarted" ELSE "sayEnded",
                IF kind = "started" THEN "spawn" ELSE "next")
          /\ batch' = [batch EXCEPT ![Job] = <<Event(stage, kind)>>]
    /\ UNCHANGED <<stage, late, reader, count, bufferVars, open, lastId, rows, gone, clientVars, purges>>

Spawn ==
    /\ At("spawn", "command")
    /\ reader' = [r \in Readers |-> IF r[1] = stage THEN "reading" ELSE reader[r]]
    /\ UNCHANGED <<stage, late, count, bufferVars, writeVars, rows, gone, clientVars, purges>>

\* external.spawn_failed, or a stage without a command.
NoCommand ==
    /\ At("spawn", "after")
    /\ UNCHANGED <<stage, late, reader, count, bufferVars, writeVars, rows, gone, clientVars, purges>>

\* It exits, is cancelled or reaches its deadline.
CommandEnds ==
    /\ At("command", "join")
    /\ UNCHANGED <<stage, late, reader, count, bufferVars, writeVars, rows, gone, clientVars, purges>>

\* The cancel check asks the store, and an error of the store leaves the poll loop: the
\* stage has failed, but nothing is terminated and no reader is waited for.
CheckRaises ==
    /\ StoreMayFail /\ At("command", "after")
    /\ late' = late \cup {r \in Readers : r[1] = stage /\ reader[r] = "reading"}
    /\ UNCHANGED <<stage, reader, count, bufferVars, writeVars, rows, gone, clientVars, purges>>

\* A descendant keeps the pipe open, or a write takes long: 5 s and on it goes.
JoinTimesOut(r) ==
    /\ pc = "join" /\ r[1] = stage /\ reader[r] = "reading"
    /\ late' = late \cup {r}
    /\ UNCHANGED <<pc, stage, reader, count, bufferVars, writeVars, rows, gone, clientVars, purges>>

\* Mutant: the readers are not waited for.
JoinedAtOnce ==
    /\ At("join", "after")
    /\ UNCHANGED <<stage, late, reader, count, bufferVars, writeVars, rows, gone, clientVars, purges>>

Joined ==
    /\ At("join", "after")
    /\ \A r \in Readers : r[1] = stage => reader[r] = "closed" \/ r \in late
    /\ UNCHANGED <<stage, late, reader, count, bufferVars, writeVars, rows, gone, clientVars, purges>>

NextStage ==
    /\ At("next", "before") /\ stage < Stages
    /\ stage' = stage + 1
    /\ UNCHANGED <<late, reader, count, bufferVars, writeVars, rows, gone, clientVars, purges>>

\* The last stage, or one that has failed or was cancelled.
Finish ==
    /\ At("next", "finally") \/ At("leave", "done")
    /\ UNCHANGED <<stage, late, reader, count, bufferVars, writeVars, rows, gone, clientVars, purges>>

Crash ==
    /\ Crashes /\ Backend # "memory" /\ pc \notin {"done", "dead"}
    /\ pc' = "dead"
    /\ gone' = gone \cup Range(pending)
                    \cup UNION {Range(batch[t]) \cup {e[2] : e \in open[t]} : t \in Threads}
    /\ reader' = [r \in Readers |-> "closed"]
    /\ pending' = <<>> /\ due' = FALSE
    /\ batch' = [t \in Threads |-> <<>>]
    /\ open' = [t \in Threads |-> {}]
    /\ UNCHANGED <<stage, late, count, lastId, rows, clientVars, purges>>

-----------------------------------------------------------------------------
(* The client and the maintenance *)

\* Mutant: since_id is taken for the first id that is wanted next.
PageFromNext(since) ==
    LET later == {e \in rows : e[1] > since + 1} IN
    {e \in later : Cardinality({d \in later : d[1] < e[1]}) < PageLimit}

\* list_pipeline_job_logs(since_id): ORDER BY id ASC LIMIT.
Page(since) ==
    LET later == {e \in rows : e[1] > since} IN
    {e \in later : Cardinality({d \in later : d[1] < e[1]}) < PageLimit}

Poll ==
    /\ \E last \in Page(cursor) :
          /\ \A e \in Page(cursor) : e[1] <= last[1]
          /\ cursor' = last[1]
    /\ shown' = shown \cup {e[2] : e \in {d \in Page(cursor) : d[2][2] \in Streams}}
    /\ UNCHANGED <<jobVars, reader, count, bufferVars, writeVars, rows, gone, purges>>

\* purge_old_records: a row's age follows its id, up to the time of a transaction.
\* The ids are AUTOINCREMENT (BIGSERIAL): none is given again.
Purge ==
    /\ purges < MaxPurges
    /\ \E n \in {e[1] : e \in rows} :
          LET old == {e \in rows : e[1] <= n} IN
          /\ rows' = rows \ old
          /\ gone' = gone \cup {e[2] : e \in old}
    /\ purges' = purges + 1
    /\ UNCHANGED <<jobVars, reader, count, bufferVars, writeVars, clientVars>>

-----------------------------------------------------------------------------
Write(t) == InsertRow(t) \/ Commit(t)
JobStep ==
    \/ Flush \/ Emit \/ Spawn \/ NoCommand \/ CommandEnds \/ CheckRaises \/ Joined
    \/ NextStage \/ Finish

Next ==
    \/ Tick \/ JobStep \/ Crash \/ Poll \/ Purge
    \/ \E t \in Threads : InsertRow(t) \/ Commit(t) \/ WriteFails(t)
    \/ \E r \in Readers : ReadLine(r) \/ ReaderCloses(r) \/ JoinTimesOut(r)

Spec == Init /\ [][Next]_vars

\* The job thread goes on, commands have a deadline and joins a time limit; of the
\* threads that can write one does; the client keeps asking.  Nothing makes a
\* command write or close its output.
FairSpec ==
    /\ Spec
    /\ WF_vars(JobStep \/ \E r \in Readers : JoinTimesOut(r))
    /\ WF_vars(\E t \in Threads : Write(t))
    /\ WF_vars(Poll)
-----------------------------------------------------------------------------
(* Properties *)

\* Where an entry is: in the buffer, in a thread's batch or transaction, in the
\* table, or lost.
Places(l) ==
    {<<"pending", i>> : i \in {j \in DOMAIN pending : pending[j] = l}}
        \cup {<<"row", e[1]>> : e \in {d \in rows \cup UNION {open[t] : t \in Threads} : d[2] = l}}
        \cup {<<"gone", 0>> : g \in {l} \cap gone}
        \cup UNION {{<<"batch", t, i>> : i \in {j \in DOMAIN batch[t] : batch[t][j] = l}} : t \in Threads}

\* Two readers and the job thread share the buffer, and each writes what it has
\* taken after the lock is free: every line is in exactly one place, so no line is
\* lost unless its write fails, the process dies or it is purged, and none is
\* written twice.
EachLineOnce ==
    \A r \in Readers : \A n \in 1 .. count[r] : Cardinality(Places(LineOf(r, n))) = 1

Stored(l, before) == l \in gone \/ \E e \in rows : e[2] = l /\ e[1] < before

\* Stage events flush the buffer first, and the end of the job flushes it again:
\* the row that says a stage has ended comes after every line of its command, and
\* when the job is over no line is left - unless the job went on without a reader,
\* because a join timed out or a cancel check raised, which may be about to write
\* lines of the other one as well.
LogComplete ==
    \A r \in Readers : \A n \in 1 .. count[r] :
        /\ \A e \in rows : e[2] = Event(r[1], "ended") /\ (\A q \in late : q[1] > r[1])
                               => Stored(LineOf(r, n), e[1])
        /\ pc = "done" /\ late = {} => Stored(LineOf(r, n), lastId + 1)

\* A client that follows the log by since_id gets every row: none is committed
\* with an id it has passed.
NothingMissed == [][\A e \in rows' \ rows : e[1] > cursor]_vars

\* A line is shown to such a client, unless it is lost or the job went on without its
\* reader, whatever the command does afterwards.
LinesAppear ==
    \A r \in Readers : \A n \in 1 .. MaxLines :
        count[r] >= n ~> r \in late \/ LineOf(r, n) \in gone \cup shown
=============================================================================
