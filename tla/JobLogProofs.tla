---------------------------- MODULE JobLogProofs ----------------------------
(***************************************************************************)
(* What the log of a job keeps, and when: for any number of stages,        *)
(* readers, lines, pages and purges, every line that was read is in one    *)
(* place and before the end of its stage, on any backend; and a client     *)
(* that follows the log by since_id misses no row where the backend        *)
(* admits one writer, as ids are given out in the order of the commits.    *)
(***************************************************************************)
EXTENDS JobLog, TLAPS, FiniteSetTheorems

\* The ids in use, all of them given out.
IdsOK ==
    /\ lastId \in Nat /\ cursor \in 0 .. lastId
    /\ \A e \in rows : e[1] \in 1 .. lastId
    /\ \A t \in Threads : \A e \in open[t] : e[1] \in 1 .. lastId
    /\ DOMAIN open = Threads

\* One transaction is open at a time, and its rows come after all that is committed
\* and all that has been seen.
Ordered ==
    /\ \A t, u \in Threads : open[t] # {} /\ open[u] # {} => t = u
    /\ \A t \in Threads : \A e \in open[t] : e[1] > cursor /\ \A d \in rows : d[1] < e[1]

\* The inductive invariant.
IInv == IdsOK /\ (Backend # "postgresql" => Ordered)

\* A page is a part of the table.
LEMMA PageOfRows == \A since : Page(since) \subseteq rows
BY DEF Page

\* A step that leaves the table, the transactions and the client alone.
LEMMA Elsewhere ==
  ASSUME IInv, UNCHANGED <<rows, open, lastId, cursor>>
  PROVE  IInv'
BY DEF IInv, IdsOK, Ordered

\* A transaction that ends leaves its rows, or some of them, in the table.
LEMMA Ends ==
  ASSUME IInv, NEW t \in Threads, open' = [open EXCEPT ![t] = {}],
         rows' \subseteq rows \cup open[t], UNCHANGED <<lastId, cursor>>
  PROVE  IInv'
<1>1. /\ open'[t] = {} /\ \A u \in Threads \ {t} : open'[u] = open[u]
      /\ DOMAIN open' = Threads
  BY DEF IInv, IdsOK
<1>2. IdsOK'
  BY <1>1 DEF IInv, IdsOK
<1>3. ASSUME Backend # "postgresql" PROVE Ordered'
  <2>1. Ordered
    BY <1>3 DEF IInv
  <2>2. ASSUME NEW u \in Threads, NEW e \in open'[u]
        PROVE  e[1] > cursor' /\ \A d \in rows' : d[1] < e[1]
    <3>1. u # t /\ e \in open[u] /\ open[t] = {}
      BY <1>1, <2>1, <2>2 DEF Ordered
    <3> QED BY <2>1, <3>1 DEF Ordered
  <2>3. \A u, w \in Threads : open'[u] # {} /\ open'[w] # {} => u = w
    BY <1>1, <2>1 DEF Ordered
  <2> QED BY <2>2, <2>3 DEF Ordered
<1> QED BY <1>2, <1>3 DEF IInv

\* Every step keeps the ids in order; the ones that touch them are those of a
\* transaction, of the client and of the purge.
LEMMA StepKeeps ==
  ASSUME IInv, [Next]_vars
  PROVE  IInv'
<1> USE DEF jobVars, bufferVars, writeVars, clientVars
<1>1. CASE Tick
  BY <1>1, Elsewhere DEF Tick
<1>2. CASE JobStep
  BY <1>2, Elsewhere DEF JobStep, Flush, Emit, Spawn, NoCommand, CommandEnds, CheckRaises, Joined,
                         NextStage, Finish, Take
<1>3. CASE Crash
  <2>1. /\ open' = [t \in Threads |-> {}] /\ UNCHANGED <<rows, lastId, cursor>>
    BY <1>3 DEF Crash
  <2> QED BY <2>1 DEF IInv, IdsOK, Ordered
<1>4. CASE Poll
  <2>1. /\ cursor' \in {e[1] : e \in rows}
        /\ UNCHANGED <<rows, open, lastId>>
    BY <1>4, PageOfRows DEF Poll
  <2> QED BY <2>1 DEF IInv, IdsOK, Ordered
<1>5. CASE Purge
  <2>1. rows' \subseteq rows /\ UNCHANGED <<open, lastId, cursor>>
    BY <1>5 DEF Purge
  <2> QED BY <2>1 DEF IInv, IdsOK, Ordered
<1>6. ASSUME NEW t \in Threads, InsertRow(t) PROVE IInv'
  <2> DEFINE new == <<lastId + 1, Head(batch[t])>>
  <2>1. /\ open' = [open EXCEPT ![t] = open[t] \cup {new}]
        /\ lastId' = lastId + 1 /\ UNCHANGED <<rows, cursor>> /\ MayInsert(t)
    BY <1>6 DEF InsertRow
  <2>2. new[1] = lastId + 1
    OBVIOUS
  <2> HIDE DEF new
  <2>3. /\ open'[t] = open[t] \cup {new} /\ DOMAIN open' = Threads
        /\ \A u \in Threads \ {t} : open'[u] = open[u]
    BY <2>1 DEF IInv, IdsOK
  <2>4. IdsOK'
    BY <2>1, <2>2, <2>3 DEF IInv, IdsOK
  <2>5. ASSUME Backend # "postgresql" PROVE Ordered'
    <3>1. \A u \in Threads \ {t} : open'[u] = {}
      BY <2>1, <2>3, <2>5 DEF MayInsert
    <3>2. \A e \in open'[t] : e[1] > cursor /\ \A d \in rows : d[1] < e[1]
      BY <2>2, <2>3, <2>5 DEF IInv, IdsOK, Ordered
    <3> QED BY <2>1, <3>1, <3>2 DEF Ordered
  <2> QED BY <2>4, <2>5 DEF IInv
<1>7. ASSUME NEW t \in Threads, Commit(t) PROVE IInv'
  BY <1>7, Ends DEF Commit
<1>8. ASSUME NEW t \in Threads, WriteFails(t) PROVE IInv'
  BY <1>8, Ends DEF WriteFails
<1>9. ASSUME NEW r \in Readers, ReadLine(r) PROVE IInv'
  BY <1>9, Elsewhere DEF ReadLine
<1>10. ASSUME NEW r \in Readers, ReaderCloses(r) PROVE IInv'
  BY <1>10, Elsewhere DEF ReaderCloses
<1>11. ASSUME NEW r \in Readers, JoinTimesOut(r) PROVE IInv'
  BY <1>11, Elsewhere DEF JoinTimesOut
<1>12. CASE UNCHANGED vars
  BY <1>12, Elsewhere DEF vars
<1> QED BY <1>1, <1>2, <1>3, <1>4, <1>5, <1>6, <1>7, <1>8, <1>9, <1>10, <1>11, <1>12 DEF Next

\* The strengthened invariant, from which the next theorem follows.
THEOREM Inductive == Spec => []IInv
<1>1. Init => IInv
  BY DEF Init, IInv, IdsOK, Ordered
<1>2. IInv /\ [Next]_vars => IInv'
  BY StepKeeps
<1> QED BY <1>1, <1>2, PTL DEF Spec

\* Where one transaction writes at a time, no row is ever committed with an id that a
\* client has passed, so that a client that asks with since_id gets every row
\* (list_pipeline_job_logs, record_pipeline_job_logs).
THEOREM FollowersMissNothing ==
  ASSUME Backend # "postgresql"
  PROVE  Spec => NothingMissed
<1>1. ASSUME IInv, [Next]_vars
      PROVE  [\A e \in rows' \ rows : e[1] > cursor]_vars
  <2>1. rows' \subseteq rows \/ \E t \in Threads : rows' = rows \cup open[t]
    <3> USE DEF jobVars, bufferVars, writeVars, clientVars
    <3>1. ASSUME NEW t \in Threads, Commit(t) \/ WriteFails(t)
          PROVE  rows' \subseteq rows \/ rows' = rows \cup open[t]
      BY <3>1 DEF Commit, WriteFails
    <3>2. CASE JobStep
      BY <3>2 DEF JobStep, Flush, Emit, Spawn, NoCommand, CommandEnds, CheckRaises, Joined,
                  NextStage, Finish
    <3>3. ASSUME NEW r \in Readers, ReadLine(r) \/ ReaderCloses(r) \/ JoinTimesOut(r)
          PROVE  rows' \subseteq rows
      BY <3>3 DEF ReadLine, ReaderCloses, JoinTimesOut
    <3>4. CASE Tick \/ Crash \/ Poll \/ Purge \/ \E t \in Threads : InsertRow(t)
      BY <3>4 DEF Tick, Crash, Poll, Purge, InsertRow
    <3>5. CASE UNCHANGED vars
      BY <3>5 DEF vars
    <3> QED BY <1>1, <3>1, <3>2, <3>3, <3>4, <3>5 DEF Next
  <2> QED BY <1>1, <2>1 DEF IInv, Ordered
<1> QED BY <1>1, Inductive, PTL DEF Spec, NothingMissed

-----------------------------------------------------------------------------
(* Types *)

\* What the constants say of the threads and of the entries they write.
LEMMA Threading ==
    /\ Stages \in Nat \ {0} /\ MaxLines \in Nat /\ MaxPurges \in Nat
    /\ Job \notin Readers /\ Job \in Threads /\ Readers \subseteq Threads
    /\ \A t \in Threads : t # Job => t \in Readers
    /\ \A r \in Readers : r = <<r[1], r[2]>> /\ r[1] \in 1 .. Stages /\ r[2] \in Streams
  BY LogAssumption DEF Threads

\* A line that may be read, and an event of a stage, are entries.
LEMMA EntriesOK ==
    /\ \A r \in Readers : \A n \in 1 .. MaxLines : LineOf(r, n) \in Entries
    /\ \A k \in 1 .. Stages : \A kind \in {"started", "ended"} : Event(k, kind) \in Entries
  BY Threading DEF LineOf, Event, Entries

\* What an empty sequence and one of a single entry hold, and that a sequence holds
\* entries of its set.
LEMMA InShort == Range(<<>>) = {} /\ \A x : Range(<<x>>) = {x}
  BY DEF Range

LEMMA InSeq == ASSUME NEW S, NEW s \in Seq(S) PROVE Range(s) \subseteq S
  BY DEF Range

\* A sequence to which an entry is added holds that entry too.
LEMMA InAppend ==
    ASSUME NEW S, NEW s \in Seq(S), NEW x \in S
    PROVE  Append(s, x) \in Seq(S) /\ Range(Append(s, x)) = Range(s) \cup {x}
<1>1. /\ Append(s, x) \in Seq(S) /\ Len(s) \in Nat
      /\ DOMAIN s = 1 .. Len(s) /\ DOMAIN Append(s, x) = 1 .. (Len(s) + 1)
      /\ Append(s, x)[Len(s) + 1] = x
      /\ \A i \in 1 .. Len(s) : Append(s, x)[i] = s[i]
  OBVIOUS
<1>2. ASSUME NEW y PROVE y \in Range(Append(s, x)) <=> y \in Range(s) \cup {x}
  <2>1. \A i \in 1 .. (Len(s) + 1) : i \in 1 .. Len(s) \/ i = Len(s) + 1
    BY <1>1
  <2>2. Len(s) + 1 \in 1 .. (Len(s) + 1) /\ \A i \in 1 .. Len(s) : i \in 1 .. (Len(s) + 1)
    BY <1>1
  <2> QED BY <1>1, <2>1, <2>2 DEF Range
<1> QED BY <1>1, <1>2

\* A sequence holds its first entry and those of its tail.
LEMMA InTail ==
    ASSUME NEW S, NEW s \in Seq(S), s # <<>>
    PROVE  /\ Head(s) \in S /\ Tail(s) \in Seq(S)
           /\ Range(s) = Range(Tail(s)) \cup {Head(s)}
<1>1. /\ Head(s) \in S /\ Tail(s) \in Seq(S) /\ Len(s) \in Nat \ {0}
      /\ DOMAIN s = 1 .. Len(s) /\ DOMAIN Tail(s) = 1 .. (Len(s) - 1)
      /\ Head(s) = s[1]
      /\ \A i \in 1 .. (Len(s) - 1) : Tail(s)[i] = s[i + 1]
  OBVIOUS
<1>2. ASSUME NEW i \in 1 .. Len(s) PROVE s[i] \in Range(Tail(s)) \cup {Head(s)}
  <2>1. CASE i = 1
    BY <1>1, <2>1
  <2>2. CASE i # 1
    <3>1. i - 1 \in 1 .. (Len(s) - 1) /\ Tail(s)[i - 1] = s[i]
      BY <1>1, <2>2
    <3> QED BY <1>1, <3>1 DEF Range
  <2> QED BY <2>1, <2>2
<1>3. ASSUME NEW i \in 1 .. (Len(s) - 1) PROVE Tail(s)[i] \in Range(s)
  <2>1. i + 1 \in 1 .. Len(s) /\ s[i + 1] = Tail(s)[i]
    BY <1>1
  <2> QED BY <1>1, <2>1 DEF Range
<1>4. Head(s) \in Range(s)
  <2>1. 1 \in 1 .. Len(s)
    BY <1>1
  <2> QED BY <1>1, <2>1 DEF Range
<1>5. \A y : y \in Range(s) <=> y \in Range(Tail(s)) \cup {Head(s)}
  BY <1>1, <1>2, <1>3, <1>4 DEF Range
<1> QED BY <1>1, <1>5

\* A step keeps the types.
LEMMA TypeStep == TypeOK /\ [Next]_vars => TypeOK'
<1> SUFFICES ASSUME TypeOK, [Next]_vars PROVE TypeOK'
  OBVIOUS
<1> USE Threading DEF TypeOK, PCs, jobVars, bufferVars, writeVars, clientVars
<1>a. \A t \in Threads : Range(batch[t]) \subseteq Entries /\ {e[2] : e \in open[t]} \subseteq Entries
  <2> SUFFICES ASSUME NEW t \in Threads
               PROVE Range(batch[t]) \subseteq Entries /\ {e[2] : e \in open[t]} \subseteq Entries
    OBVIOUS
  <2>1. batch[t] \in Seq(Entries) /\ open[t] \subseteq Row
    OBVIOUS
  <2> QED BY <2>1, InSeq DEF Row
<1>b. {e[2] : e \in rows} \subseteq Entries
  BY DEF Row
<1>c. <<>> \in Seq(Entries)
  OBVIOUS
<1>1. CASE Tick
  BY <1>1 DEF Tick
<1>2. CASE Flush
  <2>1. /\ pc' \in PCs
        /\ batch' = [batch EXCEPT ![Job] = pending] /\ pending' = <<>> /\ due' = FALSE
    BY <1>2 DEF Flush, At, Take
  <2>2. batch' \in [Threads -> Seq(Entries)]
    BY <2>1
  <2> QED BY <1>2, <1>c, <2>1, <2>2 DEF Flush
<1>3. CASE Emit
  <2>1. PICK kind \in {"started", "ended"} :
          /\ pc' = IF kind = "started" THEN "spawn" ELSE "next"
          /\ batch' = [batch EXCEPT ![Job] = <<Event(stage, kind)>>]
    BY <1>3 DEF Emit, At
  <2>2. Event(stage, kind) \in Entries
    BY EntriesOK
  <2>3. batch' \in [Threads -> Seq(Entries)]
    BY <2>1, <2>2
  <2> QED BY <1>3, <2>1, <2>3 DEF Emit
<1>4. CASE Spawn \/ NoCommand \/ CommandEnds \/ CheckRaises \/ Joined \/ NextStage \/ Finish
  BY <1>4 DEF Spawn, NoCommand, CommandEnds, CheckRaises, Joined, NextStage, Finish, At
<1>5. CASE Crash
  <2>1. gone' \subseteq Entries
    <3>1. gone' = gone \cup Range(pending)
                    \cup UNION {Range(batch[t]) \cup {e[2] : e \in open[t]} : t \in Threads}
      BY <1>5 DEF Crash
    <3>2. Range(pending) \subseteq Entries
      BY InSeq
    <3> QED BY <1>a, <3>1, <3>2
  <2>2. /\ batch' \in [Threads -> Seq(Entries)] /\ pending' \in Seq(Entries)
        /\ open' \in [Threads -> SUBSET Row] /\ due' \in BOOLEAN
    BY <1>5, <1>c DEF Crash
  <2>3. /\ reader' \in [Readers -> {"absent", "reading", "closed"}] /\ pc' \in PCs
        /\ UNCHANGED <<stage, late, count, lastId, rows, cursor, shown, purges>>
    BY <1>5 DEF Crash
  <2> QED BY <2>1, <2>2, <2>3
<1>6. CASE Poll
  <2>1. PICK last \in Page(cursor) : cursor' = last[1]
    BY <1>6 DEF Poll
  <2>2. last \in Row
    BY <2>1, PageOfRows
  <2>3. shown' \subseteq Entries
    BY <1>6, <1>b, PageOfRows DEF Poll
  <2> QED BY <1>6, <2>1, <2>2, <2>3 DEF Poll, Row
<1>7. CASE Purge
  BY <1>7, <1>b DEF Purge
<1>8. ASSUME NEW t \in Threads, InsertRow(t) PROVE TypeOK'
  <2>1. batch[t] \in Seq(Entries) /\ batch[t] # <<>>
    BY <1>8 DEF InsertRow
  <2>2. Head(batch[t]) \in Entries /\ Tail(batch[t]) \in Seq(Entries)
    BY <2>1, InTail
  <2>3. <<lastId + 1, Head(batch[t])>> \in Row
    BY <2>2 DEF Row
  <2>4. batch' \in [Threads -> Seq(Entries)] /\ open' \in [Threads -> SUBSET Row]
    BY <1>8, <2>2, <2>3 DEF InsertRow
  <2> QED BY <1>8, <2>4 DEF InsertRow
<1>9. ASSUME NEW t \in Threads, Commit(t) PROVE TypeOK'
  BY <1>9 DEF Commit
<1>10. ASSUME NEW t \in Threads, WriteFails(t) PROVE TypeOK'
  <2>1. /\ rows' \subseteq Row /\ gone' \subseteq Entries
    BY <1>10, <1>a DEF WriteFails
  <2>2. batch' \in [Threads -> Seq(Entries)] /\ open' \in [Threads -> SUBSET Row]
    BY <1>10 DEF WriteFails
  <2> QED BY <1>10, <2>1, <2>2 DEF WriteFails
<1>11. ASSUME NEW r \in Readers, ReadLine(r) PROVE TypeOK'
  <2>1. /\ count[r] + 1 \in 1 .. MaxLines /\ count' = [count EXCEPT ![r] = @ + 1]
    BY <1>11 DEF ReadLine
  <2>2. Append(pending, LineOf(r, count[r] + 1)) \in Seq(Entries)
    BY <2>1, EntriesOK, InAppend
  <2>3. pending' \in Seq(Entries) /\ due' \in BOOLEAN /\ batch' \in [Threads -> Seq(Entries)]
    <3> DEFINE held == Append(pending, LineOf(r, count[r] + 1))
    <3>1. CASE Take(r, held)
      <4>1. batch' = [batch EXCEPT ![r] = held] /\ pending' = <<>> /\ due' = FALSE
        BY <3>1 DEF Take
      <4> QED BY <1>c, <2>2, <4>1
    <3>2. CASE pending' = held /\ UNCHANGED <<due, batch>>
      BY <2>2, <3>2
    <3> QED BY <1>11, <3>1, <3>2 DEF ReadLine, Add
  <2> QED BY <1>11, <2>1, <2>3 DEF ReadLine
<1>12. ASSUME NEW r \in Readers, ReaderCloses(r) \/ JoinTimesOut(r) PROVE TypeOK'
  BY <1>12 DEF ReaderCloses, JoinTimesOut
<1>13. CASE UNCHANGED vars
  BY <1>13 DEF vars
<1> QED
  BY <1>1, <1>2, <1>3, <1>4, <1>5, <1>6, <1>7, <1>8, <1>9, <1>10, <1>11, <1>12, <1>13
  DEF Next, JobStep

\* Every variable keeps its type: in particular every row and every lost entry is a line
\* of a command or an event of a stage, and no stage beyond the last is reached.
THEOREM TypeCorrect == Spec => []TypeOK
<1>1. Init => TypeOK
  <2>1. <<>> \in Seq(Entries)
    OBVIOUS
  <2> SUFFICES ASSUME Init PROVE TypeOK
    OBVIOUS
  <2>2. batch \in [Threads -> Seq(Entries)] /\ pending \in Seq(Entries)
    BY <2>1 DEF Init
  <2>3. stage \in 1 .. Stages /\ pc \in PCs /\ count \in [Readers -> 0 .. MaxLines]
    BY Threading DEF Init, PCs
  <2>4. /\ open \in [Threads -> SUBSET Row] /\ purges \in 0 .. MaxPurges
        /\ reader \in [Readers -> {"absent", "reading", "closed"}]
    BY Threading DEF Init
  <2>5. /\ late \subseteq Readers /\ due \in BOOLEAN /\ lastId \in Nat /\ cursor \in Nat
        /\ rows \subseteq Row /\ gone \subseteq Entries /\ shown \subseteq Entries
    BY DEF Init
  <2> QED BY <2>2, <2>3, <2>4, <2>5 DEF TypeOK
<1> QED BY <1>1, TypeStep, PTL DEF Spec

-----------------------------------------------------------------------------
(* Where the lines are *)

\* The lines the commands may write, and whether their reader has read one.
Lines == {LineOf(r, n) : r \in Readers, n \in 1 .. MaxLines}
Read(l) == \E r \in Readers : \E n \in 1 .. count[r] : l = LineOf(r, n)

\* The entries a thread has taken out of the buffer, those of its transaction, those of
\* the table.
Taken(t) == Range(batch[t])
Writing(t) == {e[2] : e \in open[t]}
Written == {e[2] : e \in rows}

\* Every line that was read, and no other, is somewhere.
NoneLost ==
    \A l \in Lines :
        Read(l) <=> \/ l \in Range(pending) \cup Written \cup gone
                    \/ \E t \in Threads : l \in Taken(t) \cup Writing(t)

\* No line is in two of these places.
OnePlace ==
    \A l \in Lines :
        /\ l \in Range(pending) =>
             l \notin Written \cup gone /\ \A t \in Threads : l \notin Taken(t) \cup Writing(t)
        /\ \A t \in Threads : l \in Taken(t) =>
             /\ l \notin Written \cup gone
             /\ \A u \in Threads : l \notin Writing(u) /\ (u # t => l \notin Taken(u))
        /\ \A t \in Threads : l \in Writing(t) =>
             /\ l \notin Written \cup gone
             /\ \A u \in Threads : u # t => l \notin Writing(u)
        /\ l \in Written => l \notin gone

\* No line is twice in one place.
OnceIn(s) == \A i, j \in DOMAIN s : s[i] = s[j] /\ s[i] \in Lines => i = j
OneRow(R) == \A d, e \in R : d[2] = e[2] /\ d[2] \in Lines => d = e
Single ==
    /\ OnceIn(pending) /\ OneRow(rows)
    /\ \A t \in Threads : OnceIn(batch[t]) /\ OneRow(open[t])

\* What the buffer and the reader threads hold are lines: stage events are written by
\* the job thread itself.
LinesOnly ==
    /\ Range(pending) \subseteq Lines
    /\ \A r \in Readers : Taken(r) \cup Writing(r) \subseteq Lines

\* The inductive invariant of where the lines are.
OnceInv == NoneLost /\ OnePlace /\ Single /\ LinesOnly

\* A line is not an event, and lines of different readers or numbers differ.
LEMMA LinesDiffer ==
    /\ \A k, kind : kind \in {"started", "ended"} => Event(k, kind) \notin Lines
    /\ \A r, q \in Readers, n, m \in Nat : LineOf(r, n) = LineOf(q, m) => r = q /\ n = m
    /\ Lines \subseteq Entries
<1>1. ASSUME NEW k, NEW kind \in {"started", "ended"}, NEW r \in Readers, NEW n,
             Event(k, kind) = LineOf(r, n)
      PROVE  FALSE
  BY <1>1, Threading, LogAssumption DEF Event, LineOf
<1>2. ASSUME NEW r \in Readers, NEW q \in Readers, NEW n \in Nat, NEW m \in Nat,
             LineOf(r, n) = LineOf(q, m)
      PROVE  r = q /\ n = m
  <2>1. r[1] = q[1] /\ r[2] = q[2] /\ n = m
    BY <1>2 DEF LineOf
  <2> QED BY <2>1, Threading
<1> QED BY <1>1, <1>2, EntriesOK DEF Lines

\* What a reader reads next has not been read, and nothing else is read with it.
LEMMA NextLine ==
    ASSUME TypeOK, NEW r \in Readers, count[r] < MaxLines, count' = [count EXCEPT ![r] = @ + 1]
    PROVE  LET new == LineOf(r, count[r] + 1) IN
           /\ new \in Lines /\ ~Read(new)
           /\ \A l \in Lines : Read(l)' <=> Read(l) \/ l = new
<1> DEFINE new == LineOf(r, count[r] + 1)
<1>1. count[r] \in Nat /\ count[r] + 1 \in 1 .. MaxLines /\ \A q \in Readers : count[q] \in 0 .. MaxLines
  BY Threading DEF TypeOK
<1>2. \A q \in Readers : count'[q] = IF q = r THEN count[q] + 1 ELSE count[q]
  BY DEF TypeOK
<1>3. new \in Lines
  BY <1>1 DEF Lines
<1>4. ~Read(new)
  BY <1>1, LinesDiffer DEF Read
<1>5. ASSUME NEW l, Read(l)' PROVE Read(l) \/ l = new
  <2>0. PICK q \in Readers : \E n \in 1 .. count'[q] : l = LineOf(q, n)
    BY <1>5 DEF Read
  <2>1. PICK n \in 1 .. count'[q] : l = LineOf(q, n)
    BY <2>0
  <2>2. CASE n \in 1 .. count[q]
    BY <2>1, <2>2 DEF Read
  <2>3. CASE n \notin 1 .. count[q]
    <3>1. q = r /\ n = count[r] + 1
      BY <1>1, <1>2, <2>3
    <3> QED BY <2>1, <3>1
  <2> QED BY <2>2, <2>3
<1>6. ASSUME NEW l, Read(l) PROVE Read(l)'
  <2>0. PICK q \in Readers : \E n \in 1 .. count[q] : l = LineOf(q, n)
    BY <1>6 DEF Read
  <2>1. PICK n \in 1 .. count[q] : l = LineOf(q, n)
    BY <2>0
  <2>2. n \in 1 .. count'[q]
    BY <1>1, <1>2
  <2> QED BY <2>1, <2>2 DEF Read
<1>7. ASSUME NEW l, l = new PROVE Read(l)'
  <2>1. count[r] + 1 \in 1 .. count'[r]
    BY <1>1, <1>2
  <2> QED BY <1>7, <2>1 DEF Read
<1> QED BY <1>3, <1>4, <1>5, <1>6, <1>7

\* No line is twice in a sequence of one entry, nor in one to which a line is added that
\* it does not hold, nor in the tail of one.
LEMMA OnceShort == OnceIn(<<>>) /\ \A x : OnceIn(<<x>>)
  BY DEF OnceIn

LEMMA OnceAppend ==
    ASSUME NEW S, NEW s \in Seq(S), NEW x \in S, OnceIn(s), x \notin Range(s)
    PROVE  OnceIn(Append(s, x))
<1>1. /\ Len(s) \in Nat
      /\ DOMAIN s = 1 .. Len(s) /\ DOMAIN Append(s, x) = 1 .. (Len(s) + 1)
      /\ Append(s, x)[Len(s) + 1] = x
      /\ \A i \in 1 .. Len(s) : Append(s, x)[i] = s[i]
  OBVIOUS
<1>2. \A i \in 1 .. Len(s) : s[i] # x
  BY <1>1 DEF Range
<1>3. \A i \in 1 .. (Len(s) + 1) : i \in 1 .. Len(s) \/ i = Len(s) + 1
  BY <1>1
<1> QED BY <1>1, <1>2, <1>3 DEF OnceIn

LEMMA OnceTail ==
    ASSUME NEW S, NEW s \in Seq(S), s # <<>>, OnceIn(s)
    PROVE  OnceIn(Tail(s)) /\ (Head(s) \in Lines => Head(s) \notin Range(Tail(s)))
<1>1. /\ Len(s) \in Nat \ {0}
      /\ DOMAIN s = 1 .. Len(s) /\ DOMAIN Tail(s) = 1 .. (Len(s) - 1)
      /\ Head(s) = s[1]
      /\ \A i \in 1 .. (Len(s) - 1) : Tail(s)[i] = s[i + 1]
  OBVIOUS
<1>2. \A i \in 1 .. (Len(s) - 1) : i + 1 \in 1 .. Len(s) /\ i + 1 # 1
  BY <1>1
<1>3. 1 \in 1 .. Len(s)
  BY <1>1
<1>4. ASSUME Head(s) \in Lines, Head(s) \in Range(Tail(s)) PROVE FALSE
  <2>1. PICK i \in 1 .. (Len(s) - 1) : Tail(s)[i] = Head(s)
    BY <1>1, <1>4 DEF Range
  <2>2. i + 1 \in 1 .. Len(s) /\ i + 1 # 1 /\ s[i + 1] = s[1] /\ s[i + 1] \in Lines
    BY <1>1, <1>2, <1>4, <2>1
  <2> QED BY <1>1, <1>3, <2>2 DEF OnceIn
<1>5. ASSUME NEW i \in DOMAIN Tail(s), NEW j \in DOMAIN Tail(s), Tail(s)[i] = Tail(s)[j],
             Tail(s)[i] \in Lines
      PROVE  i = j
  <2>1. i + 1 \in DOMAIN s /\ j + 1 \in DOMAIN s /\ s[i + 1] = s[j + 1] /\ s[i + 1] \in Lines
    BY <1>1, <1>2, <1>5
  <2>2. i + 1 = j + 1
    BY <2>1 DEF OnceIn
  <2>3. i \in Int /\ j \in Int
    BY <1>1
  <2> QED BY <2>2, <2>3
<1> QED BY <1>4, <1>5 DEF OnceIn

\* A step that leaves the lines where they are.
LEMMA LinesStay ==
    ASSUME OnceInv, UNCHANGED <<count, pending, batch, open, rows, gone>>
    PROVE  OnceInv'
<1>1. UNCHANGED Written /\ \A t : Taken(t)' = Taken(t) /\ Writing(t)' = Writing(t)
  BY DEF Written, Taken, Writing
<1>2. \A l : Read(l)' <=> Read(l)
  BY DEF Read
<1> QED BY <1>1, <1>2 DEF OnceInv, NoneLost, OnePlace, Single, LinesOnly

\* A reader puts a line into the buffer, or takes the buffer with it.
LEMMA ReadKeeps == ASSUME TypeOK, OnceInv, NEW r \in Readers, ReadLine(r) PROVE OnceInv'
<1> DEFINE new == LineOf(r, count[r] + 1)
           held == Append(pending, new)
<1>1. /\ new \in Lines /\ ~Read(new) /\ \A l \in Lines : Read(l)' <=> Read(l) \/ l = new
  BY NextLine DEF ReadLine
<1>2. /\ held \in Seq(Entries) /\ Range(held) = Range(pending) \cup {new}
  BY <1>1, InAppend, LinesDiffer DEF TypeOK
<1>3. OnceIn(held)
  BY <1>1, OnceAppend, LinesDiffer DEF TypeOK, OnceInv, NoneLost, Single
<1>4. /\ batch[r] = <<>> /\ UNCHANGED <<open, rows, gone>> /\ r \in Threads
      /\ \/ batch' = [batch EXCEPT ![r] = held] /\ pending' = <<>>
         \/ pending' = held /\ UNCHANGED batch
  BY Threading DEF ReadLine, Idle, Add, Take
<1>5. Taken(r) = {} /\ UNCHANGED Written /\ \A t : Writing(t)' = Writing(t)
  BY <1>4, InShort DEF Written, Taken, Writing
<1> HIDE DEF new, held
<1>6. CASE pending' = held /\ UNCHANGED batch
  <2>1. \A t : Taken(t)' = Taken(t)
    BY <1>6 DEF Taken
  <2>a. Range(pending') = Range(pending) \cup {new} /\ UNCHANGED gone
    BY <1>2, <1>4, <1>6
  <2>2. NoneLost' /\ OnePlace'
    <3>1. NoneLost'
      BY <1>1, <1>5, <2>1, <2>a DEF OnceInv, NoneLost
    <3>2. OnePlace'
      BY <1>1, <1>5, <2>1, <2>a DEF OnceInv, NoneLost, OnePlace
    <3> QED BY <3>1, <3>2
  <2>3. Single' /\ LinesOnly'
    BY <1>1, <1>2, <1>3, <1>4, <1>5, <1>6, <2>1 DEF OnceInv, Single, LinesOnly
  <2> QED BY <2>2, <2>3 DEF OnceInv
<1>7. CASE batch' = [batch EXCEPT ![r] = held] /\ pending' = <<>>
  <2>1. /\ Taken(r)' = Range(pending) \cup {new} /\ Range(pending') = {}
        /\ \A t \in Threads : t # r => Taken(t)' = Taken(t)
    BY <1>2, <1>4, <1>7, InShort DEF Taken, TypeOK
  <2>2. NoneLost' /\ OnePlace'
    BY <1>1, <1>4, <1>5, <2>1 DEF OnceInv, NoneLost, OnePlace
  <2>3. Single'
    BY <1>3, <1>4, <1>7, OnceShort DEF OnceInv, Single, TypeOK
  <2>4. LinesOnly'
    BY <1>1, <1>4, <1>5, <2>1, Threading DEF OnceInv, LinesOnly
  <2> QED BY <2>2, <2>3, <2>4 DEF OnceInv
<1> QED BY <1>4, <1>6, <1>7

\* The job thread takes the buffer.
LEMMA FlushKeeps == ASSUME TypeOK, OnceInv, Flush PROVE OnceInv'
<1>1. /\ batch[Job] = <<>> /\ UNCHANGED <<count, open, rows, gone>> /\ Job \in Threads
      /\ batch' = [batch EXCEPT ![Job] = pending] /\ pending' = <<>>
  BY Threading DEF Flush, At, Idle, Take
<1>2. /\ Taken(Job) = {} /\ UNCHANGED Written /\ \A t : Writing(t)' = Writing(t)
      /\ Taken(Job)' = Range(pending) /\ Range(pending') = {}
      /\ \A t \in Threads : t # Job => Taken(t)' = Taken(t)
  BY <1>1, InShort DEF Written, Taken, Writing, TypeOK
<1>3. \A l : Read(l)' <=> Read(l)
  BY <1>1 DEF Read
<1>4. NoneLost' /\ OnePlace'
  BY <1>1, <1>2, <1>3 DEF OnceInv, NoneLost, OnePlace
<1>5. Single'
  BY <1>1, OnceShort DEF OnceInv, Single, TypeOK
<1>6. LinesOnly'
  BY <1>1, <1>2, Threading DEF OnceInv, LinesOnly
<1> QED BY <1>4, <1>5, <1>6 DEF OnceInv

\* The job thread is about to write an event.
LEMMA EmitKeeps == ASSUME TypeOK, OnceInv, Emit PROVE OnceInv'
<1>1. PICK kind \in {"started", "ended"} : batch' = [batch EXCEPT ![Job] = <<Event(stage, kind)>>]
  BY DEF Emit
<1>2. /\ batch[Job] = <<>> /\ UNCHANGED <<count, pending, open, rows, gone>> /\ Job \in Threads
  BY Threading DEF Emit, At, Idle, bufferVars
<1>3. /\ Taken(Job) = {} /\ UNCHANGED Written /\ \A t : Writing(t)' = Writing(t)
      /\ Taken(Job)' = {Event(stage, kind)} /\ \A l \in Lines : l # Event(stage, kind)
      /\ \A t \in Threads : t # Job => Taken(t)' = Taken(t)
  BY <1>1, <1>2, InShort, LinesDiffer DEF Written, Taken, Writing, TypeOK
<1>4. \A l : Read(l)' <=> Read(l)
  BY <1>2 DEF Read
<1>5. NoneLost' /\ OnePlace'
  BY <1>2, <1>3, <1>4 DEF OnceInv, NoneLost, OnePlace
<1>6. Single'
  BY <1>1, <1>2, OnceShort DEF OnceInv, Single, TypeOK
<1>7. LinesOnly'
  BY <1>2, <1>3, Threading DEF OnceInv, LinesOnly
<1> QED BY <1>5, <1>6, <1>7 DEF OnceInv

\* An entry goes from a batch to the transaction of its thread.
LEMMA InsertKeeps ==
    ASSUME TypeOK, OnceInv, NEW t \in Threads, InsertRow(t)
    PROVE  OnceInv'
<1> DEFINE h == Head(batch[t])
<1>1. /\ batch[t] \in Seq(Entries) /\ batch[t] # <<>> /\ OnceIn(batch[t])
      /\ UNCHANGED <<count, pending, rows, gone>>
      /\ batch' = [batch EXCEPT ![t] = Tail(@)]
      /\ open' = [open EXCEPT ![t] = @ \cup {<<lastId + 1, h>>}]
  BY DEF InsertRow, TypeOK, OnceInv, Single, bufferVars
<1>2. /\ Range(batch[t]) = Range(Tail(batch[t])) \cup {h}
      /\ OnceIn(Tail(batch[t])) /\ (h \in Lines => h \notin Range(Tail(batch[t])))
  BY <1>1, InTail, OnceTail
<1>3. batch'[t] = Tail(batch[t]) /\ \A u \in Threads : u # t => batch'[u] = batch[u]
  BY <1>1 DEF TypeOK
<1>4. /\ open'[t] = open[t] \cup {<<lastId + 1, h>>}
      /\ \A u \in Threads : u # t => open'[u] = open[u]
  BY <1>1 DEF TypeOK
<1> HIDE DEF h
<1>5. /\ UNCHANGED Written
      /\ Taken(t) = Taken(t)' \cup {h} /\ (h \in Lines => h \notin Taken(t)')
      /\ Writing(t)' = Writing(t) \cup {h}
      /\ \A u \in Threads : u # t => Taken(u)' = Taken(u) /\ Writing(u)' = Writing(u)
  <2>1. UNCHANGED Written /\ \A u \in Threads : u # t => Taken(u)' = Taken(u) /\ Writing(u)' = Writing(u)
    BY <1>1, <1>3, <1>4 DEF Taken, Writing, Written
  <2>2. Taken(t) = Taken(t)' \cup {h} /\ (h \in Lines => h \notin Taken(t)')
    BY <1>2, <1>3 DEF Taken
  <2>3. Writing(t)' = Writing(t) \cup {h}
    <3> DEFINE row == <<lastId + 1, h>>
    <3>1. row[2] = h /\ open'[t] = open[t] \cup {row}
      BY <1>4
    <3> HIDE DEF row
    <3> QED BY <3>1 DEF Writing
  <2> QED BY <2>1, <2>2, <2>3
<1>6. \A l : Read(l)' <=> Read(l)
  BY <1>1 DEF Read
<1>7. NoneLost'
  BY <1>1, <1>5, <1>6 DEF OnceInv, NoneLost
<1>8. OnePlace'
  BY <1>1, <1>5 DEF OnceInv, OnePlace
<1>9. Single'
  <2>1. \A e \in open[t] : h \in Lines => e[2] # h
    BY <1>5 DEF OnceInv, OnePlace, Writing
  <2>2. OneRow(open'[t])
    BY <1>4, <2>1 DEF OneRow, OnceInv, Single
  <2> QED BY <1>1, <1>2, <1>3, <1>4, <2>2 DEF OnceInv, Single
<1>10. LinesOnly'
  BY <1>1, <1>5, Threading DEF OnceInv, LinesOnly
<1> QED BY <1>7, <1>8, <1>9, <1>10 DEF OnceInv

\* A transaction ends: its rows are in the table.
LEMMA CommitKeeps ==
    ASSUME TypeOK, OnceInv, NEW t \in Threads, Commit(t)
    PROVE  OnceInv'
<1>1. /\ rows' = rows \cup open[t] /\ UNCHANGED <<count, pending, batch, gone>>
      /\ open'[t] = {} /\ \A u \in Threads : u # t => open'[u] = open[u]
  BY DEF Commit, TypeOK, bufferVars
<1>2. /\ Written' = Written \cup Writing(t) /\ Writing(t)' = {}
      /\ \A u : Taken(u)' = Taken(u)
      /\ \A u \in Threads : u # t => Writing(u)' = Writing(u)
  BY <1>1 DEF Written, Taken, Writing
<1>3. \A l : Read(l)' <=> Read(l)
  BY <1>1 DEF Read
<1>4. NoneLost'
  BY <1>1, <1>2, <1>3 DEF OnceInv, NoneLost
<1>5. OnePlace'
  BY <1>1, <1>2 DEF OnceInv, OnePlace
<1>6. Single'
  <2>1. \A e \in open[t], d \in rows : e[2] \in Lines => e[2] # d[2]
    BY DEF OnceInv, OnePlace, Writing, Written
  <2>2. OneRow(rows')
    BY <1>1, <2>1 DEF OneRow, OnceInv, Single
  <2>3. \A u \in Threads : OneRow(open'[u])
    BY <1>1 DEF OneRow, OnceInv, Single
  <2> QED BY <1>1, <2>2, <2>3 DEF OnceInv, Single
<1>7. LinesOnly'
  BY <1>1, <1>2, Threading DEF OnceInv, LinesOnly
<1> QED BY <1>4, <1>5, <1>6, <1>7 DEF OnceInv

\* A write that fails loses what the thread has taken, except the rows that the shared
\* connection keeps.
LEMMA FailKeeps ==
    ASSUME TypeOK, OnceInv, NEW t \in Threads, WriteFails(t)
    PROVE  OnceInv'
<1>1. /\ UNCHANGED <<count, pending>>
      /\ open'[t] = {} /\ batch'[t] = <<>>
      /\ \A u \in Threads : u # t => open'[u] = open[u] /\ batch'[u] = batch[u]
  BY DEF WriteFails, TypeOK, bufferVars
<1>2. /\ Writing(t)' = {} /\ Taken(t)' = {}
      /\ \A u \in Threads : u # t => Writing(u)' = Writing(u) /\ Taken(u)' = Taken(u)
  BY <1>1, InShort DEF Taken, Writing
<1>3. \A l : Read(l)' <=> Read(l)
  BY <1>1 DEF Read
<1>4. \/ rows' = rows \cup open[t] /\ gone' = gone \cup Taken(t)
      \/ rows' = rows /\ gone' = gone \cup Taken(t) \cup Writing(t)
  BY DEF WriteFails, Taken, Writing
<1>5. \A u \in Threads : OnceIn(batch'[u]) /\ OneRow(open'[u])
  <2>1. OnceIn(batch'[t]) /\ OneRow(open'[t])
    BY <1>1, OnceShort DEF OneRow
  <2> QED BY <1>1, <2>1 DEF OnceInv, Single
<1>6. LinesOnly'
  BY <1>1, <1>2, Threading DEF OnceInv, LinesOnly
<1>7. CASE rows' = rows \cup open[t] /\ gone' = gone \cup Taken(t)
  <2>1. Written' = Written \cup Writing(t)
    BY <1>7 DEF Written, Writing
  <2>2. NoneLost'
    BY <1>1, <1>2, <1>3, <1>7, <2>1 DEF OnceInv, NoneLost
  <2>3. OnePlace'
    BY <1>1, <1>2, <1>7, <2>1 DEF OnceInv, OnePlace
  <2>4. OneRow(rows')
    <3>1. \A e \in open[t], d \in rows : e[2] \in Lines => e[2] # d[2]
      BY DEF OnceInv, OnePlace, Writing, Written
    <3> QED BY <1>7, <3>1 DEF OneRow, OnceInv, Single
  <2>5. Single'
    BY <1>1, <1>5, <2>4 DEF OnceInv, Single
  <2> QED BY <1>6, <2>2, <2>3, <2>5 DEF OnceInv
<1>8. CASE rows' = rows /\ gone' = gone \cup Taken(t) \cup Writing(t)
  <2>1. Written' = Written
    BY <1>8 DEF Written
  <2>2. NoneLost'
    BY <1>1, <1>2, <1>3, <1>8, <2>1 DEF OnceInv, NoneLost
  <2>3. OnePlace'
    BY <1>1, <1>2, <1>8, <2>1 DEF OnceInv, OnePlace
  <2>4. Single'
    BY <1>1, <1>5, <1>8 DEF OnceInv, Single
  <2> QED BY <1>6, <2>2, <2>3, <2>4 DEF OnceInv
<1> QED BY <1>4, <1>7, <1>8

\* A process that dies loses what is in its buffer, its batches and its transactions.
LEMMA CrashKeeps == ASSUME TypeOK, OnceInv, Crash PROVE OnceInv'
<1>1. /\ UNCHANGED <<count, rows>> /\ pending' = <<>>
      /\ \A t \in Threads : batch'[t] = <<>> /\ open'[t] = {}
      /\ gone' = gone \cup Range(pending) \cup UNION {Taken(t) \cup Writing(t) : t \in Threads}
  BY DEF Crash, Taken, Writing
<1>2. /\ UNCHANGED Written /\ Range(pending') = {}
      /\ \A t \in Threads : Taken(t)' = {} /\ Writing(t)' = {}
  BY <1>1, InShort DEF Written, Taken, Writing
<1>3. \A l : Read(l)' <=> Read(l)
  BY <1>1 DEF Read
<1>4. \A l : l \in gone' <=> \/ l \in gone \/ l \in Range(pending)
                            \/ \E t \in Threads : l \in Taken(t) \cup Writing(t)
  BY <1>1
<1>5. NoneLost'
  BY <1>2, <1>3, <1>4 DEF OnceInv, NoneLost
<1>6. OnePlace'
  BY <1>2, <1>4 DEF OnceInv, OnePlace
<1>7. Single'
  BY <1>1, OnceShort DEF OnceInv, Single, OneRow
<1>8. LinesOnly'
  BY <1>2, Threading DEF LinesOnly
<1> QED BY <1>5, <1>6, <1>7, <1>8 DEF OnceInv

\* A purge takes rows out of the table.
LEMMA PurgeKeeps == ASSUME TypeOK, OnceInv, Purge PROVE OnceInv'
<1>1. PICK n \in {e[1] : e \in rows} :
        LET old == {e \in rows : e[1] <= n} IN
        rows' = rows \ old /\ gone' = gone \cup {e[2] : e \in old}
  BY DEF Purge
<1> DEFINE old == {e \in rows : e[1] <= n}
           lost == {e[2] : e \in old}
<1>2. rows' = rows \ old /\ gone' = gone \cup lost /\ old \subseteq rows
  BY <1>1
<1> HIDE DEF old
<1>3. UNCHANGED <<count, pending, batch, open>>
  BY DEF Purge, bufferVars, writeVars
<1>4. \A t : Taken(t)' = Taken(t) /\ Writing(t)' = Writing(t)
  BY <1>3 DEF Taken, Writing
<1>5. \A l : Read(l)' <=> Read(l)
  BY <1>3 DEF Read
<1>6. /\ Written = Written' \cup lost
      /\ \A l \in Lines : l \in lost => l \notin Written'
  <2>1. Written = Written' \cup lost
    BY <1>2 DEF Written
  <2>2. ASSUME NEW d \in rows', NEW e \in old, d[2] = e[2], d[2] \in Lines PROVE FALSE
    BY <1>2, <2>2 DEF OnceInv, Single, OneRow
  <2> QED BY <2>1, <2>2 DEF Written
<1> HIDE DEF lost
<1>7. NoneLost'
  BY <1>2, <1>3, <1>4, <1>5, <1>6 DEF OnceInv, NoneLost
<1>8. OnePlace'
  BY <1>2, <1>3, <1>4, <1>6 DEF OnceInv, OnePlace
<1>9. Single'
  BY <1>2, <1>3 DEF OnceInv, Single, OneRow
<1>10. LinesOnly'
  BY <1>3, <1>4 DEF OnceInv, LinesOnly
<1> QED BY <1>7, <1>8, <1>9, <1>10 DEF OnceInv

\* Every line that was read is in one place, and stays in one.
LEMMA OnceHolds == Spec => [](TypeOK /\ OnceInv)
<1>1. Init => OnceInv
  <2> SUFFICES ASSUME Init PROVE OnceInv
    OBVIOUS
  <2>1. /\ Range(pending) = {} /\ Written = {} /\ gone = {} /\ rows = {} /\ pending = <<>>
        /\ \A t \in Threads : Taken(t) = {} /\ Writing(t) = {} /\ batch[t] = <<>> /\ open[t] = {}
    BY InShort DEF Init, Written, Taken, Writing
  <2>2. \A l : ~Read(l)
    BY DEF Init, Read
  <2>3. NoneLost /\ OnePlace
    BY <2>1, <2>2 DEF NoneLost, OnePlace
  <2>4. Single /\ LinesOnly
    BY <2>1, OnceShort, Threading DEF Single, OneRow, LinesOnly
  <2> QED BY <2>3, <2>4 DEF OnceInv
<1>2. TypeOK /\ OnceInv /\ [Next]_vars => OnceInv'
  <2> SUFFICES ASSUME TypeOK, OnceInv, [Next]_vars PROVE OnceInv'
    OBVIOUS
  <2>1. CASE UNCHANGED <<count, pending, batch, open, rows, gone>>
    BY <2>1, LinesStay
  <2>2. CASE Tick \/ Spawn \/ NoCommand \/ CommandEnds \/ CheckRaises \/ Joined \/ NextStage
             \/ Finish \/ Poll
    <3>1. UNCHANGED <<count, pending, batch, open, rows, gone>>
      BY <2>2
      DEF Tick, Spawn, NoCommand, CommandEnds, CheckRaises, Joined, NextStage, Finish, Poll,
          bufferVars, writeVars
    <3> QED BY <2>1, <3>1
  <2>3. ASSUME NEW r \in Readers, ReaderCloses(r) \/ JoinTimesOut(r) PROVE OnceInv'
    <3>1. UNCHANGED <<count, pending, batch, open, rows, gone>>
      BY <2>3 DEF ReaderCloses, JoinTimesOut, bufferVars, writeVars
    <3> QED BY <2>1, <3>1
  <2>4. CASE UNCHANGED vars
    <3>1. UNCHANGED <<count, pending, batch, open, rows, gone>>
      BY <2>4 DEF vars, jobVars, bufferVars, writeVars, clientVars
    <3> QED BY <2>1, <3>1
  <2> QED
    BY <2>2, <2>3, <2>4, ReadKeeps, FlushKeeps, EmitKeeps, InsertKeeps, CommitKeeps, FailKeeps,
       CrashKeeps, PurgeKeeps
    DEF Next, JobStep
<1> QED BY <1>1, <1>2, TypeCorrect, PTL DEF Spec

\* The places of an entry, one kind after the other.
InBuffer(l) == {<<"pending", i>> : i \in {j \in DOMAIN pending : pending[j] = l}}
InBatch(t, l) == {<<"batch", t, i>> : i \in {j \in DOMAIN batch[t] : batch[t][j] = l}}
InTable(l) == {<<"row", e[1]>> : e \in {d \in rows \cup UNION {open[t] : t \in Threads} : d[2] = l}}
InGone(l) == {<<"gone", 0>> : g \in {l} \cap gone}

LEMMA PlacesAre ==
    \A l, p : p \in Places(l) <=> \/ p \in InBuffer(l) \cup InTable(l) \cup InGone(l)
                                 \/ \E t \in Threads : p \in InBatch(t, l)
<1> SUFFICES ASSUME NEW l
             PROVE  \A p : p \in Places(l) <=> \/ p \in InBuffer(l) \cup InTable(l) \cup InGone(l)
                                             \/ \E t \in Threads : p \in InBatch(t, l)
  OBVIOUS
<1> DEFINE batches == UNION {InBatch(t, l) : t \in Threads}
<1>1. Places(l) = InBuffer(l) \cup InTable(l) \cup InGone(l) \cup batches
  BY DEF Places, InBuffer, InBatch, InTable, InGone
<1>2. \A p : p \in batches <=> \E t \in Threads : p \in InBatch(t, l)
  OBVIOUS
<1> HIDE DEF batches
<1> QED BY <1>1, <1>2

\* What is in one of the places is in no other, and once in that one.
LEMMA OneOfThem == TypeOK /\ OnceInv => EachLineOnce
<1> SUFFICES ASSUME TypeOK, OnceInv, NEW r \in Readers, NEW n \in 1 .. count[r]
             PROVE  Cardinality(Places(LineOf(r, n))) = 1
  BY DEF EachLineOnce
<1> DEFINE l == LineOf(r, n)
           inPending == {<<"pending", i>> : i \in {j \in DOMAIN pending : pending[j] = l}}
           inBatch(t) == {<<"batch", t, i>> : i \in {j \in DOMAIN batch[t] : batch[t][j] = l}}
           all == rows \cup UNION {open[t] : t \in Threads}
           inRows == {<<"row", e[1]>> : e \in {d \in all : d[2] = l}}
           inGone == {<<"gone", 0>> : g \in {l} \cap gone}
<1>1. l \in Lines /\ Read(l)
  <2>1. n \in 1 .. MaxLines
    BY Threading DEF TypeOK
  <2> QED BY <2>1 DEF Lines, Read
<1>2. \A p : p \in Places(l) <=> \/ p \in inPending \cup inRows \cup inGone
                                \/ \E t \in Threads : p \in inBatch(t)
  BY PlacesAre DEF InBuffer, InBatch, InTable, InGone
<1> HIDE DEF l
<1>3. l \notin Range(pending) => inPending = {}
  BY DEF Range
<1>4. \A t \in Threads : l \notin Taken(t) => inBatch(t) = {}
  BY DEF Range, Taken
<1>5. l \notin Written /\ (\A t \in Threads : l \notin Writing(t)) => inRows = {}
  BY DEF Written, Writing
<1>6. /\ l \notin gone => inGone = {}
      /\ l \in gone => inGone = {<<"gone", 0>>}
  OBVIOUS
<1>7. (\E p : Places(l) = {p}) => Cardinality(Places(l)) = 1
  BY FS_Singleton
<1>8. CASE l \in Range(pending)
  <2>1. PICK i \in DOMAIN pending : pending[i] = l
    BY <1>8 DEF Range
  <2>2. {j \in DOMAIN pending : pending[j] = l} = {i}
    BY <1>1, <2>1 DEF OnceInv, Single, OnceIn
  <2>3. inPending = {<<"pending", i>>}
    BY <2>2
  <2>4. inRows = {} /\ inGone = {} /\ \A t \in Threads : inBatch(t) = {}
    BY <1>1, <1>4, <1>5, <1>6, <1>8 DEF OnceInv, OnePlace
  <2> HIDE DEF inPending, inBatch, inRows, inGone
  <2>5. Places(l) = {<<"pending", i>>}
    BY <1>2, <2>3, <2>4
  <2> QED BY <1>7, <2>5 DEF l
<1>9. ASSUME NEW t \in Threads, l \in Taken(t) PROVE Cardinality(Places(l)) = 1
  <2>1. PICK i \in DOMAIN batch[t] : batch[t][i] = l
    BY <1>9 DEF Taken, Range
  <2>2. {j \in DOMAIN batch[t] : batch[t][j] = l} = {i}
    BY <1>1, <2>1 DEF OnceInv, Single, OnceIn
  <2>3. inBatch(t) = {<<"batch", t, i>>}
    BY <2>2
  <2>4. inPending = {} /\ inRows = {} /\ inGone = {} /\ \A u \in Threads : u # t => inBatch(u) = {}
    BY <1>1, <1>3, <1>4, <1>5, <1>6, <1>9 DEF OnceInv, OnePlace
  <2> HIDE DEF inPending, inBatch, inRows, inGone
  <2>5. Places(l) = {<<"batch", t, i>>}
    BY <1>2, <2>3, <2>4
  <2> QED BY <1>7, <2>5
<1>10. CASE l \in Written \/ \E t \in Threads : l \in Writing(t)
  <2>1. PICK e \in all : e[2] = l
    BY <1>10 DEF Written, Writing
  <2>2. ASSUME NEW d \in all, d[2] = l PROVE d = e
    <3>1. d \in rows \/ \E t \in Threads : d \in open[t]
      BY <2>2
    <3>2. e \in rows \/ \E t \in Threads : e \in open[t]
      BY <2>1
    <3>3. CASE e \in rows
      <4>1. l \in Written
        BY <2>1, <3>3 DEF Written
      <4>2. d \in rows
        BY <1>1, <2>2, <3>1, <4>1 DEF OnceInv, OnePlace, Writing
      <4> QED BY <1>1, <2>1, <2>2, <3>3, <4>2 DEF OnceInv, Single, OneRow
    <3>4. ASSUME NEW t \in Threads, e \in open[t] PROVE d = e
      <4>1. l \in Writing(t)
        BY <2>1, <3>4 DEF Writing
      <4>2. d \in open[t]
        BY <1>1, <2>2, <3>1, <4>1 DEF OnceInv, OnePlace, Writing, Written
      <4> QED BY <1>1, <2>1, <2>2, <3>4, <4>2 DEF OnceInv, Single, OneRow
    <3> QED BY <3>2, <3>3, <3>4
  <2>3. inRows = {<<"row", e[1]>>}
    <3>1. {d \in all : d[2] = l} = {e}
      BY <2>1, <2>2
    <3> QED BY <3>1
  <2>4. inPending = {} /\ inGone = {} /\ \A u \in Threads : inBatch(u) = {}
    BY <1>1, <1>3, <1>4, <1>6, <1>10 DEF OnceInv, OnePlace
  <2> HIDE DEF inPending, inBatch, inRows, inGone
  <2>5. Places(l) = {<<"row", e[1]>>}
    BY <1>2, <2>3, <2>4
  <2> QED BY <1>7, <2>5 DEF l
<1>11. CASE l \in gone
  <2>1. inPending = {} /\ inRows = {} /\ \A u \in Threads : inBatch(u) = {}
    BY <1>1, <1>3, <1>4, <1>5, <1>11 DEF OnceInv, OnePlace
  <2>2. inGone = {<<"gone", 0>>}
    BY <1>6, <1>11
  <2> HIDE DEF inPending, inBatch, inRows, inGone
  <2>3. Places(l) = {<<"gone", 0>>}
    BY <1>2, <2>1, <2>2
  <2> QED BY <1>7, <2>3 DEF l
<1>12. \/ l \in Range(pending) \/ l \in Written \/ l \in gone
       \/ \E t \in Threads : l \in Taken(t) \/ l \in Writing(t)
  BY <1>1 DEF OnceInv, NoneLost
<1> QED BY <1>8, <1>9, <1>10, <1>11, <1>12 DEF l

\* Every line a reader has read is in exactly one place, for any number of readers and
\* lines, any backend, whatever writes fail and whenever the process dies: no line is
\* lost but with a failed write, a dead process or a purge, and none is written twice
\* (_JobLogBuffer takes a batch under its lock and writes it afterwards).
THEOREM LinesOnce == Spec => []EachLineOnce
  BY OnceHolds, OneOfThem, PTL

-----------------------------------------------------------------------------
(* When the lines of a stage are written *)

\* A reader that does not read has nothing left to write; one that reads belongs to the
\* command that is being run, or is not waited for any longer.
ReadersOK ==
    /\ \A r \in Readers : reader[r] # "reading" => Idle(r)
    /\ \A r \in Readers : reader[r] = "reading" =>
         r \in late \/ (r[1] = stage /\ pc \in {"command", "join"})
    /\ \A q \in late : q[1] <= stage

\* The buffer stays empty after the flush before the end of a stage, and after the last
\* one; the job thread leaves nothing unwritten.
FlushedOK ==
    /\ pc \in {"sayEnded", "leave", "done"} /\ late = {} => pending = <<>>
    /\ pc = "done" => Idle(Job)

\* A row that says a stage has ended is there only when it has.
Over(k) == k < stage \/ (k = stage /\ pc \in {"next", "finally", "leave", "done", "dead"})
EndedOK ==
    \A k \in 1 .. Stages :
        Event(k, "ended") \in Taken(Job) \cup Writing(Job) \cup Written => Over(k)

\* Then the lines of the stage are stored before it.
InTime(k) == \A q \in late : q[1] > k
LinesFirst ==
    \A r \in Readers : \A n \in 1 .. count[r] : InTime(r[1]) =>
        /\ Event(r[1], "ended") \in Taken(Job) => LineOf(r, n) \in gone \cup Written
        /\ \A e \in open[Job] \cup rows :
             e[2] = Event(r[1], "ended") => Stored(LineOf(r, n), e[1])

\* The inductive invariant of when they are written.
FirstInv == ReadersOK /\ FlushedOK /\ EndedOK /\ LinesFirst

\* No event of a stage is an event of another one, or of another kind.
LEMMA EventsDiffer ==
    \A j, k, x, y : Event(j, x) = Event(k, y) => j = k /\ x = y
  BY DEF Event

\* The readers: only they read, and a command is left when they are closed or late.
LEMMA ReadersStep == TypeOK /\ ReadersOK /\ [Next]_vars => ReadersOK'
<1> SUFFICES ASSUME TypeOK, ReadersOK, [Next]_vars PROVE ReadersOK'
  OBVIOUS
<1> USE Threading DEF jobVars, bufferVars, writeVars, clientVars
<1>1. CASE Flush \/ Emit
  <2>1. \A r \in Readers : batch'[r] = batch[r]
    BY <1>1 DEF Flush, Emit, Take, TypeOK
  <2>2. /\ UNCHANGED <<reader, open, stage, late>>
        /\ pc \notin {"command", "join"}
    BY <1>1 DEF Flush, Emit, At
  <2> QED BY <2>1, <2>2 DEF ReadersOK, Idle
<1>2. CASE Spawn
  <2>1. /\ pc = "spawn" /\ pc' = "command" /\ UNCHANGED <<stage, late, batch, open>>
        /\ \A r \in Readers : reader'[r] = IF r[1] = stage THEN "reading" ELSE reader[r]
    BY <1>2 DEF Spawn, At
  <2> QED BY <2>1 DEF ReadersOK, Idle
<1>3. CASE NoCommand \/ CommandEnds \/ Finish
  <2>1. /\ UNCHANGED <<reader, stage, late, batch, open>>
        /\ pc \notin {"command", "join"} \/ pc' \in {"command", "join"}
    BY <1>3 DEF NoCommand, CommandEnds, Finish, At
  <2> QED BY <2>1 DEF ReadersOK, Idle
<1>13. CASE CheckRaises
  <2>1. /\ UNCHANGED <<reader, stage, batch, open>>
        /\ late' = late \cup {r \in Readers : r[1] = stage /\ reader[r] = "reading"}
    BY <1>13 DEF CheckRaises
  <2>2. stage <= stage
    BY DEF TypeOK
  <2> QED BY <2>1, <2>2 DEF ReadersOK, Idle
<1>4. CASE Joined
  <2>1. /\ UNCHANGED <<reader, stage, late, batch, open>>
        /\ \A r \in Readers : r[1] = stage => reader[r] = "closed" \/ r \in late
    BY <1>4 DEF Joined
  <2> QED BY <2>1 DEF ReadersOK, Idle
<1>5. CASE NextStage
  <2>1. /\ pc = "next" /\ stage' = stage + 1 /\ UNCHANGED <<reader, late, batch, open>>
    BY <1>5 DEF NextStage, At
  <2>2. late \subseteq Readers /\ stage \in 1 .. Stages
    BY DEF TypeOK
  <2>3. \A q \in late : q[1] \in Int /\ stage \in Int
    BY <2>2
  <2> QED BY <2>1, <2>3 DEF ReadersOK, Idle
<1>6. CASE Crash
  <2>1. /\ \A r \in Readers : batch'[r] = <<>> /\ open'[r] = {} /\ reader'[r] = "closed"
        /\ UNCHANGED <<stage, late>>
    BY <1>6 DEF Crash
  <2> QED BY <2>1 DEF ReadersOK, Idle
<1>7. CASE Tick \/ Poll \/ Purge
  BY <1>7 DEF Tick, Poll, Purge, ReadersOK, Idle
<1>8. ASSUME NEW t \in Threads, InsertRow(t) \/ Commit(t) \/ WriteFails(t) PROVE ReadersOK'
  <2>1. /\ UNCHANGED <<reader, stage, late>> /\ ~Idle(t)
        /\ \A r \in Threads : r # t => open'[r] = open[r] /\ batch'[r] = batch[r]
        /\ pc' = pc \/ pc \notin {"command", "join"}
    BY <1>8 DEF InsertRow, Commit, WriteFails, Idle, TypeOK
  <2>2. t \in Readers => reader[t] = "reading"
    BY <2>1 DEF ReadersOK
  <2> QED BY <2>1, <2>2 DEF ReadersOK, Idle
<1>9. ASSUME NEW r \in Readers, ReadLine(r) PROVE ReadersOK'
  <2>1. /\ UNCHANGED <<pc, stage, late, reader, open>> /\ reader[r] = "reading"
        /\ \A q \in Readers : q # r => batch'[q] = batch[q]
    BY <1>9 DEF ReadLine, Add, Take, TypeOK
  <2> QED BY <2>1 DEF ReadersOK, Idle
<1>10. ASSUME NEW r \in Readers, ReaderCloses(r) PROVE ReadersOK'
  <2>1. /\ UNCHANGED <<pc, stage, late, batch, open>> /\ Idle(r)
        /\ \A q \in Readers : reader'[q] = IF q = r THEN "closed" ELSE reader[q]
    BY <1>10 DEF ReaderCloses, TypeOK
  <2> QED BY <2>1 DEF ReadersOK, Idle
<1>11. ASSUME NEW r \in Readers, JoinTimesOut(r) PROVE ReadersOK'
  <2>1. /\ UNCHANGED <<pc, stage, reader, batch, open>> /\ r[1] = stage /\ late' = late \cup {r}
    BY <1>11 DEF JoinTimesOut
  <2>2. stage <= stage
    BY DEF TypeOK
  <2> QED BY <2>1, <2>2 DEF ReadersOK, Idle
<1>12. CASE UNCHANGED vars
  BY <1>12 DEF vars, ReadersOK, Idle
<1> QED
  BY <1>1, <1>2, <1>3, <1>4, <1>5, <1>6, <1>7, <1>8, <1>9, <1>10, <1>11, <1>12, <1>13
  DEF Next, JobStep

\* The buffer: nothing is put into it after the last flush of a stage.
LEMMA FlushedStep == TypeOK /\ ReadersOK /\ FlushedOK /\ [Next]_vars => FlushedOK'
<1> SUFFICES ASSUME TypeOK, ReadersOK, FlushedOK, [Next]_vars PROVE FlushedOK'
  OBVIOUS
<1> USE Threading DEF jobVars, bufferVars, writeVars, clientVars
<1>1. CASE Flush
  <2>1. pending' = <<>> /\ pc' # "done"
    BY <1>1 DEF Flush, At, Take
  <2> QED BY <2>1 DEF FlushedOK
<1>2. CASE Emit \/ Spawn \/ NoCommand \/ CommandEnds \/ CheckRaises \/ Joined \/ NextStage
  <2>1. pc' \notin {"sayEnded", "leave", "done"}
    BY <1>2 DEF Emit, Spawn, NoCommand, CommandEnds, CheckRaises, Joined, NextStage, At
  <2> QED BY <2>1 DEF FlushedOK
<1>3. CASE Finish
  <2>1. /\ UNCHANGED <<late, pending, batch, open>> /\ Idle(Job)
        /\ pc' = "finally" \/ (pc = "leave" /\ pc' = "done")
    BY <1>3 DEF Finish, At
  <2> QED BY <2>1 DEF FlushedOK, Idle
<1>4. CASE Crash
  <2>1. pc' = "dead"
    BY <1>4 DEF Crash
  <2> QED BY <2>1 DEF FlushedOK
<1>5. CASE Tick \/ Poll \/ Purge
  BY <1>5 DEF Tick, Poll, Purge, FlushedOK, Idle
<1>6. ASSUME NEW t \in Threads, InsertRow(t) \/ Commit(t) \/ WriteFails(t) PROVE FlushedOK'
  <2>1. /\ UNCHANGED <<pending, late>> /\ ~Idle(t)
        /\ t # Job => open'[Job] = open[Job] /\ batch'[Job] = batch[Job]
        /\ pc' = pc \/ pc' = "finally"
    BY <1>6 DEF InsertRow, Commit, WriteFails, Idle, TypeOK
  <2> QED BY <2>1 DEF FlushedOK, Idle
<1>7. ASSUME NEW r \in Readers, ReadLine(r) PROVE FlushedOK'
  <2>1. /\ UNCHANGED <<pc, late, open>> /\ reader[r] = "reading" /\ batch'[Job] = batch[Job]
    BY <1>7 DEF ReadLine, Add, Take, TypeOK
  <2>2. late # {} \/ pc \in {"command", "join"}
    BY <2>1 DEF ReadersOK
  <2> QED BY <2>1, <2>2 DEF FlushedOK, Idle
<1>8. ASSUME NEW r \in Readers, ReaderCloses(r) \/ JoinTimesOut(r) PROVE FlushedOK'
  <2>1. UNCHANGED <<pc, pending, batch, open>> /\ (late' = {} => late = {})
    BY <1>8 DEF ReaderCloses, JoinTimesOut
  <2> QED BY <2>1 DEF FlushedOK, Idle
<1>9. CASE UNCHANGED vars
  BY <1>9 DEF vars, FlushedOK, Idle
<1> QED BY <1>1, <1>2, <1>3, <1>4, <1>5, <1>6, <1>7, <1>8, <1>9 DEF Next, JobStep

\* A stage that is over stays over.
LEMMA OverStays ==
    TypeOK /\ [Next]_vars => \A k \in 1 .. Stages : Over(k) => Over(k)'
<1> SUFFICES ASSUME TypeOK, [Next]_vars, NEW k \in 1 .. Stages, Over(k) PROVE Over(k)'
  OBVIOUS
<1> USE Threading DEF jobVars, bufferVars, writeVars, clientVars
<1>0. stage \in Int /\ k \in Int
  BY DEF TypeOK
<1>1. CASE Flush \/ Emit \/ Spawn \/ NoCommand \/ CommandEnds \/ CheckRaises \/ Joined \/ Finish
  BY <1>1 DEF Flush, Emit, Spawn, NoCommand, CommandEnds, CheckRaises, Joined, Finish, At, Over
<1>2. CASE NextStage
  BY <1>0, <1>2 DEF NextStage, At, Over
<1>3. CASE Tick \/ Poll \/ Purge \/ Crash \/ UNCHANGED vars
  BY <1>3 DEF Tick, Poll, Purge, Crash, vars, Over
<1>4. ASSUME NEW t \in Threads, InsertRow(t) \/ Commit(t) \/ WriteFails(t) PROVE Over(k)'
  BY <1>4 DEF InsertRow, Commit, WriteFails, Over
<1>5. ASSUME NEW r \in Readers, ReadLine(r) \/ ReaderCloses(r) \/ JoinTimesOut(r) PROVE Over(k)'
  BY <1>5 DEF ReadLine, ReaderCloses, JoinTimesOut, Over
<1> QED BY <1>1, <1>2, <1>3, <1>4, <1>5 DEF Next, JobStep

\* Only Emit writes an event: every other step finds it where the job thread or the table
\* had it.
LEMMA EventsFrom ==
    ASSUME TypeOK, OnceInv, [Next]_vars, NEW k
    PROVE  /\ Event(k, "ended") \in Taken(Job)' =>
                \/ Event(k, "ended") \in Taken(Job)
                \/ Emit /\ pc = "sayEnded" /\ pc' = "next" /\ k = stage
           /\ \A e \in open'[Job] \cup rows' : e[2] = Event(k, "ended") =>
                \/ e \in open[Job] \cup rows
                \/ /\ InsertRow(Job) /\ Event(k, "ended") \in Taken(Job)
                   /\ e[1] = lastId + 1
<1> DEFINE ended == Event(k, "ended")
           Goal == /\ ended \in Taken(Job)' =>
                       \/ ended \in Taken(Job)
                       \/ Emit /\ pc = "sayEnded" /\ pc' = "next" /\ k = stage
                   /\ \A e \in open'[Job] \cup rows' : e[2] = ended =>
                       \/ e \in open[Job] \cup rows
                       \/ InsertRow(Job) /\ ended \in Taken(Job) /\ e[1] = lastId + 1
<1> SUFFICES Goal
  OBVIOUS
<1> USE Threading DEF jobVars, bufferVars, writeVars, clientVars
<1>0. ended \notin Lines
  BY LinesDiffer
<1>1. CASE batch'[Job] = batch[Job] /\ open'[Job] = open[Job] /\ rows' \subseteq rows
  BY <1>1 DEF Taken
<1>2. CASE Flush
  <2>1. batch'[Job] = pending /\ UNCHANGED <<open, rows>>
    BY <1>2 DEF Flush, Take, TypeOK
  <2>2. ended \notin Taken(Job)'
    BY <1>0, <2>1 DEF OnceInv, LinesOnly, Taken
  <2> QED BY <2>1, <2>2
<1>3. CASE Emit
  <2>1. PICK kind \in {"started", "ended"} :
          /\ batch' = [batch EXCEPT ![Job] = <<Event(stage, kind)>>]
          /\ pc = IF kind = "started" THEN "sayStarted" ELSE "sayEnded"
          /\ pc' = IF kind = "started" THEN "spawn" ELSE "next"
    BY <1>3 DEF Emit, At
  <2>2. Taken(Job)' = {Event(stage, kind)} /\ UNCHANGED <<open, rows>>
    BY <1>3, <2>1, InShort DEF Emit, Taken, TypeOK
  <2>3. ended = Event(stage, kind) => kind = "ended" /\ k = stage
    BY EventsDiffer
  <2> QED BY <1>3, <2>1, <2>2, <2>3
<1>4. CASE InsertRow(Job)
  <2>1. /\ batch[Job] \in Seq(Entries) /\ batch[Job] # <<>> /\ UNCHANGED rows
        /\ batch'[Job] = Tail(batch[Job])
        /\ open'[Job] = open[Job] \cup {<<lastId + 1, Head(batch[Job])>>}
    BY <1>4 DEF InsertRow, TypeOK
  <2>2. Range(batch[Job]) = Range(Tail(batch[Job])) \cup {Head(batch[Job])}
    BY <2>1, InTail
  <2> QED BY <1>4, <2>1, <2>2 DEF Taken
<1>5. CASE Commit(Job) \/ WriteFails(Job)
  <2>1. /\ rows' \subseteq rows \cup open[Job] /\ open'[Job] = {}
        /\ batch'[Job] = batch[Job] \/ batch'[Job] = <<>>
    BY <1>5 DEF Commit, WriteFails, TypeOK
  <2> QED BY <2>1, InShort DEF Taken
<1>6. ASSUME NEW r \in Readers, InsertRow(r) PROVE Goal
  BY <1>1, <1>6 DEF InsertRow, TypeOK
<1>7. ASSUME NEW r \in Readers, Commit(r) \/ WriteFails(r) PROVE Goal
  <2>1. /\ batch'[Job] = batch[Job] /\ open'[Job] = open[Job]
        /\ rows' \subseteq rows \cup open[r]
    BY <1>7 DEF Commit, WriteFails, TypeOK
  <2>2. \A e \in open[r] : e[2] # ended
    BY <1>0 DEF OnceInv, LinesOnly, Writing
  <2> QED BY <2>1, <2>2 DEF Taken
<1>8. ASSUME NEW r \in Readers, ReadLine(r) \/ ReaderCloses(r) \/ JoinTimesOut(r) PROVE Goal
  <2>1. batch'[Job] = batch[Job] /\ UNCHANGED <<open, rows>>
    BY <1>8 DEF ReadLine, Add, Take, ReaderCloses, JoinTimesOut, TypeOK
  <2> QED BY <1>1, <2>1
<1>9. CASE Spawn \/ NoCommand \/ CommandEnds \/ CheckRaises \/ Joined \/ NextStage \/ Finish
           \/ Tick \/ Poll \/ UNCHANGED vars
  <2>1. UNCHANGED <<batch, open, rows>>
    BY <1>9
    DEF Spawn, NoCommand, CommandEnds, CheckRaises, Joined, NextStage, Finish, Tick, Poll, vars
  <2> QED BY <1>1, <2>1
<1>10. CASE Crash
  <2>1. batch'[Job] = <<>> /\ open'[Job] = {} /\ rows' = rows
    BY <1>10 DEF Crash
  <2> QED BY <2>1, InShort DEF Taken
<1>11. CASE Purge
  BY <1>1, <1>11 DEF Purge
<1> HIDE DEF Goal
<1> QED
  BY <1>2, <1>3, <1>4, <1>5, <1>6, <1>7, <1>8, <1>9, <1>10, <1>11 DEF Next, JobStep

\* The events of a stage come when it is over.
LEMMA EndedStep == TypeOK /\ OnceInv /\ EndedOK /\ [Next]_vars => EndedOK'
<1> SUFFICES ASSUME TypeOK, OnceInv, EndedOK, [Next]_vars, NEW k \in 1 .. Stages,
                    (Event(k, "ended") \in Taken(Job) \cup Writing(Job) \cup Written)'
             PROVE  Over(k)'
  BY DEF EndedOK
<1>1. CASE Event(k, "ended") \in Taken(Job) \cup Writing(Job) \cup Written
  BY <1>1, OverStays DEF EndedOK
<1>2. CASE Emit /\ pc' = "next" /\ k = stage
  <2>1. stage' = stage
    BY <1>2 DEF Emit
  <2> QED BY <1>2, <2>1 DEF Over
<1>3. Event(k, "ended")' = Event(k, "ended")
  BY DEF Event
<1>4. CASE Event(k, "ended") \in Taken(Job)'
  BY <1>1, <1>2, <1>4, EventsFrom
<1>5. ASSUME NEW e \in open'[Job] \cup rows', e[2] = Event(k, "ended") PROVE Over(k)'
  <2>1. e \in open[Job] \cup rows \/ Event(k, "ended") \in Taken(Job)
    BY <1>5, EventsFrom
  <2> QED BY <1>1, <1>5, <2>1 DEF Writing, Written
<1> QED BY <1>4, <1>5 DEF Writing, Written

\* What is stored stays stored: a purge leaves a trace of what it deletes.
LEMMA StoredStays ==
    [Next]_vars => /\ \A l \in gone \cup Written : l \in (gone \cup Written)'
                   /\ \A l, before : Stored(l, before) => Stored(l, before)'
<1> SUFFICES ASSUME [Next]_vars
             PROVE  gone \subseteq gone' /\ \A e \in rows : e \in rows' \/ e[2] \in gone'
  BY DEF Stored, Written
<1> USE DEF jobVars, bufferVars, writeVars, clientVars
<1>1. CASE JobStep \/ Tick \/ Poll \/ Crash \/ UNCHANGED vars
  BY <1>1
  DEF JobStep, Flush, Emit, Spawn, NoCommand, CommandEnds, CheckRaises, Joined, NextStage, Finish,
      Tick, Poll, Crash, vars
<1>2. CASE Purge
  <2>1. PICK n : LET old == {e \in rows : e[1] <= n} IN
                 rows' = rows \ old /\ gone' = gone \cup {e[2] : e \in old}
    BY <1>2 DEF Purge
  <2> QED BY <2>1
<1>3. ASSUME NEW t \in Threads, InsertRow(t) \/ Commit(t) \/ WriteFails(t)
      PROVE  gone \subseteq gone' /\ rows \subseteq rows'
  BY <1>3 DEF InsertRow, Commit, WriteFails
<1>4. ASSUME NEW r \in Readers, ReadLine(r) \/ ReaderCloses(r) \/ JoinTimesOut(r)
      PROVE  UNCHANGED <<gone, rows>>
  BY <1>4 DEF ReadLine, ReaderCloses, JoinTimesOut
<1> QED BY <1>1, <1>2, <1>3, <1>4 DEF Next

\* Once the readers have stopped and the buffer is empty, what was read is stored.
LEMMA AllStored ==
    ASSUME TypeOK, IInv, OnceInv, ReadersOK, late = {}, pending = <<>>, Idle(Job),
           pc \notin {"command", "join"}, NEW r \in Readers, NEW n \in 1 .. count[r]
    PROVE  LineOf(r, n) \in gone \cup Written /\ Stored(LineOf(r, n), lastId + 1)
<1>1. \A t \in Threads : Taken(t) = {} /\ Writing(t) = {}
  <2>1. \A t \in Threads : Idle(t)
    BY Threading DEF ReadersOK, TypeOK
  <2> QED BY <2>1, InShort DEF Idle, Taken, Writing
<1>2. LineOf(r, n) \in Lines /\ Read(LineOf(r, n))
  <2>1. n \in 1 .. MaxLines
    BY Threading DEF TypeOK
  <2> QED BY <2>1 DEF Lines, Read
<1>3. LineOf(r, n) \in gone \cup Written
  BY <1>1, <1>2, InShort DEF OnceInv, NoneLost
<1>4. \A e \in rows : e[1] < lastId + 1
  BY DEF IInv, IdsOK
<1> QED BY <1>3, <1>4 DEF Stored, Written

\* The lines of a stage are stored before its event is.
LEMMA LinesFirstStep ==
    TypeOK /\ IInv /\ OnceInv /\ FirstInv /\ [Next]_vars => LinesFirst'
<1> SUFFICES ASSUME TypeOK, IInv, OnceInv, FirstInv, [Next]_vars,
                    NEW r \in Readers, NEW n \in 1 .. count'[r], InTime(r[1])'
             PROVE  /\ Event(r[1], "ended") \in Taken(Job)' => LineOf(r, n) \in (gone \cup Written)'
                    /\ \A e \in open'[Job] \cup rows' :
                         e[2] = Event(r[1], "ended") => Stored(LineOf(r, n), e[1])'
  <2>1. \A x, y : Event(x, y)' = Event(x, y) /\ LineOf(x, y)' = LineOf(x, y)
    BY DEF Event, LineOf
  <2> QED BY <2>1 DEF LinesFirst
<1> DEFINE ended == Event(r[1], "ended")
           line == LineOf(r, n)
<1>0. r[1] \in 1 .. Stages /\ r[1] \in Int
  BY Threading
<1>1. late \subseteq late' /\ InTime(r[1])
  <2> USE DEF jobVars
  <2>1. ASSUME JobStep \/ Tick \/ Poll \/ Crash \/ Purge \/ UNCHANGED vars PROVE late \subseteq late'
    BY <2>1
    DEF JobStep, Flush, Emit, Spawn, NoCommand, CommandEnds, CheckRaises, Joined, NextStage, Finish,
        Tick, Poll, Crash, Purge, vars
  <2>2. ASSUME NEW t \in Threads, InsertRow(t) \/ Commit(t) \/ WriteFails(t) PROVE late' = late
    BY <2>2 DEF InsertRow, Commit, WriteFails
  <2>3. ASSUME NEW q \in Readers, ReadLine(q) \/ ReaderCloses(q) \/ JoinTimesOut(q)
        PROVE  late \subseteq late'
    BY <2>3 DEF ReadLine, ReaderCloses, JoinTimesOut
  <2>4. late \subseteq late'
    BY <2>1, <2>2, <2>3 DEF Next
  <2> QED BY <2>4 DEF InTime
<1>2. CASE n \in 1 .. count[r]
  \* The line has been read before: it is stored, or the event is written in this step.
  <2>1. ASSUME ended \in Taken(Job) PROVE line \in gone \cup Written
    BY <1>1, <1>2, <2>1 DEF FirstInv, LinesFirst
  <2>2. ASSUME Emit, pc = "sayEnded", r[1] = stage PROVE line \in gone \cup Written
    <3>1. late = {}
      <4>1. \A q \in late : q[1] > stage /\ q[1] <= stage /\ q[1] \in Int /\ stage \in Int
        BY <1>1, <2>2, Threading DEF InTime, FirstInv, ReadersOK, TypeOK
      <4> QED BY <4>1
    <3>2. pending = <<>> /\ Idle(Job)
      BY <2>2, <3>1 DEF FirstInv, FlushedOK, Emit, At
    <3> QED BY <1>2, <2>2, <3>1, <3>2, AllStored DEF FirstInv
  <2>3. ASSUME ended \in Taken(Job)' PROVE line \in (gone \cup Written)'
    BY <2>1, <2>2, <2>3, EventsFrom, StoredStays
  <2>4. ASSUME NEW e \in open'[Job] \cup rows', e[2] = ended PROVE Stored(line, e[1])'
    <3>1. CASE e \in open[Job] \cup rows
      <4>1. Stored(line, e[1])
        BY <1>1, <1>2, <2>4, <3>1 DEF FirstInv, LinesFirst
      <4> QED BY <4>1, StoredStays DEF line
    <3>2. CASE ended \in Taken(Job) /\ e[1] = lastId + 1
      <4>1. line \in gone \cup Written
        BY <2>1, <3>2
      <4>2. \A d \in rows : d[1] < lastId + 1
        BY DEF IInv, IdsOK
      <4>3. Stored(line, e[1])
        BY <3>2, <4>1, <4>2 DEF Stored, Written
      <4> QED BY <4>3, StoredStays
    <3> QED BY <2>4, <3>1, <3>2, EventsFrom
  <2> QED BY <2>3, <2>4
<1>3. CASE n \notin 1 .. count[r]
  \* It is read in this step: then the stage is not over, or its reader is late.
  <2>1. ReadLine(r)
    <3>1. count'[r] # count[r]
      BY <1>3
    <3> USE DEF jobVars, bufferVars, writeVars, clientVars
    <3>2. ASSUME NEW q \in Readers, ReadLine(q), q # r PROVE FALSE
      BY <3>1, <3>2 DEF ReadLine, TypeOK
    <3>3. CASE JobStep \/ Tick \/ Poll \/ Crash \/ Purge \/ UNCHANGED vars
      BY <3>1, <3>3
      DEF JobStep, Flush, Emit, Spawn, NoCommand, CommandEnds, CheckRaises, Joined, NextStage,
          Finish, Tick, Poll, Crash, Purge, vars
    <3>4. ASSUME NEW t \in Threads, InsertRow(t) \/ Commit(t) \/ WriteFails(t) PROVE FALSE
      BY <3>1, <3>4 DEF InsertRow, Commit, WriteFails
    <3>5. ASSUME NEW q \in Readers, ReaderCloses(q) \/ JoinTimesOut(q) PROVE FALSE
      BY <3>1, <3>5 DEF ReaderCloses, JoinTimesOut
    <3> QED BY <3>2, <3>3, <3>4, <3>5 DEF Next
  <2>2. r \notin late
    BY <1>0, <1>1 DEF InTime
  <2>3. r[1] = stage /\ pc \in {"command", "join"}
    BY <2>1, <2>2 DEF ReadLine, FirstInv, ReadersOK
  <2>4. ~Over(r[1])
    BY <1>0, <2>3 DEF Over
  <2>5. ended \notin Taken(Job) \cup Writing(Job) \cup Written
    BY <1>0, <2>4 DEF FirstInv, EndedOK
  <2>6. pc' = pc
    BY <2>1 DEF ReadLine, jobVars
  <2> QED BY <2>3, <2>5, <2>6, EventsFrom DEF Writing, Written
<1> QED BY <1>2, <1>3

\* The row that says a stage has ended comes after every line of its command, and no line
\* is left when the job is over, for any number of stages, readers and lines, any backend,
\* whatever writes fail and whenever the process dies - unless the job went on without a
\* reader: a join of 5 s timed out, or a cancel check raised in the poll loop and nothing was
\* joined (event_sink flushes the buffer first, _run_external_command joins its readers).
THEOREM LogIsComplete == Spec => []LogComplete
<1>1. Init => FirstInv
  <2> SUFFICES ASSUME Init PROVE FirstInv
    OBVIOUS
  <2>1. ReadersOK /\ FlushedOK
    BY Threading DEF Init, ReadersOK, FlushedOK, Idle
  <2>2. /\ Taken(Job) = {} /\ Writing(Job) = {} /\ Written = {}
        /\ \A r \in Readers : count[r] = 0
    BY Threading, InShort DEF Init, Taken, Writing, Written
  <2>3. EndedOK
    BY <2>2 DEF EndedOK
  <2>4. LinesFirst
    BY <2>2 DEF LinesFirst
  <2> QED BY <2>1, <2>3, <2>4 DEF FirstInv
<1>2. TypeOK /\ IInv /\ OnceInv /\ FirstInv /\ [Next]_vars => FirstInv'
  BY ReadersStep, FlushedStep, EndedStep, LinesFirstStep DEF FirstInv
<1>3. TypeOK /\ IInv /\ OnceInv /\ FirstInv => LogComplete
  <2> SUFFICES ASSUME TypeOK, IInv, OnceInv, FirstInv, NEW r \in Readers, NEW n \in 1 .. count[r]
               PROVE  /\ \A e \in rows :
                           e[2] = Event(r[1], "ended") /\ (\A q \in late : q[1] > r[1])
                               => Stored(LineOf(r, n), e[1])
                      /\ pc = "done" /\ late = {} => Stored(LineOf(r, n), lastId + 1)
    BY DEF LogComplete
  <2>1. ASSUME NEW e \in rows, e[2] = Event(r[1], "ended"), \A q \in late : q[1] > r[1]
        PROVE  Stored(LineOf(r, n), e[1])
    BY <2>1 DEF FirstInv, LinesFirst, InTime
  <2>2. ASSUME pc = "done", late = {} PROVE Stored(LineOf(r, n), lastId + 1)
    <3>1. pending = <<>> /\ Idle(Job) /\ ReadersOK
      BY <2>2 DEF FirstInv, FlushedOK
    <3> QED BY <2>2, <3>1, AllStored
  <2> QED BY <2>1, <2>2
<1> QED BY <1>1, <1>2, <1>3, OnceHolds, Inductive, PTL DEF Spec

=============================================================================
