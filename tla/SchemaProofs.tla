---------------------------- MODULE SchemaProofs ----------------------------
(***************************************************************************)
(* The schema of the metadata database, for any tables, any number of      *)
(* services, starts and failures: what holds whoever comes between, and    *)
(* what holds on a database that has tables or, where there may be none,   *)
(* if those who find none start one after the other.                       *)
(***************************************************************************)
EXTENDS Schema, TLAPS

\* Who is at work on the database, and who has it open.
Busy(a) == pc[a] \notin {"idle", "up", "failed"}
Entering == {"wal", "stamp table", "upgrade table"}
Writing == {"tables", "alter", "stamp head", "040", "050", "060", "add"}

\* A file that has a table has a page; those that are not created yet have nothing.
FilesOK ==
    /\ \A f \in 1 .. MaxFiles : files[f].tables # {} => files[f].sized
    /\ \A f \in 1 .. MaxFiles : f > created => files[f] = NewFile

\* Where there is no table yet, one is at work.
Alone == Fresh => \A a, b \in Actors : Busy(a) /\ Busy(b) => a = b

\* The file an actor works on is the one at the path, and is not removed under it.
ConnOK(a) ==
    /\ pc[a] \in Entering \cup Writing => path # None /\ conn[a] = path
    /\ pc[a] \in Writing => files[path].sized
    /\ pc[a] = "unlink" => path # None /\ ~files[path].sized

\* What it has done so far is in the file.
DoneOK(a) ==
    /\ pc[a] = "tables" => \A i \in 1 .. Len(Builtin) : i < at[a] => Builtin[i] \in files[path].tables
    /\ pc[a] = "alter" => Tables \subseteq files[path].tables
    /\ pc[a] \in {"alter", "add"} => seen[a] \subseteq files[path].columns

\* The migration comes to the built-in DDL with the last version, and a service does not
\* run Alembic.
RoleOK(a) ==
    IF a = Migrator
    THEN pc[a] \in InitPCs => path # None /\ files[path].sized /\ files[path].version = "060"
    ELSE pc[a] \in InitPCs \cup {"idle", "up", "failed"}

UpOK(a) ==
    pc[a] = "up" => /\ path # None /\ Complete(files[path])
                    /\ a = Migrator => files[path].version = "060"

ActorOK(a) == ConnOK(a) /\ DoneOK(a) /\ RoleOK(a) /\ UpOK(a)

\* Those who find no table start one after the other, or there is one already.
Serial == Apart \/ ~Fresh
Founded == Apart \/ \A content \in Before : content # None /\ content.tables # {}

\* The inductive invariant.
SchemaInv == FilesOK /\ Alone /\ Serial /\ \A a \in Actors : ActorOK(a)

-----------------------------------------------------------------------------
(* Types *)

\* What the constants say.
LEMMA Setting ==
    /\ MaxStarts \in Nat /\ MaxFailures \in Nat /\ MaxFiles \in Nat \ {0} /\ None \notin Nat
    /\ Services \subseteq Actors /\ Migrator \in Actors /\ Migrator \notin Services
    /\ \A a \in Actors : a # Migrator => a \in Services
    /\ NewFile \in Contents
    /\ \A i \in DOMAIN Base : Base[i] \in Tables
    /\ \A i \in DOMAIN Auth : Auth[i] \in Tables
    /\ Meta \in Tables /\ Jobs \in Tables
  BY SchemaAssumption DEF Actors, NewFile, Contents, Versions, Tables, Range

\* Where the entries of two sequences are in their concatenation.
LEMMA Joined ==
    ASSUME NEW S, NEW s \in Seq(S), NEW t \in Seq(S)
    PROVE  /\ s \o t \in Seq(S) /\ Len(s \o t) = Len(s) + Len(t)
           /\ \A i \in 1 .. Len(s) : (s \o t)[i] = s[i]
           /\ \A i \in 1 .. Len(t) : (s \o t)[i + Len(s)] = t[i]
<1>1. /\ s \o t \in Seq(S) /\ Len(s \o t) = Len(s) + Len(t) /\ Len(s) \in Nat /\ Len(t) \in Nat
      /\ \A i \in 1 .. Len(s) : (s \o t)[i] = s[i]
  OBVIOUS
<1>2. ASSUME NEW i \in 1 .. Len(t) PROVE (s \o t)[i + Len(s)] = t[i]
  <2>1. i + Len(s) \in 1 .. (Len(s) + Len(t)) /\ ~(i + Len(s) <= Len(s)) /\ (i + Len(s)) - Len(s) = i
    BY <1>1
  <2> QED BY <1>1, <2>1
<1> QED BY <1>1, <1>2

\* The list of the built-in DDL holds every table, and no other.
LEMMA BuiltinIs ==
    /\ Len(Builtin) \in Nat
    /\ \A i \in 1 .. Len(Builtin) : Builtin[i] \in Tables
    /\ \A t \in Tables : \E i \in 1 .. Len(Builtin) : Builtin[i] = t
<1> DEFINE first == <<Meta>> \o Base
<1>1. /\ Base \in Seq(Tables) /\ Auth \in Seq(Tables) /\ Meta \in Tables
      /\ DOMAIN Base = 1 .. Len(Base) /\ DOMAIN Auth = 1 .. Len(Auth)
      /\ Len(Base) \in Nat /\ Len(Auth) \in Nat
  <2>1. /\ DOMAIN Base = 1 .. Len(Base) /\ DOMAIN Auth = 1 .. Len(Auth)
        /\ Len(Base) \in Nat /\ Len(Auth) \in Nat
        /\ Base \in [1 .. Len(Base) -> STRING] /\ Auth \in [1 .. Len(Auth) -> STRING]
    BY SchemaAssumption
  <2>2. Base \in Seq(Tables)
    <3>1. Base \in [1 .. Len(Base) -> Tables]
      BY <2>1, Setting
    <3> QED BY <2>1, <3>1
  <2>3. Auth \in Seq(Tables)
    <3>1. Auth \in [1 .. Len(Auth) -> Tables]
      BY <2>1, Setting
    <3> QED BY <2>1, <3>1
  <2> QED BY <2>1, <2>2, <2>3, Setting
<1>2. /\ first \in Seq(Tables) /\ Len(first) = 1 + Len(Base) /\ first[1] = Meta
      /\ \A i \in 1 .. Len(Base) : first[i + 1] = Base[i]
  BY <1>1
<1>3. /\ Builtin \in Seq(Tables) /\ Len(Builtin) = 1 + Len(Base) + Len(Auth)
      /\ \A i \in 1 .. (1 + Len(Base)) : Builtin[i] = first[i]
      /\ \A i \in 1 .. Len(Auth) : Builtin[i + (1 + Len(Base))] = Auth[i]
  <2>1. Builtin = first \o Auth
    BY <1>1 DEF Builtin
  <2> HIDE DEF first
  <2>2. /\ first \o Auth \in Seq(Tables) /\ Len(first \o Auth) = Len(first) + Len(Auth)
        /\ \A i \in 1 .. Len(first) : (first \o Auth)[i] = first[i]
        /\ \A i \in 1 .. Len(Auth) : (first \o Auth)[i + Len(first)] = Auth[i]
    <3>1. first \in Seq(Tables) /\ Auth \in Seq(Tables)
      BY <1>1, <1>2
    <3> QED BY <3>1, Joined, SMTT(30)
  <2> QED BY <1>1, <1>2, <2>1, <2>2
<1> HIDE DEF first
<1>4. ASSUME NEW t \in Tables PROVE \E i \in 1 .. Len(Builtin) : Builtin[i] = t
  <2>1. CASE t = Meta
    <3>1. 1 \in 1 .. Len(Builtin) /\ Builtin[1] = t
      BY <1>1, <1>2, <1>3, <2>1
    <3> QED BY <3>1
  <2>2. ASSUME NEW i \in 1 .. Len(Base), Base[i] = t PROVE \E j \in 1 .. Len(Builtin) : Builtin[j] = t
    <3>1. i + 1 \in 1 .. Len(Builtin) /\ Builtin[i + 1] = t
      BY <1>1, <1>2, <1>3, <2>2
    <3> QED BY <3>1
  <2>3. ASSUME NEW i \in 1 .. Len(Auth), Auth[i] = t PROVE \E j \in 1 .. Len(Builtin) : Builtin[j] = t
    <3>1. i + (1 + Len(Base)) \in 1 .. Len(Builtin) /\ Builtin[i + (1 + Len(Base))] = t
      BY <1>1, <1>3, <2>3
    <3> QED BY <3>1
  <2> QED BY <1>1, <2>1, <2>2, <2>3 DEF Tables, Range
<1> QED BY <1>1, <1>3, <1>4

\* A statement on a file leaves the others alone, and its contents are contents.
LEMMA FileChange ==
    ASSUME TypeOK, NEW f \in 1 .. MaxFiles, NEW content \in Contents,
           files' = [files EXCEPT ![f] = content]
    PROVE  /\ files' \in [1 .. MaxFiles -> Contents]
           /\ files'[f] = content /\ \A g \in 1 .. MaxFiles : g # f => files'[g] = files[g]
  BY DEF TypeOK

LEMMA CreatedIs ==
    ASSUME NEW content \in Contents, NEW t \in Tables, NEW columns \in SUBSET Columns
    PROVE  LET new == Created(content, t, columns) IN
           /\ new \in Contents
           /\ new.tables = content.tables \cup {t}
           /\ new.sized = content.sized /\ new.version = content.version
           /\ new.columns = IF t = Jobs /\ Jobs \notin content.tables THEN columns ELSE content.columns
  BY DEF Created, Contents

\* Who is connected has a file.
TypeInv == TypeOK /\ \A a \in Actors : pc[a] \in Entering \cup Writing => conn[a] # None

LEMMA TypeStep == TypeInv /\ [Next]_vars => TypeInv'
<1> SUFFICES ASSUME TypeInv, [Next]_vars PROVE TypeInv'
  OBVIOUS
<1> USE Setting DEF TypeInv, localVars, boundVars
<1> DEFINE Locals == pc \in [Actors -> PCs] /\ conn \in [Actors -> 1 .. MaxFiles \cup {None}]
           Connected == \A a \in Actors : pc[a] \in Entering \cup Writing => conn[a] # None
<1>0. ASSUME NEW a \in Actors, NEW p \in PCs, pc' = [pc EXCEPT ![a] = p],
             UNCHANGED conn, p \in Entering \cup Writing => conn[a] # None
      PROVE  pc' \in [Actors -> PCs] /\ Connected'
  BY <1>0 DEF TypeOK
<1>1. ASSUME NEW a \in Actors, Raise(a), pc[a] \in Entering \cup Writing PROVE TypeInv'
  <2>1. pc' \in [Actors -> PCs] /\ Connected'
    BY <1>1 DEF Raise, TypeOK, PCs, InitPCs, Entering, Writing
  <2>2. path' \in 1 .. created' \cup {None}
    BY <1>1 DEF Raise, TypeOK
  <2> QED BY <1>1, <2>1, <2>2 DEF Raise, TypeOK
<1>2. ASSUME NEW a \in Actors, OpenPath(a)
      PROVE  /\ path' \in 1 .. created' \cup {None} /\ created' \in 0 .. MaxFiles
             /\ conn' \in [Actors -> 1 .. MaxFiles \cup {None}]
             /\ conn'[a] # None /\ \A b \in Actors : b # a => conn'[b] = conn[b]
  <2>1. CASE path = None
    <3>1. /\ created < MaxFiles /\ created' = created + 1 /\ path' = created + 1
          /\ conn' = [conn EXCEPT ![a] = created + 1] /\ created \in 0 .. MaxFiles
      BY <1>2, <2>1 DEF OpenPath, TypeOK
    <3>2. created + 1 \in 1 .. MaxFiles /\ created + 1 \in 1 .. (created + 1)
      BY <3>1
    <3> QED BY <3>1, <3>2 DEF TypeOK
  <2>2. CASE path # None
    <3>1. conn' = [conn EXCEPT ![a] = path] /\ UNCHANGED <<path, created>> /\ path \in 1 .. MaxFiles
      BY <1>2, <2>2 DEF OpenPath, TypeOK
    <3> QED BY <2>2, <3>1 DEF TypeOK
  <2> QED BY <2>1, <2>2
<1>3. ASSUME NEW a \in Actors, pc[a] \in Entering \cup Writing
      PROVE  conn[a] \in 1 .. MaxFiles /\ File(a) \in Contents
  BY <1>3 DEF TypeOK, File
<1>4. ASSUME NEW s \in Services, StartService(s) PROVE TypeInv'
  <2>1. starts' \in [Services -> 0 .. MaxStarts]
    BY <1>4 DEF StartService, TypeOK
  <2>2. pc' \in [Actors -> PCs] /\ Connected'
    BY <1>4 DEF StartService, Go, TypeOK, PCs, InitPCs, Entering, Writing
  <2> QED BY <1>4, <2>1, <2>2 DEF StartService, TypeOK
<1>5. ASSUME NEW a \in Actors, Look(a) \/ Unlink(a) PROVE TypeInv'
  <2>1. pc' \in [Actors -> PCs] /\ Connected'
    BY <1>5 DEF Look, Unlink, Go, TypeOK, PCs, InitPCs, Entering, Writing
  <2> QED BY <1>5, <2>1 DEF Look, Unlink, TypeOK
<1>6. ASSUME NEW a \in Actors, Open(a) PROVE TypeInv'
  <2>1. pc' \in [Actors -> PCs] /\ \A b \in Actors : b # a => pc'[b] = pc[b]
    BY <1>6 DEF Open, Go, TypeOK, PCs, InitPCs
  <2> QED BY <1>2, <1>6, <2>1 DEF Open, TypeOK
<1>7. ASSUME NEW a \in Actors, EnterWal(a) PROVE TypeInv'
  <2>1. pc[a] = "wal" /\ conn[a] \in 1 .. MaxFiles /\ File(a) \in Contents
    BY <1>3, <1>7 DEF EnterWal, Go, Entering
  <2>2. /\ pc' = [pc EXCEPT ![a] = "tables"] /\ at' = [at EXCEPT ![a] = 1]
        /\ files' = [files EXCEPT ![conn[a]].sized = @ \/ conn[a] = path]
        /\ UNCHANGED <<path, created, conn, seen, boundVars>>
    BY <1>7 DEF EnterWal, Go
  <2>3. files' \in [1 .. MaxFiles -> Contents]
    BY <2>1, <2>2 DEF TypeOK, Contents
  <2>4. pc' \in [Actors -> PCs] /\ Connected' /\ at' \in [Actors -> Nat \ {0}]
    <3>1. "tables" \in PCs /\ conn[a] # None
      BY <2>1 DEF PCs, InitPCs
    <3>2. pc' \in [Actors -> PCs] /\ Connected'
      BY <1>0, <2>2, <3>1
    <3> QED BY <2>2, <3>2 DEF TypeOK
  <2> QED BY <2>2, <2>3, <2>4 DEF TypeOK
<1>8. ASSUME NEW a \in Actors, NEW t \in Tables, NEW columns \in SUBSET Columns,
             pc[a] \in Entering \cup Writing,
             files' = [files EXCEPT ![conn[a]] = Created(@, t, columns)]
      PROVE  files' \in [1 .. MaxFiles -> Contents]
  <2>1. conn[a] \in 1 .. MaxFiles /\ files[conn[a]] \in Contents
    BY <1>3, <1>8 DEF File
  <2>2. Created(files[conn[a]], t, columns) \in Contents
    BY <2>1, CreatedIs
  <2> QED BY <1>8, <2>1, <2>2, FileChange
<1>9. ASSUME NEW a \in Actors, CreateTable(a) PROVE TypeInv'
  <2>1. at[a] \in 1 .. Len(Builtin) /\ pc[a] \in Writing
    <3>1. pc[a] = "tables" /\ at[a] <= Len(Builtin)
      BY <1>9 DEF CreateTable
    <3>2. at[a] \in Nat \ {0}
      BY DEF TypeOK
    <3>3. pc[a] \in Writing
      BY <3>1 DEF Writing
    <3>4. Len(Builtin) \in Nat
      BY BuiltinIs
    <3> QED BY <3>1, <3>2, <3>3, <3>4
  <2>2. CASE Raise(a)
    BY <1>1, <2>1, <2>2
  <2>3. CASE ~Raise(a)
    <3>1. /\ files' = [files EXCEPT ![conn[a]] = Created(@, Builtin[at[a]], Columns)]
          /\ at' = [at EXCEPT ![a] = @ + 1]
          /\ UNCHANGED <<path, created, pc, conn, seen, boundVars>>
      BY <1>9, <2>3 DEF CreateTable
    <3>2. files' \in [1 .. MaxFiles -> Contents]
      BY <1>8, <2>1, <3>1, BuiltinIs
    <3>3. at' \in [Actors -> Nat \ {0}]
      BY <2>1, <3>1 DEF TypeOK
    <3> QED BY <3>1, <3>2, <3>3 DEF TypeOK
  <2> QED BY <2>2, <2>3
<1>10. ASSUME NEW a \in Actors, ReadColumns(a) PROVE TypeInv'
  <2>1. PICK p \in {"alter", "add"} : pc' = [pc EXCEPT ![a] = p]
    BY <1>10 DEF ReadColumns, Go
  <2>2. pc[a] \in Writing /\ p \in PCs
    BY <1>10, <2>1 DEF ReadColumns, Go, Writing, PCs, InitPCs
  <2>3. File(a).columns \subseteq Columns /\ conn[a] # None
    BY <1>3, <2>2 DEF Contents
  <2>4. seen' \in [Actors -> SUBSET Columns]
    BY <1>10, <2>3 DEF ReadColumns, TypeOK
  <2>5. pc' \in [Actors -> PCs] /\ Connected'
    BY <1>0, <1>10, <2>1, <2>2, <2>3 DEF ReadColumns
  <2> QED BY <1>10, <2>4, <2>5 DEF ReadColumns, TypeOK
<1>11. ASSUME NEW a \in Actors, AddColumn(a) PROVE TypeInv'
  <2>1. pc[a] \in Writing
    BY <1>11 DEF AddColumn, Writing
  <2>2. CASE Raise(a)
    BY <1>1, <2>1, <2>2
  <2>3. CASE ~Raise(a)
    <3>1. PICK c \in Columns \ seen[a] :
            /\ files' = [files EXCEPT ![conn[a]].columns = @ \cup {c}]
            /\ seen' = [seen EXCEPT ![a] = @ \cup {c}]
            /\ UNCHANGED <<path, created, pc, conn, at, boundVars>>
      BY <1>11, <2>3 DEF AddColumn
    <3>2. files' \in [1 .. MaxFiles -> Contents]
      BY <1>3, <2>1, <3>1 DEF TypeOK, Contents, File
    <3>3. seen' \in [Actors -> SUBSET Columns]
      BY <3>1 DEF TypeOK
    <3> QED BY <3>1, <3>2, <3>3 DEF TypeOK
  <2> QED BY <2>2, <2>3
<1>12. ASSUME NEW a \in Actors, Ready(a) PROVE TypeInv'
  <2>1. "up" \in PCs /\ "up" \notin Entering \cup Writing
    BY DEF PCs, Entering, Writing
  <2> QED BY <1>0, <1>12, <2>1 DEF Ready, Go, TypeOK
<1>13. ASSUME NEW a \in Actors, Ends(a) \/ Dies(a) \/ StatementFails(a) PROVE TypeInv'
  <2>1. PICK p \in {"idle", "failed"} : pc' = [pc EXCEPT ![a] = p]
    BY <1>13 DEF Ends, Dies, StatementFails, Go
  <2>2. p \in PCs /\ p \notin Entering \cup Writing
    BY DEF PCs, Entering, Writing
  <2>3. conn' \in [Actors -> 1 .. MaxFiles \cup {None}] /\ failed' \in 0 .. MaxFailures
    BY <1>13 DEF Ends, Dies, StatementFails, TypeOK
  <2>4. \A b \in Actors : b # a => conn'[b] = conn[b]
    BY <1>13 DEF Ends, Dies, StatementFails, TypeOK
  <2> QED BY <1>13, <2>1, <2>2, <2>3, <2>4 DEF Ends, Dies, StatementFails, TypeOK
<1>14. CASE StartMigration \/ Check
  <2>1. PICK p \in {"check", "stamp", "upgrade"} : pc' = [pc EXCEPT ![Migrator] = p]
    BY <1>14 DEF StartMigration, Check, Go
  <2>2. p \in PCs /\ p \notin Entering \cup Writing
    BY DEF PCs, Entering, Writing
  <2> QED BY <1>0, <1>14, <2>1, <2>2 DEF StartMigration, Check, TypeOK
<1>15. CASE OpenAlembic
  <2>1. PICK p \in {"stamp table", "upgrade table"} : pc' = [pc EXCEPT ![Migrator] = p]
    BY <1>15 DEF OpenAlembic, Go
  <2>2. p \in PCs
    BY DEF PCs
  <2> QED BY <1>2, <1>15, <2>1, <2>2 DEF OpenAlembic, TypeOK
<1>16. CASE VersionTable
  <2>1. pc[Migrator] \in Entering
    BY <1>16 DEF VersionTable, Entering
  <2>2. CASE Raise(Migrator)
    BY <1>1, <2>1, <2>2
  <2>3. CASE ~Raise(Migrator)
    <3>1. /\ conn[Migrator] = path
          /\ files' = [files EXCEPT ![path].sized = TRUE,
                                    ![path].version = IF @ = "none" THEN "empty" ELSE @]
          /\ pc' = [pc EXCEPT ![Migrator] = IF @ = "stamp table" THEN "stamp head"
                                            ELSE After(files[path].version)]
          /\ at' = [at EXCEPT ![Migrator] = 1]
          /\ UNCHANGED <<path, created, conn, seen, boundVars>>
      BY <1>16, <2>3 DEF VersionTable
    <3>2. files[path].version \in Versions /\ path \in 1 .. MaxFiles /\ conn[Migrator] # None
      BY <1>3, <2>1, <3>1 DEF File, Contents
    <3>3. files' \in [1 .. MaxFiles -> Contents]
      BY <3>1, <3>2 DEF TypeOK, Contents, Versions
    <3>4. After(files[path].version) \in PCs /\ "stamp head" \in PCs
      BY <3>2 DEF After, Versions, PCs, InitPCs
    <3>5. pc' \in [Actors -> PCs] /\ Connected'
      BY <1>0, <3>1, <3>2, <3>4
    <3>6. at' \in [Actors -> Nat \ {0}]
      <4>1. at' = [at EXCEPT ![Migrator] = 1]
        BY <3>1
      <4> QED BY <4>1 DEF TypeOK
    <3>7. UNCHANGED <<path, created, conn, seen, starts, failed>>
      BY <3>1
    <3> QED BY <3>1, <3>3, <3>5, <3>6, <3>7 DEF TypeOK
  <2> QED BY <2>2, <2>3
<1>17. ASSUME NEW version \in Versions, NEW p \in PCs, SetVersion(version, p),
              pc[Migrator] \in Writing
       PROVE  TypeInv'
  <2>1. conn[Migrator] \in 1 .. MaxFiles
    BY <1>3, <1>17
  <2>2. files' \in [1 .. MaxFiles -> Contents]
    BY <1>17, <2>1 DEF SetVersion, TypeOK, Contents
  <2>3. pc' \in [Actors -> PCs] /\ Connected'
    BY <1>0, <1>17, <2>1 DEF SetVersion
  <2> QED BY <1>17, <2>2, <2>3 DEF SetVersion, TypeOK
<1>18. CASE StampHead \/ BaseDone \/ AuthDone \/ ColumnsDone
  <2>1. /\ pc[Migrator] \in Writing /\ {"upgrade", "050", "060", "look"} \subseteq PCs
        /\ {"040", "050", "060"} \subseteq Versions
    BY <1>18 DEF StampHead, BaseDone, AuthDone, ColumnsDone, Writing, PCs, InitPCs, Versions
  <2> QED BY <1>17, <1>18, <2>1 DEF StampHead, BaseDone, AuthDone, ColumnsDone
<1>19. CASE BaseTable \/ AuthTable
  <2>1. pc[Migrator] \in Writing
    BY <1>19 DEF BaseTable, AuthTable, Writing
  <2>2. CASE Raise(Migrator)
    BY <1>1, <2>1, <2>2
  <2>3. CASE ~Raise(Migrator)
    <3>1. PICK t \in Tables : files' = [files EXCEPT ![conn[Migrator]] = Created(@, t, {})]
      <4>1. at[Migrator] \in Nat \ {0} /\ DOMAIN Base = 1 .. Len(Base) /\ DOMAIN Auth = 1 .. Len(Auth)
        BY SchemaAssumption DEF TypeOK
      <4> QED BY <1>19, <2>3, <4>1 DEF BaseTable, AuthTable
    <3>2. files' \in [1 .. MaxFiles -> Contents]
      <4>1. {} \in SUBSET Columns
        OBVIOUS
      <4> QED BY <1>8, <2>1, <3>1, <4>1
    <3>3. /\ at' = [at EXCEPT ![Migrator] = @ + 1]
          /\ UNCHANGED <<path, created, pc, conn, seen, boundVars>>
      BY <1>19, <2>3 DEF BaseTable, AuthTable
    <3> QED BY <3>2, <3>3 DEF TypeOK
  <2> QED BY <2>2, <2>3
<1>20. CASE UNCHANGED vars
  BY <1>20 DEF vars, TypeOK
<1> QED
  BY <1>4, <1>5, <1>6, <1>7, <1>9, <1>10, <1>11, <1>12, <1>13, <1>14, <1>15, <1>16, <1>18, <1>19,
     <1>20
  DEF Next

LEMMA TypesHold == Spec => []TypeInv
<1>1. Init => TypeInv
  <2> SUFFICES ASSUME Init PROVE TypeInv
    OBVIOUS
  <2>1. PICK content \in Before :
          IF content = None
          THEN path = None /\ created = 0 /\ files = [f \in 1 .. MaxFiles |-> NewFile]
          ELSE path = 1 /\ created = 1
               /\ files = [f \in 1 .. MaxFiles |-> IF f = 1 THEN content ELSE NewFile]
    BY DEF Init
  <2>2. files \in [1 .. MaxFiles -> Contents]
    BY <2>1, Setting, SchemaAssumption
  <2>3. path \in 1 .. created \cup {None} /\ created \in 0 .. MaxFiles
    BY <2>1, Setting
  <2>4. pc \in [Actors -> PCs] /\ \A a \in Actors : pc[a] \notin Entering \cup Writing
    BY DEF Init, PCs, InitPCs, Entering, Writing
  <2>5. /\ conn \in [Actors -> 1 .. MaxFiles \cup {None}]
        /\ at \in [Actors -> Nat \ {0}] /\ seen \in [Actors -> SUBSET Columns]
        /\ starts \in [Services -> 0 .. MaxStarts] /\ failed \in 0 .. MaxFailures
    BY Setting DEF Init
  <2> QED BY <2>2, <2>3, <2>4, <2>5 DEF TypeInv, TypeOK
<1> QED BY <1>1, TypeStep, PTL DEF Spec

\* Every variable keeps its type: no file beyond the last is created, and no table or column
\* that nobody declares.
THEOREM TypeCorrect == Spec => []TypeOK
<1>1. TypeInv => TypeOK
  BY DEF TypeInv
<1> QED BY <1>1, TypesHold, PTL

-----------------------------------------------------------------------------
(* Steps *)

\* Everything is done by one actor.  A file only grows - but for the columns of a table
\* that is not there, and the version, which are the migration's -, and the path is
\* changed only by who is at work where there is no table.
Mine(b) ==
    \A a \in Actors : a # b =>
        pc'[a] = pc[a] /\ conn'[a] = conn[a] /\ at'[a] = at[a] /\ seen'[a] = seen[a]
Grows(b) ==
    \A f \in 1 .. MaxFiles :
        /\ files[f].sized => files'[f].sized
        /\ files[f].tables \subseteq files'[f].tables
        /\ files[f].columns \subseteq files'[f].columns \/ (b = Migrator /\ Jobs \notin files[f].tables)
        /\ files'[f].version = files[f].version \/ b = Migrator
Acts(b) ==
    /\ Mine(b) /\ Grows(b)
    /\ path' = path \/ (Fresh /\ Busy(b))
    /\ files' = files \/ Busy(b)
    /\ Busy(b)' => Busy(b) \/ ~Fresh \/ \A a \in Actors : ~Busy(a)

\* What of the types the steps need.
LEMMA Types ==
    TypeInv => /\ created \in Nat /\ created <= MaxFiles
               /\ path # None => path \in 1 .. created /\ path \in 1 .. MaxFiles
               /\ DOMAIN pc = Actors /\ DOMAIN conn = Actors
               /\ at \in [Actors -> Nat \ {0}] /\ seen \in [Actors -> SUBSET Columns]
               /\ files \in [1 .. MaxFiles -> Contents]
  BY Setting DEF TypeInv, TypeOK

\* A file without a page has no table.
LEMMA FreshIs ==
    TypeInv /\ FilesOK /\ (path = None \/ ~files[path].sized) => Fresh
  BY Setting DEF TypeInv, TypeOK, FilesOK, Fresh

\* Such a step leaves the others what they rely on.
LEMMA OthersStay ==
    ASSUME TypeInv, TypeInv', SchemaInv, NEW b \in Actors, Acts(b)
    PROVE  Alone' /\ Serial' /\ \A a \in Actors : a # b => ActorOK(a)'
<1> USE Setting
<1>1. Fresh' => Fresh
  <2>1. CASE path' = path /\ path # None
    <3>1. path \in 1 .. MaxFiles
      BY <2>1 DEF TypeInv, TypeOK
    <3>2. files[path].tables \subseteq files'[path].tables
      BY <3>1 DEF Acts, Grows
    <3> QED BY <2>1, <3>2 DEF Fresh
  <2> QED BY <2>1 DEF Acts, Fresh
<1>2. Alone'
  <2> SUFFICES ASSUME Fresh', NEW a \in Actors, NEW c \in Actors, Busy(a)', Busy(c)'
               PROVE  a = c
    BY DEF Alone
  <2>1. \A x, y \in Actors : Busy(x) /\ Busy(y) => x = y
    BY <1>1 DEF SchemaInv, Alone
  <2>2. \A x \in Actors : x # b => (Busy(x)' <=> Busy(x))
    BY DEF Acts, Mine, Busy
  <2> QED BY <1>1, <2>1, <2>2 DEF Acts
<1>3. ASSUME NEW a \in Actors, a # b PROVE ActorOK(a)'
  <2>1. pc'[a] = pc[a] /\ conn'[a] = conn[a] /\ at'[a] = at[a] /\ seen'[a] = seen[a]
    BY <1>3 DEF Acts, Mine
  <2>2. ActorOK(a)
    BY DEF SchemaInv
  <2>3. CASE ~Busy(a) /\ pc[a] # "up"
    BY <2>1, <2>2, <2>3
    DEF Busy, ActorOK, ConnOK, DoneOK, RoleOK, UpOK, Entering, Writing, InitPCs
  <2>4. CASE path' # path
    <3>1. Fresh /\ ~Busy(a)
      BY <1>3, <2>4 DEF Acts, SchemaInv, Alone
    <3>2. pc[a] # "up"
      BY <2>2, <3>1 DEF ActorOK, UpOK, Complete, Fresh
    <3> QED BY <2>3, <3>1, <3>2
  <2>5. CASE path' = path /\ (Busy(a) \/ pc[a] = "up")
    <3>1. CASE path = None
      BY <2>1, <2>2, <2>5, <3>1 DEF ActorOK, ConnOK, DoneOK, RoleOK, UpOK, Entering, Writing
    <3>2. CASE path # None
      <4> DEFINE old == files[path]
                 new == files'[path]
      <4>1. /\ path \in 1 .. MaxFiles
            /\ old.sized => new.sized
            /\ old.tables \subseteq new.tables
            /\ old.columns \subseteq new.columns \/ (b = Migrator /\ Jobs \notin old.tables)
            /\ new.version = old.version \/ b = Migrator
        BY <3>2 DEF Acts, Grows, TypeInv, TypeOK
      <4>2. new.tables \subseteq Tables /\ new.columns \subseteq Columns
        BY <2>5, <4>1 DEF TypeInv, TypeOK, Contents
      <4>3. pc[a] = "unlink" => new = old
        <5> SUFFICES ASSUME pc[a] = "unlink" PROVE files' = files
          OBVIOUS
        <5>1. Fresh /\ Busy(a)
          BY <2>2, FreshIs DEF ActorOK, ConnOK, Busy, SchemaInv
        <5> QED BY <1>3, <5>1 DEF Acts, SchemaInv, Alone
      <4> HIDE DEF old, new
      <4>4. ConnOK(a)'
        BY <2>1, <2>2, <2>5, <4>1, <4>3 DEF ActorOK, ConnOK, old, new
      <4>5. DoneOK(a)'
        <5>1. pc[a] \in {"alter", "add"} => old.columns \subseteq new.columns
          BY <1>3, <2>2, <4>1 DEF ActorOK, DoneOK, RoleOK, InitPCs, old
        <5> QED BY <2>1, <2>2, <2>5, <4>1, <5>1 DEF ActorOK, DoneOK, old, new
      <4>6. RoleOK(a)'
        BY <1>3, <2>1, <2>2, <2>5, <4>1 DEF ActorOK, RoleOK, old, new
      <4>7. UpOK(a)'
        <5>1. pc[a] = "up" => new.tables = Tables /\ new.columns = Columns
          BY <2>2, <4>1, <4>2 DEF ActorOK, UpOK, Complete, old
        <5> QED BY <1>3, <2>1, <2>2, <2>5, <4>1, <5>1 DEF ActorOK, UpOK, Complete, old, new
      <4> QED BY <4>4, <4>5, <4>6, <4>7 DEF ActorOK
    <3> QED BY <3>1, <3>2
  <2> QED BY <2>3, <2>4, <2>5
<1>4. Serial'
  BY <1>1 DEF SchemaInv, Serial
<1> QED BY <1>2, <1>3, <1>4

\* What has to be shown of a step.
Keeps(b) == Acts(b) /\ FilesOK' /\ ActorOK(b)'

\* A step that writes nothing.
LEMMA NoWrite ==
    ASSUME TypeInv, TypeInv', FilesOK, UNCHANGED files, created' >= created
    PROVE  FilesOK' /\ \A b \in Actors : Grows(b)
  BY DEF FilesOK, Grows, TypeInv, TypeOK

\* One that writes to the file at the path.
LEMMA OneWrite ==
    ASSUME TypeInv, FilesOK, path # None, NEW content \in Contents, content.sized,
           files' = [files EXCEPT ![path] = content], UNCHANGED created,
           files[path].tables \subseteq content.tables, NEW b \in Actors,
           files[path].columns \subseteq content.columns \/ (b = Migrator /\ Jobs \notin files[path].tables),
           content.version = files[path].version \/ b = Migrator
    PROVE  FilesOK' /\ Grows(b) /\ files'[path] = content
<1>1. path \in 1 .. created /\ created \in 0 .. MaxFiles /\ path \in 1 .. MaxFiles
  BY Setting DEF TypeInv, TypeOK
<1>2. files'[path] = content /\ \A g \in 1 .. MaxFiles : g # path => files'[g] = files[g]
  BY <1>1 DEF TypeInv, TypeOK
<1>3. FilesOK'
  BY <1>1, <1>2 DEF FilesOK
<1>4. Grows(b)
  BY <1>1, <1>2 DEF Grows
<1> QED BY <1>2, <1>3, <1>4

\* Who starts does so when nobody else is at work, or on a database.
LEMMA StartKeeps ==
    ASSUME TypeInv, TypeInv', SchemaInv, NEW a \in Actors,
           (a \in Services /\ StartService(a)) \/ (a = Migrator /\ StartMigration)
    PROVE  Keeps(a)
<1> USE Setting DEF localVars, boundVars
<1>1. /\ UNCHANGED <<path, files, created, conn, at, seen>>
      /\ Fresh => \A c \in Actors : ~Busy(c)
      /\ pc' = [pc EXCEPT ![a] = IF a = Migrator THEN "check" ELSE "look"]
  BY DEF StartService, StartMigration, Go, Busy, SchemaInv, Serial
<1>2. /\ pc'[a] = IF a = Migrator THEN "check" ELSE "look"
      /\ \A c \in Actors : c # a => pc'[c] = pc[c]
  BY <1>1 DEF TypeInv, TypeOK
<1>3. FilesOK' /\ Grows(a)
  BY <1>1, NoWrite DEF SchemaInv, TypeInv, TypeOK
<1>4. Acts(a)
  BY <1>1, <1>2, <1>3 DEF Acts, Mine
<1>5. ActorOK(a)'
  BY <1>2 DEF ActorOK, ConnOK, DoneOK, RoleOK, UpOK, Entering, Writing, InitPCs
<1> QED BY <1>3, <1>4, <1>5 DEF Keeps

\* Who removes an empty file has looked at it before, and nobody has come between.
LEMMA LookKeeps ==
    ASSUME TypeInv, TypeInv', SchemaInv, NEW a \in Actors, Look(a) \/ Unlink(a)
    PROVE  Keeps(a)
<1> USE Setting DEF localVars, boundVars
<1>1. /\ UNCHANGED <<files, created, conn, at, seen>>
      /\ \A c \in Actors : c # a => pc'[c] = pc[c]
      /\ \/ /\ pc[a] = "look" /\ UNCHANGED path
            /\ pc'[a] = IF path # None /\ ~files[path].sized THEN "unlink" ELSE "open"
         \/ pc[a] = "unlink" /\ pc'[a] = "open" /\ path' = None
  BY DEF Look, Unlink, Go, TypeInv, TypeOK
<1>2. FilesOK' /\ Grows(a)
  BY <1>1, NoWrite DEF SchemaInv, TypeInv, TypeOK
<1>3. ActorOK(a) /\ Busy(a)
  BY <1>1 DEF SchemaInv, Busy
<1>4. pc[a] = "unlink" => Fresh /\ a # Migrator
  BY <1>3, FreshIs DEF SchemaInv, ActorOK, ConnOK, RoleOK, InitPCs
<1>5. Acts(a)
  BY <1>1, <1>2, <1>3, <1>4 DEF Acts, Mine
<1>6. ActorOK(a)'
  BY <1>1, <1>3, <1>4 DEF ActorOK, ConnOK, DoneOK, RoleOK, UpOK, Entering, Writing, InitPCs
<1> QED BY <1>2, <1>5, <1>6 DEF Keeps

\* Who creates the file is alone.
LEMMA OpenKeeps ==
    ASSUME TypeInv, TypeInv', SchemaInv, NEW a \in Actors,
           Open(a) \/ (a = Migrator /\ OpenAlembic)
    PROVE  Keeps(a)
<1> USE Setting DEF localVars, boundVars
<1>1. /\ UNCHANGED <<files, at, seen>> /\ OpenPath(a)
      /\ \A c \in Actors : c # a => pc'[c] = pc[c]
      /\ \/ pc[a] = "open" /\ pc'[a] = "wal"
         \/ a = Migrator /\ pc[a] \in {"stamp", "upgrade"} /\ pc'[a] \in {"stamp table", "upgrade table"}
  BY DEF Open, OpenAlembic, Go, TypeInv, TypeOK
<1>2. /\ path' # None /\ conn'[a] = path' /\ (path' = path \/ path = None)
      /\ created' >= created /\ \A c \in Actors : c # a => conn'[c] = conn[c]
  <2>1. CASE path = None
    <3>1. /\ created' = created + 1 /\ path' = created + 1
          /\ conn' = [conn EXCEPT ![a] = created + 1]
      BY <1>1, <2>1 DEF OpenPath
    <3>2. created + 1 # None /\ created + 1 >= created
      BY Types
    <3> QED BY <2>1, <3>1, <3>2, Types
  <2>2. CASE path # None
    <3>1. conn' = [conn EXCEPT ![a] = path] /\ UNCHANGED <<path, created>>
      BY <1>1, <2>2 DEF OpenPath
    <3> QED BY <2>2, <3>1, Types
  <2> QED BY <2>1, <2>2
<1>3. FilesOK' /\ Grows(a)
  BY <1>1, <1>2, NoWrite DEF SchemaInv
<1>4. ActorOK(a) /\ Busy(a)
  BY <1>1 DEF SchemaInv, Busy
<1>5. Acts(a)
  BY <1>1, <1>2, <1>3, <1>4 DEF Acts, Mine, Fresh
<1>6. ActorOK(a)'
  <2>1. /\ pc'[a] \in Entering /\ pc'[a] \notin Writing \cup {"unlink", "up"}
        /\ pc'[a] \in InitPCs <=> pc[a] \in InitPCs
    BY <1>1 DEF Entering, Writing, InitPCs
  <2>2. ConnOK(a)'
    BY <1>2, <2>1 DEF ConnOK, Entering, Writing
  <2>3. DoneOK(a)' /\ UpOK(a)'
    <3>1. pc'[a] \notin {"tables", "alter", "add", "up"}
      BY <2>1 DEF Writing
    <3> QED BY <3>1 DEF DoneOK, UpOK
  <2>4. RoleOK(a)'
    BY <1>1, <1>2, <1>4, <2>1 DEF ActorOK, RoleOK, InitPCs
  <2> QED BY <2>2, <2>3, <2>4 DEF ActorOK
<1> QED BY <1>3, <1>5, <1>6 DEF Keeps

\* The file is not removed under who enters it.
LEMMA WalKeeps ==
    ASSUME TypeInv, TypeInv', SchemaInv, NEW a \in Actors, EnterWal(a)
    PROVE  Keeps(a)
<1> USE Setting DEF localVars, boundVars
<1>1. pc[a] = "wal" /\ path # None /\ conn[a] = path /\ ActorOK(a) /\ Busy(a)
  BY DEF EnterWal, Go, SchemaInv, ActorOK, ConnOK, Entering, Busy
<1>2. /\ pc' = [pc EXCEPT ![a] = "tables"] /\ at' = [at EXCEPT ![a] = 1]
      /\ files' = [files EXCEPT ![path].sized = TRUE]
      /\ UNCHANGED <<path, created, conn, seen>>
  <2>1. files' = [files EXCEPT ![path].sized = @ \/ conn[a] = path]
    BY <1>1 DEF EnterWal
  <2>2. \A old \in BOOLEAN : (old \/ conn[a] = path) = TRUE
    BY <1>1
  <2>3. files' = [files EXCEPT ![path].sized = TRUE]
    <3>1. path \in 1 .. MaxFiles /\ files[path] \in Contents
      BY <1>1, Types
    <3>2. (files[path].sized \/ conn[a] = path) = TRUE
      BY <2>2, <3>1 DEF Contents
    <3> QED BY <2>1, <3>1, <3>2
  <2> QED BY <2>3 DEF EnterWal, Go
<1> DEFINE content == [files[path] EXCEPT !.sized = TRUE]
<1>3. /\ content \in Contents /\ content.sized
      /\ content.tables = files[path].tables /\ content.columns = files[path].columns
      /\ content.version = files[path].version
      /\ files' = [files EXCEPT ![path] = content]
  BY <1>1, <1>2, Types DEF Contents
<1> HIDE DEF content
<1>4. FilesOK' /\ Grows(a) /\ files'[path] = content
  BY <1>1, <1>2, <1>3, OneWrite DEF SchemaInv
<1>5. /\ pc'[a] = "tables" /\ at'[a] = 1
      /\ \A c \in Actors : c # a => pc'[c] = pc[c] /\ at'[c] = at[c]
  BY <1>2, Types
<1>6. Acts(a)
  BY <1>1, <1>2, <1>4, <1>5 DEF Acts, Mine
<1>7. ActorOK(a)'
  <2>1. ConnOK(a)' /\ UpOK(a)'
    BY <1>1, <1>2, <1>3, <1>4, <1>5 DEF ConnOK, UpOK
  <2>2. DoneOK(a)'
    BY <1>5 DEF DoneOK
  <2>3. RoleOK(a)'
    BY <1>1, <1>2, <1>3, <1>4, <1>5 DEF ActorOK, RoleOK, InitPCs
  <2> QED BY <2>1, <2>2, <2>3 DEF ActorOK
<1> QED BY <1>4, <1>6, <1>7 DEF Keeps

\* The built-in DDL creates the table that is next.
LEMMA TableKeeps ==
    ASSUME TypeInv, TypeInv', SchemaInv, NEW a \in Actors, CreateTable(a)
    PROVE  Keeps(a)
<1> USE Setting DEF localVars, boundVars
<1>1. pc[a] = "tables" /\ path # None /\ conn[a] = path /\ ActorOK(a) /\ Busy(a) /\ files[path].sized
  BY DEF CreateTable, SchemaInv, ActorOK, ConnOK, Writing, Busy
<1> DEFINE table == Builtin[at[a]]
           content == Created(files[path], table, Columns)
<1>2. /\ files' = [files EXCEPT ![path] = content]
      /\ at' = [at EXCEPT ![a] = @ + 1] /\ at[a] <= Len(Builtin)
      /\ UNCHANGED <<path, created, pc, conn, seen>>
  BY <1>1 DEF CreateTable
<1>3. at[a] \in 1 .. Len(Builtin) /\ table \in Tables /\ at'[a] = at[a] + 1
      /\ \A c \in Actors : c # a => at'[c] = at[c]
  BY <1>2, Types, BuiltinIs
<1>4. files[path] \in Contents /\ files[path].columns \subseteq Columns
  BY <1>1, Types DEF Contents
<1>5. /\ content \in Contents /\ content.sized
      /\ content.tables = files[path].tables \cup {table}
      /\ files[path].columns \subseteq content.columns
      /\ content.version = files[path].version
  <2>1. Columns \in SUBSET Columns
    OBVIOUS
  <2> HIDE DEF table
  <2> QED BY <1>1, <1>3, <1>4, <2>1, CreatedIs
<1> HIDE DEF content
<1>6. FilesOK' /\ Grows(a) /\ files'[path] = content
  BY <1>1, <1>2, <1>5, OneWrite DEF SchemaInv
<1>7. Acts(a)
  BY <1>1, <1>2, <1>3, <1>6 DEF Acts, Mine
<1>8. ActorOK(a)'
  <2>1. ConnOK(a)' /\ UpOK(a)'
    BY <1>1, <1>2, <1>5, <1>6 DEF ConnOK, UpOK
  <2>2. DoneOK(a)'
    <3>1. \A i \in 1 .. Len(Builtin) : i < at[a] + 1 => Builtin[i] \in content.tables
      <4>1. \A i \in 1 .. Len(Builtin) : i < at[a] + 1 => i < at[a] \/ i = at[a]
        BY <1>3, BuiltinIs
      <4> QED BY <1>1, <1>5, <4>1 DEF ActorOK, DoneOK
    <3> QED BY <1>1, <1>2, <1>3, <1>6, <3>1 DEF DoneOK, Builtin
  <2>3. RoleOK(a)'
    BY <1>1, <1>2, <1>5, <1>6 DEF ActorOK, RoleOK, InitPCs
  <2> QED BY <2>1, <2>2, <2>3 DEF ActorOK
<1> QED BY <1>6, <1>7, <1>8 DEF Keeps

\* The columns are looked up when every table is there.
LEMMA ReadKeeps ==
    ASSUME TypeInv, TypeInv', SchemaInv, NEW a \in Actors, ReadColumns(a)
    PROVE  Keeps(a)
<1> USE Setting DEF localVars, boundVars
<1>1. /\ UNCHANGED <<path, files, created, conn, at>>
      /\ \A c \in Actors : c # a => pc'[c] = pc[c] /\ seen'[c] = seen[c]
      /\ seen'[a] = files[conn[a]].columns
      /\ \/ pc[a] = "tables" /\ pc'[a] = "alter" /\ at[a] > Len(Builtin)
         \/ pc[a] = "060" /\ pc'[a] = "add"
  BY Types DEF ReadColumns, Go, File
<1>2. ActorOK(a) /\ Busy(a) /\ path # None /\ conn[a] = path /\ files[path].sized
  BY <1>1 DEF SchemaInv, Busy, ActorOK, ConnOK, Writing
<1>3. FilesOK' /\ Grows(a)
  BY <1>1, NoWrite DEF SchemaInv, TypeInv, TypeOK
<1>4. Acts(a)
  BY <1>1, <1>2, <1>3 DEF Acts, Mine
<1>5. ActorOK(a)'
  <2>1. ConnOK(a)' /\ UpOK(a)'
    BY <1>1, <1>2 DEF ConnOK, UpOK
  <2>2. DoneOK(a)'
    <3>1. pc[a] = "tables" => Tables \subseteq files[path].tables
      <4> SUFFICES ASSUME pc[a] = "tables", NEW t \in Tables PROVE t \in files[path].tables
        OBVIOUS
      <4>1. PICK i \in 1 .. Len(Builtin) : Builtin[i] = t
        BY BuiltinIs
      <4>2. i < at[a]
        BY <1>1, Types, BuiltinIs
      <4> QED BY <1>2, <4>1, <4>2 DEF ActorOK, DoneOK
    <3> QED BY <1>1, <1>2, <3>1 DEF DoneOK, Tables
  <2>3. RoleOK(a)'
    BY <1>1, <1>2 DEF ActorOK, RoleOK, InitPCs
  <2> QED BY <2>1, <2>2, <2>3 DEF ActorOK
<1> QED BY <1>3, <1>4, <1>5 DEF Keeps

\* A statement that is refused ends the attempt: the file is not an empty one.
LEMMA RaiseKeeps ==
    ASSUME TypeInv, TypeInv', SchemaInv, NEW a \in Actors, Raise(a), pc[a] \in Writing
    PROVE  Keeps(a)
<1> USE Setting DEF localVars, boundVars
<1>1. ActorOK(a) /\ Busy(a) /\ path # None /\ files[path].sized
  BY DEF SchemaInv, ActorOK, ConnOK, Writing, Busy
<1>2. /\ UNCHANGED <<path, files, created, conn, at, seen>>
      /\ pc'[a] = "failed" /\ \A c \in Actors : c # a => pc'[c] = pc[c]
  BY <1>1, Types DEF Raise
<1>3. FilesOK' /\ Grows(a)
  BY <1>2, NoWrite DEF SchemaInv, TypeInv, TypeOK
<1>4. Acts(a)
  BY <1>1, <1>2, <1>3 DEF Acts, Mine
<1>5. ActorOK(a)'
  BY <1>2 DEF ActorOK, ConnOK, DoneOK, RoleOK, UpOK, Entering, Writing, InitPCs
<1> QED BY <1>3, <1>4, <1>5 DEF Keeps

\* A column is added that was not there.
LEMMA AddKeeps ==
    ASSUME TypeInv, TypeInv', SchemaInv, NEW a \in Actors, AddColumn(a)
    PROVE  Keeps(a)
<1> USE Setting DEF localVars, boundVars
<1>1. pc[a] \in {"alter", "add"} /\ pc[a] \in Writing
  BY DEF AddColumn, Writing
<1>2. ActorOK(a) /\ Busy(a) /\ path # None /\ conn[a] = path /\ files[path].sized
  BY <1>1 DEF SchemaInv, ActorOK, ConnOK, Busy
<1>3. CASE Raise(a)
  BY <1>1, <1>3, RaiseKeeps
<1>4. CASE ~Raise(a)
  <2>1. PICK c \in Columns :
          /\ files' = [files EXCEPT ![path].columns = @ \cup {c}]
          /\ seen' = [seen EXCEPT ![a] = @ \cup {c}]
          /\ UNCHANGED <<path, created, pc, conn, at>>
    BY <1>2, <1>4 DEF AddColumn
  <2> DEFINE content == [files[path] EXCEPT !.columns = @ \cup {c}]
  <2>2. /\ content \in Contents /\ content.sized
        /\ content.tables = files[path].tables /\ content.version = files[path].version
        /\ content.columns = files[path].columns \cup {c}
        /\ files' = [files EXCEPT ![path] = content]
    BY <1>2, <2>1, Types DEF Contents
  <2> HIDE DEF content
  <2>3. FilesOK' /\ Grows(a) /\ files'[path] = content
    BY <1>2, <2>1, <2>2, OneWrite DEF SchemaInv
  <2>4. seen'[a] = seen[a] \cup {c} /\ \A b \in Actors : b # a => seen'[b] = seen[b]
    BY <2>1, Types
  <2>5. Acts(a)
    BY <1>2, <2>1, <2>3, <2>4 DEF Acts, Mine
  <2>6. ActorOK(a)'
    <3>1. ConnOK(a)' /\ UpOK(a)'
      BY <1>1, <1>2, <2>1, <2>2, <2>3 DEF ConnOK, UpOK
    <3>2. DoneOK(a)'
      BY <1>1, <1>2, <2>1, <2>2, <2>3, <2>4 DEF ActorOK, DoneOK, Tables
    <3>3. RoleOK(a)'
      BY <1>2, <2>1, <2>2, <2>3 DEF ActorOK, RoleOK, InitPCs
    <3> QED BY <3>1, <3>2, <3>3 DEF ActorOK
  <2> QED BY <2>3, <2>5, <2>6 DEF Keeps
<1> QED BY <1>3, <1>4

\* Who is ready has seen every column, and created every table.
LEMMA ReadyKeeps ==
    ASSUME TypeInv, TypeInv', SchemaInv, NEW a \in Actors, Ready(a)
    PROVE  Keeps(a)
<1> USE Setting DEF localVars, boundVars
<1>1. /\ UNCHANGED <<path, files, created, conn, at, seen>>
      /\ pc[a] = "alter" /\ seen[a] = Columns
      /\ pc'[a] = "up" /\ \A c \in Actors : c # a => pc'[c] = pc[c]
  BY Types DEF Ready, Go
<1>2. ActorOK(a) /\ Busy(a) /\ path # None
  BY <1>1 DEF SchemaInv, ActorOK, ConnOK, Writing, Busy
<1>3. FilesOK' /\ Grows(a)
  BY <1>1, NoWrite DEF SchemaInv, TypeInv, TypeOK
<1>4. Acts(a)
  BY <1>1, <1>2, <1>3 DEF Acts, Mine
<1>5. ActorOK(a)'
  <2>1. Complete(files[path])
    <3>1. files[path].tables \subseteq Tables /\ files[path].columns \subseteq Columns
      BY <1>2, Types DEF Contents
    <3> QED BY <1>1, <1>2, <3>1 DEF ActorOK, DoneOK, Complete
  <2>2. UpOK(a)'
    BY <1>1, <1>2, <2>1 DEF UpOK, ActorOK, RoleOK, InitPCs, Complete, Tables
  <2>3. ConnOK(a)' /\ DoneOK(a)' /\ RoleOK(a)'
    BY <1>1 DEF ConnOK, DoneOK, RoleOK, Entering, Writing, InitPCs
  <2> QED BY <2>2, <2>3 DEF ActorOK
<1> QED BY <1>3, <1>4, <1>5 DEF Keeps

\* Who stops, or ends, leaves the file as it is; so does the check of the version.
LEMMA StopKeeps ==
    ASSUME TypeInv, TypeInv', SchemaInv, NEW a \in Actors,
           \/ Ends(a) \/ Dies(a) \/ StatementFails(a)
           \/ a = Migrator /\ Check
    PROVE  Keeps(a)
<1> USE Setting DEF localVars, boundVars
<1>1. /\ UNCHANGED <<path, files, created, at, seen>>
      /\ \A c \in Actors : c # a => pc'[c] = pc[c] /\ conn'[c] = conn[c]
      /\ \/ pc'[a] \in {"idle", "failed"}
         \/ a = Migrator /\ pc[a] = "check" /\ pc'[a] \in {"stamp", "upgrade"}
  BY Types DEF Ends, Dies, StatementFails, Check, Go
<1>2. FilesOK' /\ Grows(a)
  BY <1>1, NoWrite DEF SchemaInv, TypeInv, TypeOK
<1>3. Acts(a)
  BY <1>1, <1>2 DEF Acts, Mine, Busy
<1>4. ActorOK(a)'
  BY <1>1 DEF ActorOK, ConnOK, DoneOK, RoleOK, UpOK, Entering, Writing, InitPCs
<1> QED BY <1>2, <1>3, <1>4 DEF Keeps

\* Alembic's own table: the version tells the revision that comes next.
LEMMA VersionKeeps ==
    ASSUME TypeInv, TypeInv', SchemaInv, VersionTable
    PROVE  Keeps(Migrator)
<1> USE Setting DEF localVars, boundVars
<1>1. pc[Migrator] \in Entering /\ pc[Migrator] # "wal"
  BY DEF VersionTable, Entering
<1>2. Busy(Migrator) /\ path # None /\ conn[Migrator] = path
  BY <1>1 DEF SchemaInv, ActorOK, ConnOK, Busy, Entering
<1> DEFINE content == [files[path] EXCEPT !.sized = TRUE,
                                          !.version = IF @ = "none" THEN "empty" ELSE @]
<1>3. /\ files' = [files EXCEPT ![path].sized = TRUE,
                                ![path].version = IF @ = "none" THEN "empty" ELSE @]
      /\ pc' = [pc EXCEPT ![Migrator] = IF @ = "stamp table" THEN "stamp head"
                                        ELSE After(files[path].version)]
      /\ at' = [at EXCEPT ![Migrator] = 1]
      /\ UNCHANGED <<path, created, conn, seen>>
  BY <1>2 DEF VersionTable
<1>4. /\ content \in Contents /\ content.sized
      /\ content.tables = files[path].tables /\ content.columns = files[path].columns
      /\ files[path].version \in Versions
      /\ content.version = IF files[path].version = "none" THEN "empty" ELSE files[path].version
      /\ files' = [files EXCEPT ![path] = content]
  BY <1>2, <1>3, Types DEF Contents, Versions
<1> HIDE DEF content
<1>5. FilesOK' /\ Grows(Migrator) /\ files'[path] = content
  BY <1>2, <1>3, <1>4, OneWrite DEF SchemaInv
<1>6. /\ pc'[Migrator] \in {"stamp head", "040", "050", "060", "look"}
      /\ pc'[Migrator] = "look" => files[path].version = "060"
      /\ \A c \in Actors : c # Migrator => pc'[c] = pc[c] /\ at'[c] = at[c]
  <2>1. /\ After(files[path].version) \in {"040", "050", "060", "look"}
        /\ After(files[path].version) = "look" => files[path].version = "060"
    BY <1>4 DEF After, Versions
  <2> QED BY <1>3, <2>1, Types
<1>7. Acts(Migrator)
  BY <1>2, <1>3, <1>5, <1>6 DEF Acts, Mine
<1>8. ActorOK(Migrator)'
  <2>1. ConnOK(Migrator)'
    BY <1>2, <1>3, <1>4, <1>5, <1>6 DEF ConnOK
  <2>2. DoneOK(Migrator)' /\ UpOK(Migrator)'
    BY <1>6 DEF DoneOK, UpOK
  <2>3. RoleOK(Migrator)'
    BY <1>2, <1>3, <1>4, <1>5, <1>6 DEF RoleOK, InitPCs
  <2> QED BY <2>1, <2>2, <2>3 DEF ActorOK
<1> QED BY <1>5, <1>7, <1>8 DEF Keeps

\* A version is set when its revision is done, or stamped.
LEMMA SetKeeps ==
    ASSUME TypeInv, TypeInv', SchemaInv, pc[Migrator] \in {"stamp head", "040", "050", "add"},
           NEW version \in Versions, NEW p, SetVersion(version, p),
           p \in {"upgrade", "050", "060"} \/ (p = "look" /\ version = "060")
    PROVE  Keeps(Migrator)
<1> USE Setting DEF localVars, boundVars
<1>1. pc[Migrator] \in Writing
  BY DEF Writing
<1>2. Busy(Migrator) /\ path # None /\ conn[Migrator] = path /\ files[path].sized
  BY <1>1 DEF SchemaInv, ActorOK, ConnOK, Busy
<1> DEFINE content == [files[path] EXCEPT !.version = version]
<1>3. /\ files' = [files EXCEPT ![path].version = version]
      /\ pc' = [pc EXCEPT ![Migrator] = p] /\ at' = [at EXCEPT ![Migrator] = 1]
      /\ UNCHANGED <<path, created, conn, seen>>
  BY <1>2 DEF SetVersion
<1>4. /\ content \in Contents /\ content.sized /\ content.version = version
      /\ content.tables = files[path].tables /\ content.columns = files[path].columns
      /\ files' = [files EXCEPT ![path] = content]
  BY <1>2, <1>3, Types DEF Contents
<1> HIDE DEF content
<1>5. FilesOK' /\ Grows(Migrator) /\ files'[path] = content
  BY <1>2, <1>3, <1>4, OneWrite DEF SchemaInv
<1>6. /\ pc'[Migrator] = p
      /\ \A c \in Actors : c # Migrator => pc'[c] = pc[c] /\ at'[c] = at[c]
  BY <1>3, Types
<1>7. Acts(Migrator)
  BY <1>2, <1>3, <1>5, <1>6 DEF Acts, Mine
<1>8. ActorOK(Migrator)'
  <2>1. ConnOK(Migrator)'
    BY <1>2, <1>3, <1>4, <1>5, <1>6 DEF ConnOK
  <2>2. DoneOK(Migrator)' /\ UpOK(Migrator)'
    BY <1>6 DEF DoneOK, UpOK
  <2>3. RoleOK(Migrator)'
    BY <1>2, <1>3, <1>4, <1>5, <1>6 DEF RoleOK, InitPCs
  <2> QED BY <2>1, <2>2, <2>3 DEF ActorOK
<1> QED BY <1>5, <1>7, <1>8 DEF Keeps

\* A revision creates a table, or is refused.
LEMMA RevisionKeeps ==
    ASSUME TypeInv, TypeInv', SchemaInv, BaseTable \/ AuthTable
    PROVE  Keeps(Migrator)
<1> USE Setting DEF localVars, boundVars
<1>1. pc[Migrator] \in {"040", "050"} /\ pc[Migrator] \in Writing
  BY DEF BaseTable, AuthTable, Writing
<1>2. ActorOK(Migrator) /\ Busy(Migrator) /\ path # None /\ conn[Migrator] = path /\ files[path].sized
  BY <1>1 DEF SchemaInv, ActorOK, ConnOK, Busy
<1>3. CASE Raise(Migrator)
  BY <1>1, <1>3, RaiseKeeps
<1>4. CASE ~Raise(Migrator)
  <2>1. PICK t \in Tables : files' = [files EXCEPT ![path] = Created(@, t, {})]
    <3>1. at[Migrator] \in Nat \ {0} /\ DOMAIN Base = 1 .. Len(Base) /\ DOMAIN Auth = 1 .. Len(Auth)
      BY SchemaAssumption, Types
    <3> QED BY <1>2, <1>4, <3>1 DEF BaseTable, AuthTable
  <2>2. at' = [at EXCEPT ![Migrator] = @ + 1] /\ UNCHANGED <<path, created, pc, conn, seen>>
    BY <1>4 DEF BaseTable, AuthTable
  <2> DEFINE content == Created(files[path], t, {})
  <2>3. /\ content \in Contents /\ content.sized
        /\ files[path].tables \subseteq content.tables /\ content.version = files[path].version
        /\ files[path].columns \subseteq content.columns \/ Jobs \notin files[path].tables
        /\ files' = [files EXCEPT ![path] = content]
    <3>1. files[path] \in Contents /\ {} \in SUBSET Columns
      BY <1>2, Types
    <3>2. files' = [files EXCEPT ![path] = content]
      BY <2>1
    <3> QED BY <1>2, <3>1, <3>2, CreatedIs
  <2> HIDE DEF content
  <2>4. FilesOK' /\ Grows(Migrator) /\ files'[path] = content
    BY <1>2, <2>2, <2>3, OneWrite DEF SchemaInv
  <2>5. \A c \in Actors : c # Migrator => at'[c] = at[c]
    BY <2>2, Types
  <2>6. Acts(Migrator)
    BY <1>2, <2>2, <2>4, <2>5 DEF Acts, Mine
  <2>7. ActorOK(Migrator)'
    <3>1. ConnOK(Migrator)'
      BY <1>1, <1>2, <2>2, <2>3, <2>4 DEF ConnOK
    <3>2. DoneOK(Migrator)' /\ UpOK(Migrator)' /\ RoleOK(Migrator)'
      BY <1>1, <2>2 DEF DoneOK, UpOK, RoleOK, InitPCs
    <3> QED BY <3>1, <3>2 DEF ActorOK
  <2> QED BY <2>4, <2>6, <2>7 DEF Keeps
<1> QED BY <1>3, <1>4

-----------------------------------------------------------------------------
(* What follows *)

\* Every step is one of these.
LEMMA SomeoneActs ==
    ASSUME TypeInv, TypeInv', SchemaInv, Next
    PROVE  \E b \in Actors : Keeps(b)
<1>1. CASE \E s \in Services : StartService(s)
  BY <1>1, StartKeeps, Setting
<1>2. ASSUME NEW a \in Actors,
             \/ Look(a) \/ Unlink(a) \/ Open(a) \/ EnterWal(a) \/ CreateTable(a)
             \/ ReadColumns(a) \/ AddColumn(a) \/ Ready(a) \/ Ends(a)
             \/ StatementFails(a) \/ Dies(a)
      PROVE  Keeps(a)
  BY <1>2, LookKeeps, OpenKeeps, WalKeeps, TableKeeps, ReadKeeps, AddKeeps, ReadyKeeps, StopKeeps
<1>3. CASE StartMigration \/ Check \/ OpenAlembic \/ VersionTable \/ BaseTable \/ AuthTable
  BY <1>3, StartKeeps, StopKeeps, OpenKeeps, VersionKeeps, RevisionKeeps, Setting
<1>4. CASE StampHead \/ BaseDone \/ AuthDone \/ ColumnsDone
  <2>1. {"040", "050", "060"} \subseteq Versions
    BY DEF Versions
  <2> QED BY <1>4, <2>1, SetKeeps, Setting DEF StampHead, BaseDone, AuthDone, ColumnsDone
<1> QED BY <1>1, <1>2, <1>3, <1>4 DEF Next

LEMMA SchemaHolds == ASSUME Founded PROVE Spec => [](TypeInv /\ SchemaInv)
<1>1. Init => SchemaInv
  <2> SUFFICES ASSUME Init PROVE SchemaInv
    OBVIOUS
  <2>1. \A a \in Actors : pc[a] = "idle"
    BY DEF Init
  <2>2. Alone /\ \A a \in Actors : ActorOK(a)
    BY <2>1
    DEF Alone, Busy, ActorOK, ConnOK, DoneOK, RoleOK, UpOK, Entering, Writing, InitPCs
  <2>3. FilesOK
    <3>1. PICK content \in Before :
            IF content = None
            THEN path = None /\ created = 0 /\ files = [f \in 1 .. MaxFiles |-> NewFile]
            ELSE path = 1 /\ created = 1
                 /\ files = [f \in 1 .. MaxFiles |-> IF f = 1 THEN content ELSE NewFile]
      BY DEF Init
    <3>2. NewFile.tables = {}
      BY DEF NewFile
    <3>3. content # None /\ content.tables # {} => content.sized
      BY <3>2, SchemaAssumption
    <3>4. \A f \in 1 .. MaxFiles : files[f] = NewFile \/ (f = 1 /\ created = 1 /\ files[f] = content /\ content # None)
      BY <3>1
    <3> QED BY <3>2, <3>3, <3>4 DEF FilesOK
  <2>4. Serial
    <3>1. PICK content \in Before :
            IF content = None
            THEN path = None /\ created = 0 /\ files = [f \in 1 .. MaxFiles |-> NewFile]
            ELSE path = 1 /\ created = 1
                 /\ files = [f \in 1 .. MaxFiles |-> IF f = 1 THEN content ELSE NewFile]
      BY DEF Init
    <3>2. content # None => path = 1 /\ path # None /\ files[path] = content
      BY <3>1, Setting
    <3> QED BY <3>2 DEF Founded, Serial, Fresh
  <2> QED BY <2>2, <2>3, <2>4 DEF SchemaInv
<1>2. TypeInv /\ TypeInv' /\ SchemaInv /\ [Next]_vars => SchemaInv'
  <2> SUFFICES ASSUME TypeInv, TypeInv', SchemaInv, [Next]_vars PROVE SchemaInv'
    OBVIOUS
  <2>1. CASE UNCHANGED vars
    BY <2>1
    DEF vars, localVars, boundVars, SchemaInv, FilesOK, Alone, Serial, Fresh, Busy, ActorOK, ConnOK, DoneOK,
        RoleOK, UpOK, Complete, Entering, Writing, InitPCs
  <2>2. CASE Next
    <3>1. PICK b \in Actors : Keeps(b)
      BY <2>2, SomeoneActs
    <3> QED BY <3>1, OthersStay DEF Keeps, SchemaInv
  <2> QED BY <2>1, <2>2
<1>3. Spec => []TypeInv
  BY TypesHold
<1> QED BY <1>1, <1>2, <1>3, PTL DEF Spec

\* Whoever reports success leaves every table, both columns and, for a migration, the last
\* version, for any number of services, starts, failures and deaths: on a database that has
\* tables however they interleave, on none if the first starts come one after the other
\* (MetadataStore.initialize, `vmlab storage migrate`).
THEOREM SuccessIsComplete == ASSUME Founded PROVE Spec => []UpIsComplete
<1>1. SchemaInv => UpIsComplete
  BY DEF SchemaInv, ActorOK, UpOK, UpIsComplete
<1> QED BY <1>1, SchemaHolds, PTL

-----------------------------------------------------------------------------
(* The window of the reset *)

\* A file that has a page keeps one.
LEMMA PagesStay ==
    ASSUME TypeInv, [Next]_vars, NEW f \in 1 .. MaxFiles, files[f].sized
    PROVE  files'[f].sized
<1> USE Setting DEF localVars, boundVars
<1>1. /\ files \in [1 .. MaxFiles -> Contents]
      /\ \A a \in Actors : at[a] \in Nat \ {0}
  BY Types
<1>2. ASSUME files' = files PROVE files'[f].sized
  BY <1>2
<1>3. ASSUME NEW g, NEW content, content.sized \/ g # f, files' = [files EXCEPT ![g] = content]
      PROVE  files'[f].sized
  BY <1>1, <1>3
<1>4. ASSUME NEW t, NEW columns PROVE Created(files[f], t, columns).sized
  BY <1>1 DEF Created, Contents
<1>5. ASSUME NEW a \in Actors, Raise(a) PROVE files' = files
  BY <1>5 DEF Raise
<1>6. ASSUME NEW a \in Actors, EnterWal(a) PROVE files'[f].sized
  BY <1>1, <1>6 DEF EnterWal, Contents
<1>7. ASSUME NEW a \in Actors, CreateTable(a) PROVE files'[f].sized
  BY <1>1, <1>4, <1>5, <1>7 DEF CreateTable
<1>8. ASSUME NEW a \in Actors, AddColumn(a) PROVE files'[f].sized
  BY <1>1, <1>5, <1>8 DEF AddColumn, Contents
<1>9. CASE BaseTable \/ AuthTable
  BY <1>1, <1>4, <1>5, <1>9 DEF BaseTable, AuthTable
<1>10. CASE VersionTable
  <2>1. CASE Raise(Migrator)
    BY <1>2, <1>5, <2>1, Setting
  <2>2. CASE ~Raise(Migrator)
    <3>1. files' = [files EXCEPT ![path].sized = TRUE,
                                 ![path].version = IF @ = "none" THEN "empty" ELSE @]
      BY <1>10, <2>2 DEF VersionTable
    <3>2. files[f] \in Contents
      BY <1>1
    <3> QED BY <1>1, <3>1, <3>2 DEF Contents
  <2> QED BY <2>1, <2>2
<1>11. CASE StampHead \/ BaseDone \/ AuthDone \/ ColumnsDone
  <2>1. PICK version : files' = [files EXCEPT ![conn[Migrator]].version = version]
    BY <1>11 DEF StampHead, BaseDone, AuthDone, ColumnsDone, SetVersion
  <2>2. files[f] \in Contents
    BY <1>1
  <2> QED BY <1>1, <2>1, <2>2 DEF Contents
<1>12. ASSUME NEW a \in Actors,
              \/ Look(a) \/ Unlink(a) \/ Open(a) \/ ReadColumns(a) \/ Ready(a)
              \/ Ends(a) \/ StatementFails(a) \/ Dies(a)
       PROVE  files' = files
  BY <1>12 DEF Look, Unlink, Open, ReadColumns, Ready, Ends, StatementFails, Dies
<1>13. CASE (\E s \in Services : StartService(s)) \/ StartMigration \/ Check \/ OpenAlembic
  BY <1>13 DEF StartService, StartMigration, Check, OpenAlembic
<1>14. CASE UNCHANGED vars
  BY <1>14 DEF vars
<1> QED
  BY <1>2, <1>6, <1>7, <1>8, <1>9, <1>10, <1>11, <1>12, <1>13, <1>14 DEF Next

\* Nobody removes, or is about to remove, a file that has a page.
LEMMA NobodyRemoves ==
    ASSUME TypeInv, [Next]_vars, Safe
    PROVE  path' = path /\ \A a \in Actors : pc'[a] # "unlink"
<1> USE Setting DEF Safe
<1>1. DOMAIN pc = Actors
  BY Types
<1>2. ASSUME NEW a \in Actors, NEW p, p # "unlink", pc' = [pc EXCEPT ![a] = p], path' = path
      PROVE  path' = path /\ \A c \in Actors : pc'[c] # "unlink"
  BY <1>1, <1>2
<1>3. ASSUME UNCHANGED <<pc, path>>
      PROVE  path' = path /\ \A c \in Actors : pc'[c] # "unlink"
  BY <1>3
<1>4. ASSUME NEW a \in Actors, OpenPath(a) PROVE path' = path
  BY <1>4 DEF OpenPath
<1>5. ASSUME NEW a \in Actors, Raise(a)
      PROVE  path' = path /\ \A c \in Actors : pc'[c] # "unlink"
  BY <1>1, <1>5 DEF Raise
<1>6. ASSUME NEW a \in Actors,
             \/ Look(a) \/ Unlink(a) \/ Open(a) \/ EnterWal(a) \/ CreateTable(a)
             \/ ReadColumns(a) \/ AddColumn(a) \/ Ready(a) \/ Ends(a)
             \/ StatementFails(a) \/ Dies(a)
      PROVE  path' = path /\ \A c \in Actors : pc'[c] # "unlink"
  <2>1. CASE Look(a) \/ Unlink(a)
    BY <1>2, <2>1 DEF Look, Unlink, Go
  <2>2. CASE Open(a) \/ EnterWal(a)
    BY <1>2, <1>4, <2>2 DEF Open, EnterWal, Go
  <2>3. CASE CreateTable(a) \/ AddColumn(a)
    BY <1>3, <1>5, <2>3 DEF CreateTable, AddColumn
  <2>4. CASE ReadColumns(a) \/ Ready(a)
    BY <1>2, <2>4 DEF ReadColumns, Ready, Go
  <2>5. CASE Ends(a) \/ StatementFails(a) \/ Dies(a)
    BY <1>2, <2>5 DEF Ends, StatementFails, Dies, Go
  <2> QED BY <1>6, <2>1, <2>2, <2>3, <2>4, <2>5
<1>7. CASE (\E s \in Services : StartService(s)) \/ StartMigration \/ Check
  BY <1>2, <1>7 DEF StartService, StartMigration, Check, Go
<1>8. CASE OpenAlembic
  BY <1>2, <1>4, <1>8 DEF OpenAlembic, Go
<1>9. CASE BaseTable \/ AuthTable
  BY <1>3, <1>5, <1>9 DEF BaseTable, AuthTable
<1>10. CASE VersionTable
  <2>1. CASE Raise(Migrator)
    BY <1>5, <2>1
  <2>2. CASE ~Raise(Migrator)
    <3>1. files[path].version \in Versions
      BY Types DEF Contents
    <3>2. "stamp head" # "unlink" /\ After(files[path].version) # "unlink"
      BY <3>1 DEF After, Versions
    <3>3. path' = path /\ pc' = [pc EXCEPT ![Migrator] = IF @ = "stamp table" THEN "stamp head"
                                                         ELSE After(files[path].version)]
      BY <1>10, <2>2 DEF VersionTable
    <3> QED BY <1>2, <3>2, <3>3
  <2> QED BY <2>1, <2>2
<1>11. CASE StampHead \/ BaseDone \/ AuthDone \/ ColumnsDone
  BY <1>2, <1>11 DEF StampHead, BaseDone, AuthDone, ColumnsDone, SetVersion
<1>12. CASE UNCHANGED vars
  BY <1>3, <1>12 DEF vars
<1> QED BY <1>6, <1>7, <1>8, <1>9, <1>10, <1>11, <1>12 DEF Next

\* Once a database has a page and nobody who saw it without one is left, the reset removes
\* it no more, whatever starts, migrates, fails and is tried again, and however they
\* interleave (_reset_empty_database_files looks at the size in one step and removes the
\* file in another).
THEOREM EstablishedIsKept == Spec => EstablishedStays
<1>1. TypeInv /\ [Next]_vars => [Safe => Safe' /\ path' = path]_vars
  <2> SUFFICES ASSUME TypeInv, [Next]_vars, Safe PROVE Safe' /\ path' = path
    OBVIOUS
  <2>1. path' = path /\ \A a \in Actors : pc'[a] # "unlink"
    BY NobodyRemoves
  <2>2. path \in 1 .. MaxFiles /\ files[path].sized
    BY Types DEF Safe
  <2>3. files'[path].sized
    BY <2>2, PagesStay
  <2> QED BY <2>1, <2>2, <2>3 DEF Safe
<1> QED BY <1>1, TypesHold, PTL DEF Spec, EstablishedStays
=============================================================================
