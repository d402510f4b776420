------------------------------- MODULE Schema -------------------------------
(***************************************************************************)
(* How the metadata database gets its schema: the built-in DDL every       *)
(* service runs when it starts (MetadataStore.initialize, storage.py), the *)
(* Alembic revisions 040, 050 and 060 (migrations/), and the command       *)
(* `vmlab storage migrate` that runs both (cli.py), on an SQLite file.     *)
(*                                                                         *)
(* A DDL statement commits by itself: a process that dies leaves the       *)
(* tables it has created.  A file is a number, since one that is removed   *)
(* stays with those who have it open.  Left out: the columns of a table    *)
(* other than the two of revision 060, indexes, rows.                      *)
(***************************************************************************)
EXTENDS Naturals, Sequences, Functions

CONSTANTS
    Services,      \* service processes
    Migrator,      \* the one who runs `vmlab storage migrate` until it succeeds
    Base,          \* tables of revision 040, in its order; the first is "experiments"
    Auth,          \* tables of revision 050
    Jobs,          \* "pipeline_jobs", among Base
    Meta,          \* "schema_migrations", of the built-in DDL only
    Before,        \* what may be in the database before
    MaxStarts,     \* bound: starts of each service
    MaxFailures,   \* bound: processes that die, statements that fail
    MaxFiles,      \* bound: files created
    Apart,         \* whether those who find no database start one after the other
    None

Columns == {"worker_id", "heartbeat_at"}
Versions == {"none", "empty", "040", "050", "060"}
Tables == Range(Base) \cup Range(Auth) \cup {Meta}
Actors == Services \cup {Migrator}

\* What is in a file: whether it has its first page (what comes later may be in its
\* WAL), its tables, the columns of Jobs that revision 060 adds, and alembic_version:
\* "none" when there is no such table, "empty" when it has no row.
Contents == [sized : BOOLEAN, tables : SUBSET Tables, columns : SUBSET Columns, version : Versions]

\* A file without a page has nothing in it.
NewFile == [sized |-> FALSE, tables |-> {}, columns |-> {}, version |-> "none"]

ASSUME SchemaAssumption ==
    /\ Migrator \notin Services
    /\ {Base, Auth} \subseteq Seq(STRING) /\ Base # <<>>
    /\ Jobs \in Range(Base) /\ Meta \notin Range(Base) \cup Range(Auth)
    /\ Before \subseteq Contents \cup {None} /\ None \notin Nat
    /\ \A content \in Before \ {None} : content.sized \/ content = NewFile
    /\ {MaxStarts, MaxFailures} \subseteq Nat /\ MaxFiles \in Nat \ {0}
    /\ Apart \in BOOLEAN

VARIABLES
    path,      \* the file at the path, or None
    files,     \* the contents of each file
    created,   \* how many files there have been
    pc,        \* where each actor is
    conn,      \* the file it has open
    at,        \* the next table of its list
    seen,      \* the columns it has found
    starts,    \* how often each service has started
    failed     \* processes that have died, statements that have failed

localVars == <<at, seen>>
boundVars == <<starts, failed>>
vars == <<path, files, created, pc, conn, localVars, boundVars>>

InitPCs == {"look", "unlink", "open", "wal", "tables", "alter"}
PCs == InitPCs \cup {"idle", "up", "failed", "check", "stamp", "stamp table", "stamp head",
                     "upgrade", "upgrade table", "040", "050", "060", "add"}

TypeOK ==
    /\ path \in 1 .. created \cup {None} /\ created \in 0 .. MaxFiles
    /\ files \in [1 .. MaxFiles -> Contents]
    /\ pc \in [Actors -> PCs] /\ conn \in [Actors -> 1 .. MaxFiles \cup {None}]
    /\ at \in [Actors -> Nat \ {0}] /\ seen \in [Actors -> SUBSET Columns]
    /\ starts \in [Services -> 0 .. MaxStarts] /\ failed \in 0 .. MaxFailures

Init ==
    /\ \E content \in Before :
          IF content = None
          THEN path = None /\ created = 0 /\ files = [f \in 1 .. MaxFiles |-> NewFile]
          ELSE path = 1 /\ created = 1
               /\ files = [f \in 1 .. MaxFiles |-> IF f = 1 THEN content ELSE NewFile]
    /\ pc = [a \in Actors |-> "idle"] /\ conn = [a \in Actors |-> None]
    /\ at = [a \in Actors |-> 1] /\ seen = [a \in Actors |-> {}]
    /\ starts = [s \in Services |-> 0] /\ failed = 0

Go(a, from, to) == pc[a] = from /\ pc' = [pc EXCEPT ![a] = to]
File(a) == files[conn[a]]

\* An error ends the command; initialize() tries its statements again if it can remove
\* an empty file, on the connection it has.
Raise(a) ==
    LET reset == pc[a] \in InitPCs /\ path # None /\ ~files[path].sized IN
    /\ path' = IF reset THEN None ELSE path
    /\ pc' = [pc EXCEPT ![a] = IF reset THEN "tables" ELSE "failed"]
    /\ UNCHANGED <<files, created, conn, localVars, boundVars>>

-----------------------------------------------------------------------------
(* MetadataStore *)

Fresh == path = None \/ files[path].tables = {}

StartService(s) ==
    /\ Go(s, "idle", "look")
    /\ starts[s] < MaxStarts /\ starts' = [starts EXCEPT ![s] = @ + 1]
    /\ Apart /\ Fresh => \A a \in Actors : pc[a] \in {"idle", "up", "failed"}
    /\ UNCHANGED <<path, files, created, conn, localVars, failed>>

\* Mutant: a file that is there is taken for an empty one.
LookAtPath(a) ==
    /\ pc[a] = "look"
    /\ pc' = [pc EXCEPT ![a] = IF path # None THEN "unlink" ELSE "open"]
    /\ UNCHANGED <<path, files, created, conn, localVars, boundVars>>

\* _reset_empty_database_files: the size is looked at (a WAL has nothing in it before
\* the file has its first page) ...
Look(a) ==
    /\ pc[a] = "look"
    /\ pc' = [pc EXCEPT ![a] = IF path # None /\ ~files[path].sized THEN "unlink" ELSE "open"]
    /\ UNCHANGED <<path, files, created, conn, localVars, boundVars>>

\* ... and then whatever is at the path is removed.
Unlink(a) ==
    /\ Go(a, "unlink", "open")
    /\ path' = None
    /\ UNCHANGED <<files, created, conn, localVars, boundVars>>

OpenPath(a) ==
    IF path = None
    THEN /\ created < MaxFiles /\ created' = created + 1
         /\ path' = created + 1 /\ conn' = [conn EXCEPT ![a] = created + 1]
    ELSE conn' = [conn EXCEPT ![a] = path] /\ UNCHANGED <<path, created>>

Open(a) == Go(a, "open", "wal") /\ OpenPath(a) /\ UNCHANGED <<files, localVars, boundVars>>

\* journal_mode=WAL writes the first page.  In a file that was removed before it fails;
\* _configure_journal_mode then falls back to a mode that writes nothing.
EnterWal(a) ==
    /\ Go(a, "wal", "tables")
    /\ files' = [files EXCEPT ![conn[a]].sized = @ \/ conn[a] = path]
    /\ at' = [at EXCEPT ![a] = 1]
    /\ UNCHANGED <<path, created, conn, seen, boundVars>>

Builtin == <<Meta>> \o Base \o Auth

Created(content, table, columns) ==
    [content EXCEPT !.tables = @ \cup {table},
                    !.columns = IF table = Jobs /\ Jobs \notin content.tables THEN columns ELSE @]

\* CREATE TABLE IF NOT EXISTS, in a fixed order; Jobs with its columns.  A removed file
\* refuses the first one, but not who has written to it already.
CreateTable(a) ==
    /\ pc[a] = "tables" /\ at[a] <= Len(Builtin)
    /\ IF conn[a] # path /\ at[a] = 1
       THEN Raise(a)
       ELSE /\ files' = [files EXCEPT ![conn[a]] = Created(@, Builtin[at[a]], Columns)]
            /\ at' = [at EXCEPT ![a] = @ + 1]
            /\ UNCHANGED <<path, created, pc, conn, seen, boundVars>>

\* Mutant: the built-in DDL has no upgrade of older tables.
ReadColumnsOfNew(a) ==
    /\ \/ at[a] > Len(Builtin) /\ Go(a, "tables", "alter") /\ seen' = [seen EXCEPT ![a] = Columns]
       \/ Go(a, "060", "add") /\ seen' = [seen EXCEPT ![a] = File(a).columns]
    /\ UNCHANGED <<path, files, created, conn, at, boundVars>>

\* _ensure_pipeline_job_columns: PRAGMA table_info, then ALTER TABLE for each.
\* Revision 060 does the same.
ReadColumns(a) ==
    /\ \/ at[a] > Len(Builtin) /\ Go(a, "tables", "alter")
       \/ Go(a, "060", "add")
    /\ seen' = [seen EXCEPT ![a] = File(a).columns]
    /\ UNCHANGED <<path, files, created, conn, at, boundVars>>

\* A column that somebody has added since is an error.
AddColumn(a) ==
    /\ pc[a] \in {"alter", "add"}
    /\ \E c \in Columns \ seen[a] :
          /\ c = "heartbeat_at" => "worker_id" \in seen[a]
          /\ IF c \in File(a).columns
             THEN Raise(a)
             ELSE /\ files' = [files EXCEPT ![conn[a]].columns = @ \cup {c}]
                  /\ seen' = [seen EXCEPT ![a] = @ \cup {c}]
                  /\ UNCHANGED <<path, created, pc, conn, at, boundVars>>

\* The service serves; the migration reports that it is done.
Ready(a) ==
    /\ Go(a, "alter", "up") /\ seen[a] = Columns
    /\ UNCHANGED <<path, files, created, conn, localVars, boundVars>>

-----------------------------------------------------------------------------
(* vmlab storage migrate, with Alembic *)

StartMigration ==
    /\ Go(Migrator, "idle", "check")
    /\ Apart /\ Fresh => \A a \in Actors : pc[a] \in {"idle", "up", "failed"}
    /\ UNCHANGED <<path, files, created, conn, localVars, boundVars>>

\* Mutant: an alembic_version without a row counts as a version.
UnstampedTable(content) ==
    content.sized /\ Base[1] \in content.tables /\ content.version = "none"

\* _needs_alembic_stamp: there are tables, but no version.
Unstamped(content) ==
    content.sized /\ Base[1] \in content.tables /\ content.version \in {"none", "empty"}

Check ==
    /\ Go(Migrator, "check", IF path # None /\ Unstamped(files[path]) THEN "stamp" ELSE "upgrade")
    /\ UNCHANGED <<path, files, created, conn, localVars, boundVars>>

OpenAlembic ==
    /\ Go(Migrator, "stamp", "stamp table") \/ Go(Migrator, "upgrade", "upgrade table")
    /\ OpenPath(Migrator)
    /\ UNCHANGED <<files, localVars, boundVars>>

\* The revision that comes after a version; after the last one the built-in DDL.
After(version) ==
    CASE version \in {"none", "empty"} -> "040"
      [] version = "040" -> "050"
      [] version = "050" -> "060"
      [] version = "060" -> "look"

\* alembic_version, if it is not there.
VersionTable ==
    /\ pc[Migrator] \in {"stamp table", "upgrade table"}
    /\ IF conn[Migrator] # path
       THEN Raise(Migrator)
       ELSE /\ files' = [files EXCEPT ![path].sized = TRUE,
                                      ![path].version = IF @ = "none" THEN "empty" ELSE @]
            /\ pc' = [pc EXCEPT ![Migrator] = IF @ = "stamp table" THEN "stamp head"
                                              ELSE After(files[path].version)]
            /\ at' = [at EXCEPT ![Migrator] = 1]
            /\ UNCHANGED <<path, created, conn, seen, boundVars>>

SetVersion(version, to) ==
    /\ files' = [files EXCEPT ![conn[Migrator]].version = version]
    /\ pc' = [pc EXCEPT ![Migrator] = to]
    /\ at' = [at EXCEPT ![Migrator] = 1]
    /\ UNCHANGED <<path, created, conn, seen, boundVars>>

\* stamp(head), whatever tables there are; the upgrade then has nothing to do.
StampHead == pc[Migrator] = "stamp head" /\ SetVersion("060", "upgrade")

\* Revision 040 creates without looking.
BaseTable ==
    /\ pc[Migrator] = "040" /\ at[Migrator] <= Len(Base)
    /\ IF Base[at[Migrator]] \in File(Migrator).tables
       THEN Raise(Migrator)
       ELSE /\ files' = [files EXCEPT ![conn[Migrator]] = Created(@, Base[at[Migrator]], {})]
            /\ at' = [at EXCEPT ![Migrator] = @ + 1]
            /\ UNCHANGED <<path, created, pc, conn, seen, boundVars>>

BaseDone == pc[Migrator] = "040" /\ at[Migrator] > Len(Base) /\ SetVersion("040", "050")

\* Revision 050 looks first.
AuthTable ==
    /\ pc[Migrator] = "050" /\ at[Migrator] <= Len(Auth)
    /\ files' = [files EXCEPT ![conn[Migrator]] = Created(@, Auth[at[Migrator]], {})]
    /\ at' = [at EXCEPT ![Migrator] = @ + 1]
    /\ UNCHANGED <<path, created, pc, conn, seen, boundVars>>

AuthDone == pc[Migrator] = "050" /\ at[Migrator] > Len(Auth) /\ SetVersion("050", "060")

ColumnsDone == pc[Migrator] = "add" /\ seen[Migrator] = Columns /\ SetVersion("060", "look")

-----------------------------------------------------------------------------
(* Failures *)

\* A lock that is not given, a full disk.
StatementFails(a) ==
    /\ failed < MaxFailures /\ pc[a] \notin {"idle", "up", "failed"}
    /\ failed' = failed + 1
    /\ pc' = [pc EXCEPT ![a] = "failed"]
    /\ UNCHANGED <<path, files, created, conn, localVars, starts>>

Dies(a) ==
    /\ failed < MaxFailures /\ pc[a] \notin {"idle", "failed"}
    /\ failed' = failed + 1
    /\ pc' = [pc EXCEPT ![a] = "idle"] /\ conn' = [conn EXCEPT ![a] = None]
    /\ UNCHANGED <<path, files, created, localVars, starts>>

Ends(a) ==
    /\ Go(a, "failed", "idle")
    /\ conn' = [conn EXCEPT ![a] = None]
    /\ UNCHANGED <<path, files, created, localVars, boundVars>>

-----------------------------------------------------------------------------
Initialize(a) ==
    \/ Look(a) \/ Unlink(a) \/ Open(a) \/ EnterWal(a) \/ CreateTable(a)
    \/ ReadColumns(a) \/ AddColumn(a) \/ Ready(a) \/ Ends(a)

Migrate ==
    \/ StartMigration \/ Check \/ OpenAlembic \/ VersionTable \/ StampHead
    \/ BaseTable \/ BaseDone \/ AuthTable \/ AuthDone \/ ColumnsDone

Next ==
    \/ \E s \in Services : StartService(s)
    \/ \E a \in Actors :
          \/ Look(a) \/ Unlink(a) \/ Open(a) \/ EnterWal(a) \/ CreateTable(a)
          \/ ReadColumns(a) \/ AddColumn(a) \/ Ready(a) \/ Ends(a)
          \/ StatementFails(a) \/ Dies(a)
    \/ StartMigration \/ Check \/ OpenAlembic \/ VersionTable \/ StampHead
    \/ BaseTable \/ BaseDone \/ AuthTable \/ AuthDone \/ ColumnsDone

Spec == Init /\ [][Next]_vars

\* Processes that can run do, and the migration is run again until it succeeds.
FairSpec ==
    /\ Spec
    /\ WF_vars(Migrate)
    /\ \A a \in Actors : WF_vars(Initialize(a))

-----------------------------------------------------------------------------
(* Properties *)

Complete(content) == content.tables = Tables /\ content.columns = Columns

\* Whoever reports success - a service that has started, a migration - leaves every
\* table and both columns, and a migration the version of the last revision: on a
\* database that has tables however they interleave, on none if the first starts come
\* one after the other, and wherever an earlier one has died.
UpIsComplete ==
    \A a \in Actors :
        pc[a] = "up" => /\ path # None /\ Complete(files[path])
                        /\ a = Migrator => files[path].version = "060"

\* The window in which _reset_empty_database_files can remove a database closes for good
\* once its file has a page and those who looked before are through: no start, retry,
\* migration or failure opens it again.
Safe == path # None /\ files[path].sized /\ \A a \in Actors : pc[a] # "unlink"
EstablishedStays == [][Safe => Safe' /\ path' = path]_vars

\* The reset never deletes a WAL with something in it (test_storage.py:259): no file is
\* removed that has tables and that a service which is starting, or has, has open.
WalInUse(f) ==
    files[f].tables # {} /\ \E s \in Services : conn[s] = f /\ pc[s] \in {"tables", "alter", "up"}
NonEmptyWalStays == [][path # None /\ path' # path => ~WalInUse(path)]_vars

\* A migration that is run again comes to an end: no combination of a built-in
\* schema, an old version and a migration that died half way makes it fail for ever.
MigrationSettles == <>(pc[Migrator] = "up")
=============================================================================
