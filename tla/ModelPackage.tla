---------------------------- MODULE ModelPackage ----------------------------
(***************************************************************************)
(* One model package on disk: the ONNX file, its model card, labels and    *)
(* examples (packaging/model_package.py), the packaging of an experiment   *)
(* that replaces them one after the other (pipeline.py), the validation    *)
(* that reads them one after the other, and the digest cache of each       *)
(* process (utils.py).                                                     *)
(*                                                                         *)
(* A build is the ONNX file an experiment has exported, with what its      *)
(* configuration and reports say; its digest tells it from others, its     *)
(* size and time of change need not.  Every file is replaced atomically.   *)
(* Left out: packages of `vmlab package create`, with a card of their own. *)
(***************************************************************************)
EXTENDS Evidence, Naturals

CONSTANTS
    Builds,        \* exported ONNX files
    ReportsOf,     \* what is known of each
    SignatureOf,   \* size and time of change, which a copy keeps
    Creators,      \* threads that package an experiment
    Validators,    \* threads that validate a package on request
    Processes,     \* processes, each with a digest cache
    Home,          \* the process of a thread
    MaxCreates,    \* bound: packagings that begin
    MaxFailures,   \* bound: packagings that break off, processes that die, caches that are full
    None

Threads == Creators \cup Validators

ASSUME PackageAssumption ==
    /\ ReportsOf \in [Builds -> Reports]
    /\ Creators \cap Validators = {}
    /\ Home \in [Threads -> Processes] /\ Processes \cap Threads = {}
    /\ {MaxCreates, MaxFailures} \subseteq Nat
    /\ None \notin Builds

VARIABLES
    model,     \* the build whose ONNX file is in the package, or None
    card,      \* the model card: the build it describes and model.sha256, or None
    labels,    \* the build whose labels are there, or None
    examples,  \* whether there are examples
    cache,     \* _DIGEST_CACHE of each process for this path: file seen by stat and digest, or None
    pc,        \* where each thread is
    build,     \* the build a creator packages
    strict,    \* strict_provenance of a validation
    stat,      \* the file a thread has seen before it reads
    digest,    \* the digest it has got
    read,      \* the card its validation has read
    created,   \* how many packagings have begun
    broken     \* how many have broken off, with the processes that have died and full caches

fileVars == <<model, card, labels, examples>>
checkVars == <<stat, digest, read>>
packageVars == <<fileVars, cache, pc, build, strict, checkVars, created, broken>>

Card == [of : Builds, sha : Builds]
CheckPCs == {"check stat", "check read", "check card", "check sidecars"}
PCs == CheckPCs \cup {"idle", "copy", "stat", "read", "labels", "card", "examples", "valid", "refused"}

PackageTypeOK ==
    /\ model \in Builds \cup {None} /\ labels \in Builds \cup {None}
    /\ card \in Card \cup {None} /\ examples \in BOOLEAN
    /\ cache \in [Processes -> (Builds \X Builds) \cup {None}]
    /\ pc \in [Threads -> PCs]
    /\ build \in [Creators -> Builds \cup {None}]
    /\ strict \in [Threads -> BOOLEAN]
    /\ stat \in [Threads -> Builds \cup {None}] /\ digest \in [Threads -> Builds \cup {None}]
    /\ read \in [Threads -> Card \cup {None}]
    /\ created \in 0 .. MaxCreates /\ broken \in 0 .. MaxFailures

PackageInit ==
    /\ model = None /\ card = None /\ labels = None /\ examples = FALSE
    /\ cache = [p \in Processes |-> None]
    /\ pc = [t \in Threads |-> "idle"]
    /\ build = [c \in Creators |-> None]
    /\ strict = [t \in Threads |-> FALSE]
    /\ stat = [t \in Threads |-> None] /\ digest = [t \in Threads |-> None]
    /\ read = [t \in Threads |-> None]
    /\ created = 0 /\ broken = 0

Go(t, from, to) == pc[t] = from /\ pc' = [pc EXCEPT ![t] = to]

-----------------------------------------------------------------------------
(* sha256_file *)

\* The stat that makes the cache key.
Stat(t, from, to) ==
    /\ Go(t, from, to)
    /\ stat' = [stat EXCEPT ![t] = model]
    /\ UNCHANGED <<fileVars, cache, build, strict, digest, read, created, broken>>

\* The file is read, and the digest cached under the key made before.
ReadAll(t, from, to) ==
    /\ Go(t, from, to) /\ model # None
    /\ digest' = [digest EXCEPT ![t] = model]
    /\ cache' = [cache EXCEPT ![Home[t]] = <<stat[t], model>>]
    /\ UNCHANGED <<fileVars, build, strict, stat, read, created, broken>>

Knows(p, b) == cache[p] # None /\ SignatureOf[cache[p][1]] = SignatureOf[b]

FromCache(t) ==
    /\ Go(t, "check read", "check card") /\ Knows(Home[t], stat[t])
    /\ digest' = [digest EXCEPT ![t] = cache[Home[t]][2]]
    /\ UNCHANGED <<fileVars, cache, build, strict, stat, read, created, broken>>

-----------------------------------------------------------------------------
(* validate_model_package *)

\* Of a request: /api/packages/validate, /api/packages/scan, a registration.
Validate(t, provenance) ==
    /\ pc[t] = "idle" /\ model # None
    /\ pc' = [pc EXCEPT ![t] = "check stat"]
    /\ strict' = [strict EXCEPT ![t] = provenance]
    /\ UNCHANGED <<fileVars, cache, build, checkVars, created, broken>>

CheckStat(t) == Stat(t, "check stat", "check read")

CheckRead(t) ==
    /\ pc[t] = "check read" /\ ~Knows(Home[t], stat[t])
    /\ ReadAll(t, "check read", "check card")

CheckCard(t) ==
    /\ Go(t, "check card", "check sidecars")
    /\ read' = [read EXCEPT ![t] = card]
    /\ UNCHANGED <<fileVars, cache, build, strict, stat, digest, created, broken>>

\* Labels that are unique, images and expected outputs that fit the labels.
SidecarsValid == labels # None /\ examples

\* The ONNX file that is there now loads, and has the input the card describes.
InputAgrees(t) == ReportsOf[model].input = CardOf(ReportsOf[read[t].of]).input

\* Mutant: the digest is computed and not compared.
AcceptsAnyDigest(t) ==
    /\ SidecarsValid
    /\ read[t] # None
    /\ LET said == CardOf(ReportsOf[read[t].of]) IN
       IF strict[t] THEN StrictIssues(said) = {} /\ InputAgrees(t) ELSE CardIssues(said) = {}

\* The digest is that of the card; what the card says is enough; the input is
\* looked at with strict_provenance only.
Accepts(t) ==
    /\ SidecarsValid
    /\ read[t] # None /\ read[t].sha = digest[t]
    /\ LET said == CardOf(ReportsOf[read[t].of]) IN
       IF strict[t] THEN StrictIssues(said) = {} /\ InputAgrees(t) ELSE CardIssues(said) = {}

CheckSidecars(t) ==
    /\ Go(t, "check sidecars", IF Accepts(t) THEN "valid" ELSE "refused")
    /\ UNCHANGED <<fileVars, cache, build, strict, checkVars, created, broken>>

\* What threads have in their local variables is gone.
Forget(threads) ==
    /\ pc' = [t \in Threads |-> IF t \in threads THEN "idle" ELSE pc[t]]
    /\ strict' = [t \in Threads |-> t \notin threads /\ strict[t]]
    /\ build' = [c \in Creators |-> IF c \in threads THEN None ELSE build[c]]
    /\ stat' = [t \in Threads |-> IF t \in threads THEN None ELSE stat[t]]
    /\ digest' = [t \in Threads |-> IF t \in threads THEN None ELSE digest[t]]
    /\ read' = [t \in Threads |-> IF t \in threads THEN None ELSE read[t]]

Answer(t) ==
    /\ pc[t] \in {"valid", "refused"}
    /\ Forget({t})
    /\ UNCHANGED <<fileVars, cache, created, broken>>

-----------------------------------------------------------------------------
(* create_package_from_experiment *)

\* The trust gate lets the build pass; overwrite is the default.
Create(c, b) ==
    /\ Go(c, "idle", "copy")
    /\ created < MaxCreates /\ created' = created + 1
    /\ GateIssues(ReportsOf[b]) = {}
    /\ build' = [build EXCEPT ![c] = b]
    /\ UNCHANGED <<fileVars, cache, strict, checkVars, broken>>

CopyModel(c) ==
    /\ Go(c, "copy", "stat")
    /\ model' = build[c]
    /\ UNCHANGED <<card, labels, examples, cache, build, strict, checkVars, created, broken>>

\* Mutant: the digest of the new file comes from the cache.
HashModelCached(c) ==
    \/ Stat(c, "stat", "read")
    \/ /\ Go(c, "read", "labels")
       /\ IF Knows(Home[c], stat[c])
          THEN digest' = [digest EXCEPT ![c] = cache[Home[c]][2]] /\ UNCHANGED cache
          ELSE /\ digest' = [digest EXCEPT ![c] = model]
               /\ cache' = [cache EXCEPT ![Home[c]] = <<stat[c], model>>]
       /\ UNCHANGED <<fileVars, build, strict, stat, read, created, broken>>

\* use_cache=False: copy2 keeps the time of the source, so that the cache may know
\* the signature from another file; the new digest takes its place.
HashModel(c) == Stat(c, "stat", "read") \/ ReadAll(c, "read", "labels")

WriteLabels(c) ==
    /\ Go(c, "labels", "card")
    /\ labels' = build[c]
    /\ UNCHANGED <<model, card, examples, cache, build, strict, checkVars, created, broken>>

\* The card describes the experiment, the digest is that of the file in the package.
WriteCard(c) ==
    /\ Go(c, "card", "examples")
    /\ card' = [of |-> build[c], sha |-> digest[c]]
    /\ stat' = [stat EXCEPT ![c] = None] /\ digest' = [digest EXCEPT ![c] = None]
    /\ UNCHANGED <<model, labels, examples, cache, build, strict, read, created, broken>>

\* Older examples stay.  Then the package is validated as it is on disk.
CopyExamples(c) ==
    /\ Go(c, "examples", "check stat")
    /\ examples' = TRUE
    /\ strict' = [strict EXCEPT ![c] = ReportsOf[build[c]].profile = "production"]
    /\ UNCHANGED <<model, card, labels, cache, build, checkVars, created, broken>>

\* Any of its steps raises; nothing is put back.
CreateFails(c) ==
    /\ broken < MaxFailures /\ broken' = broken + 1
    /\ pc[c] \notin {"idle", "valid", "refused"}
    /\ pc' = [pc EXCEPT ![c] = "refused"]
    /\ UNCHANGED <<fileVars, cache, build, strict, checkVars, created>>

ProcessDies(p) ==
    /\ broken < MaxFailures /\ broken' = broken + 1
    /\ cache' = [cache EXCEPT ![p] = None]
    /\ Forget({t \in Threads : Home[t] = p})
    /\ UNCHANGED <<fileVars, created>>

\* Digests of other files fill _DIGEST_CACHE, which is emptied then.
Evict(p) ==
    /\ broken < MaxFailures /\ broken' = broken + 1
    /\ cache[p] # None
    /\ cache' = [cache EXCEPT ![p] = None]
    /\ UNCHANGED <<fileVars, pc, build, strict, checkVars, created>>

-----------------------------------------------------------------------------
\* What packagings and validations do; what becomes of a validation is up to its caller.
PackageStep ==
    \/ \E c \in Creators :
          \/ CopyModel(c) \/ HashModel(c) \/ WriteLabels(c) \/ WriteCard(c)
          \/ CopyExamples(c) \/ CreateFails(c)
          \/ \E b \in Builds : Create(c, b)
    \/ \E t \in Threads : CheckStat(t) \/ CheckRead(t) \/ FromCache(t) \/ CheckCard(t) \/ CheckSidecars(t)
    \/ \E p \in Processes : Evict(p)

-----------------------------------------------------------------------------
(* Properties *)

\* The files of a package are replaced, and read, one by one, and packagings break
\* off between them: still, when a validation accepts, what it has judged is what was
\* written for the very file it has seen, not the card of an earlier or later one,
\* provided the digest it got, by reading or from the cache, is that of the file.
AcceptedIsConsistent ==
    \A t \in Threads :
        pc[t] = "check sidecars" /\ digest[t] = stat[t] /\ Accepts(t) => read[t].of = stat[t]

\* A packaging that reports success has put its own build on disk, complete, and
\* with its own digest, whatever was there before and whatever the cache knew.
CreatedIsDelivered ==
    \A c \in Creators :
        pc[c] = "valid" => /\ model = build[c] /\ labels = build[c]
                           /\ card = [of |-> build[c], sha |-> build[c]]
=============================================================================
