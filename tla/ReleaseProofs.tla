--------------------------- MODULE ReleaseProofs ---------------------------
(***************************************************************************)
(* What holds of Release for any builds and reports, any number of         *)
(* packagings, validations, registrations, approvals and rollouts, and any *)
(* limit of approvals.  A rollout has its evidence whoever packages; that  *)
(* a package is of one piece needs Alone: one creator of the package.      *)
(***************************************************************************)
EXTENDS Release, TLAPS

Alone == \A c1, c2 \in Creators : c1 = c2

ReleaseTypeOK ==
    /\ want \in [Validators -> Stages \cup {None}]
    /\ registry \in [Models -> Stages \cup {"candidate", None}]
    /\ proven \subseteq Builds
    /\ approvals \in Seq(Approval)
    /\ approver \in [Approvers -> Approval \cup {None}]
    /\ deployer \in [Deployers -> Deployment]
    /\ rollouts \subseteq Rollout

\* What a thread has between its steps.
InHand ==
    /\ \A t \in Threads : pc[t] \notin {"idle", "copy", "refused"} => model # None
    /\ \A t \in Threads : pc[t] \in {"read", "check read"} => stat[t] # None
    /\ \A t \in Threads : pc[t] \in {"labels", "card"} => digest[t] # None
    /\ \A c \in Creators : pc[c] \in {"copy", "stat", "read", "labels", "card", "examples"}
              => build[c] # None

\* A registration that is not for smoke tests validates strictly, and a package that
\* is valid strictly has a card that is releasable.
Judged ==
    /\ \A v \in Validators : want[v] # None => strict[v] = (want[v] # "smoke")
    /\ \A t \in Threads : pc[t] = "valid" /\ strict[t] => read[t] # None /\ Releasable(read[t].of)

Founded(S) == S # {} /\ \A b \in S : Releasable(b)

\* The evidence is handed on from the registry to the approval and to the rollout,
\* and never taken back.
Evidenced ==
    /\ \A b \in proven : Releasable(b)
    /\ registry[Model] \notin {None, "smoke"} => proven # {}
    /\ \A a \in Approvers :
          approver[a] # None /\ approver[a].model = Model /\ approver[a].status = "approved"
          => proven # {}
    /\ \A i \in DOMAIN approvals :
          approvals[i].model = Model /\ approvals[i].status = "approved"
          => Founded(approvals[i].proven)
    /\ \A d \in Deployers :
          deployer[d].at \in {"target", "insert"} /\ deployer[d].rollout.env # "development"
          => Founded(deployer[d].rollout.proven)
    /\ DeliveredWasProven

\* What a lone creator has done so far is on disk.
InPlace ==
    \A c \in Creators :
        /\ pc[c] \notin {"idle", "copy", "refused"} => model = build[c]
        /\ pc[c] = "read" => stat[c] = build[c]
        /\ pc[c] \in {"labels", "card"} => digest[c] = build[c]
        /\ pc[c] \notin {"idle", "copy", "stat", "read", "labels", "refused"} => labels = build[c]
        /\ pc[c] \notin {"idle", "copy", "stat", "read", "labels", "card", "refused"}
              => card = [of |-> build[c], sha |-> build[c]]

\* The digest on a card is that of the build the card describes.
OnePiece ==
    /\ card # None => card.of = card.sha
    /\ \A t \in Threads : read[t] # None => read[t].of = read[t].sha

\* The inductive invariant.
IInv == TypeOK /\ InHand /\ Judged /\ Evidenced /\ (Alone => InPlace /\ OnePiece)

-----------------------------------------------------------------------------
(* The gate and the card *)

\* A smoke card never passes with strict_provenance.
LEMMA StrictMeansProduction ==
  ASSUME NEW e, StrictIssues(CardOf(e)) = {}
  PROVE  e.profile = "production"
<1> SUFFICES ASSUME e.profile # "production" PROVE FALSE
  OBVIOUS
<1>1. (CardOf(e).profile = "production") = FALSE
  BY DEF CardOf
<1>2. "untrusted_profile" \in StrictIssues(CardOf(e))
  BY <1>1 DEF StrictIssues, Missing
<1> QED BY <1>2

\* Nothing is missing if every check holds.
LEMMA NothingMissing ==
  ASSUME NEW checks, Missing(checks) = {}, NEW i \in DOMAIN checks
  PROVE  checks[i]
BY DEF Missing

\* What a strict validation refuses of a production build that the trust gate lets
\* through is what the gate does not look at, and all of it: the experiment id, the
\* code revision, the dataset ids, shape, layout and dtype of the input, and the batch
\* size (validate_package_trust, build_model_card_data, validate_model_card).
THEOREM GateLeavesToTheCard ==
  ASSUME NEW e \in Reports, e.profile = "production", GateIssues(e) = {}
  PROVE  StrictIssues(CardOf(e)) = LeftToTheCard(e)
<1>1. /\ e.checkpoint /\ e.onnxSource = "external_command" /\ e.metricsSource = "measured"
      /\ e.thresholds = "met" /\ e.limitations = "real"
  <2> DEFINE checks == [training |-> e.trained,
                  checkpoint |-> e.checkpoint,
                  onnx_source |-> e.onnxSource = "external_command",
                  export |-> e.exported,
                  evaluation |-> e.evaluated,
                  metrics_source |-> e.metricsSource = "measured",
                  thresholds |-> e.thresholds = "met",
                  examples |-> e.examples,
                  limitations |-> e.limitations = "real",
                  manifests |-> e.manifests]
  <2>1. Missing(checks) = {}
    BY DEF GateIssues
  <2>2. {"checkpoint", "onnx_source", "metrics_source", "thresholds", "limitations"}
           \subseteq DOMAIN checks
    OBVIOUS
  <2> HIDE DEF checks
  <2>3. /\ checks["checkpoint"] /\ checks["onnx_source"] /\ checks["metrics_source"]
        /\ checks["thresholds"] /\ checks["limitations"]
    BY <2>1, <2>2, NothingMissing
  <2> QED BY <2>3 DEF checks
<1> DEFINE said == CardOf(e)
           form == [metric_below_threshold |-> said.thresholds # "missed",
                    invalid_shape |-> said.shape,
                    invalid_layout |-> said.layout,
                    invalid_dtype |-> said.dtype,
                    invalid_max_batch_size |-> said.batch]
           asked == [untrusted_profile |-> said.profile = "production",
                    missing_experiment_id |-> said.experiment,
                    missing_code_revision |-> said.revision,
                    missing_checkpoint_provenance |-> said.checkpoint,
                    untrusted_onnx_source |-> said.onnxSource = "external_command",
                    untrusted_metrics_source |-> said.metricsSource = "measured",
                    missing_metric_thresholds |-> said.thresholds # "none",
                    placeholder_dataset |-> said.datasets,
                    placeholder_limitations |-> said.limitations # "fill in"]
           left == [missing_experiment_id |-> e.experiment,
                    missing_code_revision |-> e.revision,
                    placeholder_dataset |-> e.datasets,
                    invalid_shape |-> e.shape,
                    invalid_layout |-> e.layout,
                    invalid_dtype |-> e.dtype,
                    invalid_max_batch_size |-> e.batch]
<1>2. /\ said.profile = "production" /\ said.checkpoint /\ said.onnxSource = "external_command"
      /\ said.metricsSource = "measured" /\ said.thresholds = "met" /\ said.limitations = "real"
  BY <1>1 DEF CardOf
<1>3. /\ said.experiment = e.experiment /\ said.revision = e.revision
      /\ said.datasets = e.datasets /\ said.shape = e.shape /\ said.layout = e.layout
      /\ said.dtype = e.dtype /\ said.batch = e.batch
  BY DEF CardOf
<1>4. /\ StrictIssues(said) = Missing(form) \cup Missing(asked)
      /\ LeftToTheCard(e) = Missing(left)
  BY DEF StrictIssues, CardIssues, LeftToTheCard
<1> HIDE DEF said
<1>5. /\ DOMAIN form = {"metric_below_threshold", "invalid_shape", "invalid_layout",
                         "invalid_dtype", "invalid_max_batch_size"}
      /\ form.metric_below_threshold
      /\ form.invalid_shape = e.shape /\ form.invalid_layout = e.layout
      /\ form.invalid_dtype = e.dtype /\ form.invalid_max_batch_size = e.batch
  BY <1>2, <1>3
<1>6. /\ DOMAIN asked = {"untrusted_profile", "missing_experiment_id", "missing_code_revision",
                          "missing_checkpoint_provenance", "untrusted_onnx_source",
                          "untrusted_metrics_source", "missing_metric_thresholds",
                          "placeholder_dataset", "placeholder_limitations"}
      /\ asked.untrusted_profile /\ asked.missing_checkpoint_provenance
      /\ asked.untrusted_onnx_source /\ asked.untrusted_metrics_source
      /\ asked.missing_metric_thresholds /\ asked.placeholder_limitations
      /\ asked.missing_experiment_id = e.experiment
      /\ asked.missing_code_revision = e.revision /\ asked.placeholder_dataset = e.datasets
  BY <1>2, <1>3
<1>7. /\ DOMAIN left = {"missing_experiment_id", "missing_code_revision", "placeholder_dataset",
                         "invalid_shape", "invalid_layout", "invalid_dtype",
                         "invalid_max_batch_size"}
      /\ left.missing_experiment_id = e.experiment /\ left.missing_code_revision = e.revision
      /\ left.placeholder_dataset = e.datasets
      /\ left.invalid_shape = e.shape /\ left.invalid_layout = e.layout
      /\ left.invalid_dtype = e.dtype /\ left.invalid_max_batch_size = e.batch
  OBVIOUS
<1> HIDE DEF form, asked, left
<1>8. Missing(form) \cup Missing(asked) = Missing(left)
  BY <1>5, <1>6, <1>7 DEF Missing
<1> QED BY <1>4, <1>8 DEF said
-----------------------------------------------------------------------------
(* The inductive invariant *)

\* Every step keeps the types of the package, given what each thread has in hand.
LEMMA PackageTypeStep ==
  ASSUME PackageTypeOK, InHand, [Next]_vars
  PROVE  PackageTypeOK'
<1> USE PackageAssumption
       DEF PackageAssumption, PackageTypeOK, Threads, InHand, PCs, CheckPCs, Card
<1>1. ASSUME NEW c \in Creators, NEW b \in Builds, Create(c, b)
      PROVE  PackageTypeOK'
  <2>1. created' \in 0 .. MaxCreates
    <3>1. MaxCreates \in Nat
      BY PackageAssumption DEF PackageAssumption
    <3>2. created \in 0 .. MaxCreates /\ created < MaxCreates /\ created' = created + 1
      BY <1>1 DEF Create
    <3> QED BY ONLY <3>1, <3>2
  <2>2. pc' \in [Threads -> PCs]
    BY <1>1 DEF Create, Go, fileVars, checkVars
  <2>3. build' \in [Creators -> Builds \cup {None}]
    BY <1>1 DEF Create, Go, fileVars, checkVars
  <2> QED BY <1>1, <2>1, <2>2, <2>3 DEF Create, Go, fileVars, checkVars
<1>2. ASSUME NEW c \in Creators, CopyModel(c)
      PROVE  PackageTypeOK'
  BY <1>2 DEF CopyModel, Go, checkVars
<1>3. ASSUME NEW c \in Creators, HashModel(c)
      PROVE  PackageTypeOK'
  <2>1. CASE Stat(c, "stat", "read")
    BY <1>3, <2>1 DEF Stat, Go, fileVars
  <2>2. CASE ReadAll(c, "read", "labels")
    BY <1>3, <2>2 DEF ReadAll, Go, fileVars
  <2> QED BY <1>3, <2>1, <2>2 DEF HashModel
<1>4. ASSUME NEW c \in Creators, WriteLabels(c)
      PROVE  PackageTypeOK'
  BY <1>4 DEF WriteLabels, Go, checkVars
<1>5. ASSUME NEW c \in Creators, WriteCard(c)
      PROVE  PackageTypeOK'
  BY <1>5 DEF WriteCard, Go
<1>6. ASSUME NEW c \in Creators, CopyExamples(c)
      PROVE  PackageTypeOK'
  BY <1>6 DEF CopyExamples, Go, checkVars
<1>7. ASSUME NEW c \in Creators, CreateFails(c)
      PROVE  PackageTypeOK'
  <2>1. broken' \in 0 .. MaxFailures
    <3>1. MaxFailures \in Nat
      BY PackageAssumption DEF PackageAssumption
    <3>2. broken \in 0 .. MaxFailures /\ broken < MaxFailures /\ broken' = broken + 1
      BY <1>7 DEF CreateFails
    <3> QED BY ONLY <3>1, <3>2
  <2>2. pc' \in [Threads -> PCs]
    BY <1>7 DEF CreateFails, fileVars, checkVars
  <2> QED BY <1>7, <2>1, <2>2 DEF CreateFails, fileVars, checkVars
<1>8. ASSUME NEW t \in Threads, CheckStat(t)
      PROVE  PackageTypeOK'
  BY <1>8 DEF CheckStat, Stat, Go, fileVars
<1>9. ASSUME NEW t \in Threads, CheckRead(t)
      PROVE  PackageTypeOK'
  BY <1>9 DEF CheckRead, ReadAll, Go, fileVars
<1>10. ASSUME NEW t \in Threads, FromCache(t)
      PROVE  PackageTypeOK'
  <2>1. cache[Home[t]][2] \in Builds
    BY <1>10 DEF FromCache, Knows
  <2>2. pc' \in [Threads -> PCs]
    BY <1>10 DEF FromCache, Go, fileVars
  <2>3. digest' \in [Threads -> Builds \cup {None}]
    BY <1>10, <2>1, <2>2 DEF FromCache, Go, fileVars
  <2> QED BY <1>10, <2>1, <2>2, <2>3 DEF FromCache, Go, fileVars
<1>11. ASSUME NEW t \in Threads, CheckCard(t)
      PROVE  PackageTypeOK'
  BY <1>11 DEF CheckCard, Go, fileVars
<1>12. ASSUME NEW t \in Threads, CheckSidecars(t)
      PROVE  PackageTypeOK'
  BY <1>12 DEF CheckSidecars, Go, fileVars, checkVars
<1>13. ASSUME NEW p \in Processes, Evict(p)
      PROVE  PackageTypeOK'
  <2>1. broken' \in 0 .. MaxFailures
    <3>1. MaxFailures \in Nat
      BY PackageAssumption DEF PackageAssumption
    <3>2. broken \in 0 .. MaxFailures /\ broken < MaxFailures /\ broken' = broken + 1
      BY <1>13 DEF Evict
    <3> QED BY ONLY <3>1, <3>2
  <2>2. cache' \in [Processes -> (Builds \X Builds) \cup {None}]
    BY <1>13 DEF Evict, fileVars, checkVars
  <2> QED BY <1>13, <2>1, <2>2 DEF Evict, fileVars, checkVars
<1>14. ASSUME NEW v \in Validators, Register(v)
      PROVE  PackageTypeOK'
  <2>1. pc' \in [Threads -> PCs]
    BY <1>14 DEF Register, Validate, fileVars, checkVars, approvalVars, rolloutVars
  <2>2. strict' \in [Threads -> BOOLEAN]
    BY <1>14 DEF Register, Validate, fileVars, checkVars, approvalVars, rolloutVars
  <2> QED BY <1>14, <2>1, <2>2
     DEF Register, Validate, fileVars, checkVars, approvalVars, rolloutVars
<1>15. ASSUME NEW v \in Validators, Upsert(v)
      PROVE  PackageTypeOK'
  BY <1>15 DEF Upsert, Answer, Forget, fileVars, approvalVars, rolloutVars
<1>16. ASSUME NEW t \in Threads, AnswerOnly(t)
      PROVE  PackageTypeOK'
  BY <1>16 DEF AnswerOnly, Answer, Forget, fileVars, approvalVars, rolloutVars
<1>17. ASSUME NEW p \in Processes, Dies(p)
      PROVE  PackageTypeOK'
  <2>1. broken' \in 0 .. MaxFailures
    <3>1. MaxFailures \in Nat
      BY PackageAssumption DEF PackageAssumption
    <3>2. broken \in 0 .. MaxFailures /\ broken < MaxFailures /\ broken' = broken + 1
      BY <1>17 DEF Dies, ProcessDies
    <3> QED BY ONLY <3>1, <3>2
  <2>2. cache' \in [Processes -> (Builds \X Builds) \cup {None}]
    BY <1>17 DEF Dies, ProcessDies, Forget, fileVars, approvalVars, rolloutVars
  <2> QED BY <1>17, <2>1, <2>2
     DEF Dies, ProcessDies, Forget, fileVars, approvalVars, rolloutVars
<1>18. CASE UNCHANGED packageVars
  BY <1>18 DEF packageVars, fileVars, checkVars
<1> QED BY <1>1, <1>2, <1>3, <1>4, <1>5, <1>6, <1>7, <1>8, <1>9, <1>10, <1>11, <1>12, <1>13,
           <1>14, <1>15, <1>16, <1>17, <1>18
       DEF Next, PackageStep, vars, CheckRow, RecordApproval, ApprovalFails, ReadRegistry,
           FindApproval, FindTarget, RecordRollout, RolloutRefused

\* A rollout looks at approvals that have been recorded.
LEMMA NewestRecorded ==
  ASSUME NEW S, approvals \in Seq(S)
  PROVE  Newest \subseteq S
<1> SUFFICES ASSUME NEW i \in DOMAIN approvals PROVE approvals[i] \in S
  BY DEF Newest
<1> QED OBVIOUS

\* Every step keeps the types of registry, approvals and rollouts.
LEMMA ReleaseTypeStep ==
  ASSUME PackageTypeOK, ReleaseTypeOK, Judged, [Next]_vars
  PROVE  ReleaseTypeOK'
<1> USE ReleaseAssumption
       DEF ReleaseAssumption, ReleaseTypeOK, Models, Environments, Approval, Rollout, Deployment
<1>1. ASSUME NEW v \in Validators, Register(v)
      PROVE  ReleaseTypeOK'
  <2>1. want' \in [Validators -> Stages \cup {None}]
    BY <1>1 DEF Register, Validate, fileVars, checkVars, approvalVars, rolloutVars
  <2> QED BY <1>1, <2>1 DEF Register, Validate, fileVars, checkVars, approvalVars, rolloutVars
<1>2. ASSUME NEW v \in Validators, Upsert(v)
      PROVE  ReleaseTypeOK'
  <2>1. proven' \subseteq Builds
    <3>1. want[v] # "smoke" => strict[v] /\ pc[v] = "valid"
      BY <1>2 DEF Upsert, Judged
    <3>2. want[v] # "smoke" => read[v] \in Card
      BY <3>1 DEF Judged, PackageTypeOK, Threads
    <3> QED BY <1>2, <3>2 DEF Upsert, Card
  <2>2. want' \in [Validators -> Stages \cup {None}]
    BY <1>2 DEF Upsert, Answer, Forget, fileVars, approvalVars, rolloutVars
  <2>3. registry' \in [Models -> Stages \cup {"candidate", None}]
    BY <1>2 DEF Upsert, Answer, Forget, fileVars, approvalVars, rolloutVars
  <2> QED BY <1>2, <2>1, <2>2, <2>3
     DEF Upsert, Answer, Forget, fileVars, approvalVars, rolloutVars
<1>3. ASSUME NEW t \in Threads, AnswerOnly(t)
      PROVE  ReleaseTypeOK'
  BY <1>3 DEF AnswerOnly, Answer, Forget, fileVars, approvalVars, rolloutVars
<1>4. ASSUME NEW a \in Approvers, CheckRow(a)
      PROVE  ReleaseTypeOK'
  <2>1. approver' \in [Approvers -> Approval \cup {None}]
    BY <1>4 DEF CheckRow, packageVars, fileVars, checkVars, registryVars, rolloutVars
  <2> QED BY <1>4, <2>1
     DEF CheckRow, packageVars, fileVars, checkVars, registryVars, rolloutVars
<1>5. ASSUME NEW a \in Approvers, RecordApproval(a)
      PROVE  ReleaseTypeOK'
  <2>1. [approver[a] EXCEPT !.proven = proven] \in Approval
    BY <1>5 DEF RecordApproval, packageVars, fileVars, checkVars, registryVars, rolloutVars
  <2>2. approvals' \in Seq(Approval)
    BY <1>5, <2>1
       DEF RecordApproval, packageVars, fileVars, checkVars, registryVars, rolloutVars
  <2> QED BY <1>5, <2>1, <2>2
     DEF RecordApproval, packageVars, fileVars, checkVars, registryVars, rolloutVars
<1>6. ASSUME NEW a \in Approvers, ApprovalFails(a)
      PROVE  ReleaseTypeOK'
  BY <1>6 DEF ApprovalFails, packageVars, fileVars, checkVars, registryVars, rolloutVars
<1>7. ASSUME NEW d \in Deployers, ReadRegistry(d)
      PROVE  ReleaseTypeOK'
  <2>1. deployer' \in [Deployers -> Deployment]
    BY <1>7 DEF ReadRegistry, packageVars, fileVars, checkVars, registryVars, approvalVars
  <2> QED BY <1>7, <2>1
     DEF ReadRegistry, packageVars, fileVars, checkVars, registryVars, approvalVars
<1>8. ASSUME NEW d \in Deployers, FindApproval(d)
      PROVE  ReleaseTypeOK'
  <2>1. deployer' \in [Deployers -> Deployment]
    <3>1. PICK row \in Newest :
              deployer' = [deployer EXCEPT
                  ![d].at = IF deployer[d].rollout.env = "production" THEN "target" ELSE "insert",
                  ![d].rollout.proven = row.proven]
      BY <1>8 DEF FindApproval
    <3>2. /\ row.proven \in SUBSET Builds /\ deployer[d] \in Deployment
          /\ deployer[d].rollout \in Rollout
      <4>1. approvals \in Seq(Approval)
        BY DEF ReleaseTypeOK
      <4>2. row \in Approval
        BY <4>1, NewestRecorded
      <4> QED BY <4>2 DEF Approval
    <3> DEFINE next == IF deployer[d].rollout.env = "production" THEN "target" ELSE "insert"
               rollout == [deployer[d].rollout EXCEPT !.proven = row.proven]
    <3>3. rollout \in Rollout
      BY <3>2
    <3>4. [deployer[d] EXCEPT !.at = next, !.rollout = rollout] \in Deployment
      BY <3>2, <3>3
    <3> QED BY <3>1, <3>2, <3>4
  <2> QED BY <1>8, <2>1
     DEF FindApproval, packageVars, fileVars, checkVars, registryVars, approvalVars
<1>9. ASSUME NEW d \in Deployers, FindTarget(d)
      PROVE  ReleaseTypeOK'
  <2>1. deployer' \in [Deployers -> Deployment]
    BY <1>9 DEF FindTarget, packageVars, fileVars, checkVars, registryVars, approvalVars
  <2> QED BY <1>9, <2>1
     DEF FindTarget, packageVars, fileVars, checkVars, registryVars, approvalVars
<1>10. ASSUME NEW d \in Deployers, RecordRollout(d)
      PROVE  ReleaseTypeOK'
  <2>1. deployer[d].rollout \in Rollout
    BY <1>10 DEF RecordRollout, Nothing, packageVars, fileVars, checkVars, registryVars,
           approvalVars
  <2>2. [at |-> "idle", rollout |-> Nothing] \in Deployment
    BY <1>10 DEF RecordRollout, Nothing, packageVars, fileVars, checkVars, registryVars,
           approvalVars
  <2>3. deployer' \in [Deployers -> Deployment]
    BY <1>10, <2>1, <2>2
       DEF RecordRollout, Nothing, packageVars, fileVars, checkVars, registryVars,
           approvalVars
  <2>4. rollouts' \subseteq Rollout
    BY <1>10, <2>1, <2>2, <2>3
       DEF RecordRollout, Nothing, packageVars, fileVars, checkVars, registryVars,
           approvalVars
  <2> QED BY <1>10, <2>1, <2>2, <2>3, <2>4
     DEF RecordRollout, Nothing, packageVars, fileVars, checkVars, registryVars,
         approvalVars
<1>11. ASSUME NEW d \in Deployers, RolloutRefused(d)
      PROVE  ReleaseTypeOK'
  BY <1>11 DEF RolloutRefused, Nothing, packageVars, fileVars, checkVars, registryVars,
         approvalVars
<1>12. ASSUME NEW p \in Processes, Dies(p)
      PROVE  ReleaseTypeOK'
  BY <1>12 DEF Dies, ProcessDies, Forget, fileVars, approvalVars, rolloutVars
<1>13. CASE UNCHANGED <<registryVars, approvalVars, rolloutVars>>
  BY <1>13 DEF registryVars, approvalVars, rolloutVars
<1> QED BY <1>1, <1>2, <1>3, <1>4, <1>5, <1>6, <1>7, <1>8, <1>9, <1>10, <1>11, <1>12, <1>13
       DEF Next, vars, registryVars, approvalVars, rolloutVars

\* Both parts.
LEMMA TypeStep ==
  ASSUME TypeOK, InHand, Judged, [Next]_vars
  PROVE  TypeOK'
BY PackageTypeStep, ReleaseTypeStep DEF TypeOK, ReleaseTypeOK

\* Files are read after they are written, and used after they are read.
LEMMA InHandStep ==
  ASSUME TypeOK, InHand, [Next]_vars
  PROVE  InHand'
<1> USE PackageAssumption, ReleaseAssumption
       DEF PackageAssumption, ReleaseAssumption, TypeOK, PackageTypeOK, Threads,
           InHand, Card, CheckPCs, PCs
<1>1. ASSUME NEW c \in Creators, NEW b \in Builds, Create(c, b)
      PROVE  InHand'
  BY <1>1 DEF Create, Go, fileVars, checkVars
<1>2. ASSUME NEW c \in Creators, CopyModel(c)
      PROVE  InHand'
  BY <1>2 DEF CopyModel, Go, checkVars
<1>3. ASSUME NEW c \in Creators, HashModel(c)
      PROVE  InHand'
  <2>1. CASE Stat(c, "stat", "read")
    BY <1>3, <2>1 DEF Stat, Go, fileVars
  <2>2. CASE ReadAll(c, "read", "labels")
    BY <1>3, <2>2 DEF ReadAll, Go, fileVars
  <2> QED BY <1>3, <2>1, <2>2 DEF HashModel
<1>4. ASSUME NEW c \in Creators, WriteLabels(c)
      PROVE  InHand'
  BY <1>4 DEF WriteLabels, Go, checkVars
<1>5. ASSUME NEW c \in Creators, WriteCard(c)
      PROVE  InHand'
  BY <1>5 DEF WriteCard, Go
<1>6. ASSUME NEW c \in Creators, CopyExamples(c)
      PROVE  InHand'
  BY <1>6 DEF CopyExamples, Go, checkVars
<1>7. ASSUME NEW c \in Creators, CreateFails(c)
      PROVE  InHand'
  BY <1>7 DEF CreateFails, fileVars, checkVars
<1>8. ASSUME NEW t \in Threads, CheckStat(t)
      PROVE  InHand'
  BY <1>8 DEF CheckStat, Stat, Go, fileVars
<1>9. ASSUME NEW t \in Threads, CheckRead(t)
      PROVE  InHand'
  BY <1>9 DEF CheckRead, ReadAll, Go, fileVars
<1>10. ASSUME NEW t \in Threads, FromCache(t)
      PROVE  InHand'
  BY <1>10 DEF FromCache, Go, Knows, fileVars
<1>11. ASSUME NEW t \in Threads, CheckCard(t)
      PROVE  InHand'
  BY <1>11 DEF CheckCard, Go, fileVars
<1>12. ASSUME NEW t \in Threads, CheckSidecars(t)
      PROVE  InHand'
  BY <1>12 DEF CheckSidecars, Go, fileVars, checkVars
<1>13. ASSUME NEW p \in Processes, Evict(p)
      PROVE  InHand'
  BY <1>13 DEF Evict, fileVars, checkVars
<1>14. ASSUME NEW v \in Validators, Register(v)
      PROVE  InHand'
  <2>1. PICK stage \in Stages : Validate(v, stage # "smoke")
    BY <1>14 DEF Register
  <2> QED BY <2>1 DEF Validate, fileVars, checkVars
<1>15. ASSUME NEW v \in Validators, Upsert(v)
      PROVE  InHand'
  BY <1>15 DEF Upsert, Answer, Forget, fileVars, approvalVars, rolloutVars
<1>16. ASSUME NEW t \in Threads, AnswerOnly(t)
      PROVE  InHand'
  BY <1>16 DEF AnswerOnly, Answer, Forget, fileVars, approvalVars, rolloutVars
<1>17. ASSUME NEW p \in Processes, Dies(p)
      PROVE  InHand'
  BY <1>17 DEF Dies, ProcessDies, Forget, fileVars, approvalVars, rolloutVars
<1>18. CASE UNCHANGED packageVars
  BY <1>18 DEF packageVars, fileVars, checkVars
<1> QED BY <1>1, <1>2, <1>3, <1>4, <1>5, <1>6, <1>7, <1>8, <1>9, <1>10, <1>11, <1>12, <1>13,
           <1>14, <1>15, <1>16, <1>17, <1>18
       DEF Next, PackageStep, vars, CheckRow, RecordApproval, ApprovalFails, ReadRegistry,
           FindApproval, FindTarget, RecordRollout, RolloutRefused

\* Only a validation makes a package valid, by the card it has read.
LEMMA JudgedStep ==
  ASSUME TypeOK, Judged, [Next]_vars
  PROVE  Judged'
<1> USE PackageAssumption, ReleaseAssumption
       DEF PackageAssumption, ReleaseAssumption, TypeOK, PackageTypeOK, Threads, Judged
<1>1. ASSUME NEW c \in Creators, NEW b \in Builds, Create(c, b),
                UNCHANGED <<registryVars, approvalVars, rolloutVars>>
      PROVE  Judged'
  BY <1>1 DEF Create, Go, fileVars, checkVars, registryVars, approvalVars, rolloutVars
<1>2. ASSUME NEW c \in Creators, CopyModel(c),
                UNCHANGED <<registryVars, approvalVars, rolloutVars>>
      PROVE  Judged'
  BY <1>2 DEF CopyModel, Go, checkVars, registryVars, approvalVars, rolloutVars
<1>3. ASSUME NEW c \in Creators, HashModel(c),
                UNCHANGED <<registryVars, approvalVars, rolloutVars>>
      PROVE  Judged'
  BY <1>3 DEF HashModel, Stat, Go, fileVars, ReadAll, registryVars, approvalVars, rolloutVars
<1>4. ASSUME NEW c \in Creators, WriteLabels(c),
                UNCHANGED <<registryVars, approvalVars, rolloutVars>>
      PROVE  Judged'
  BY <1>4 DEF WriteLabels, Go, checkVars, registryVars, approvalVars, rolloutVars
<1>5. ASSUME NEW c \in Creators, WriteCard(c),
                UNCHANGED <<registryVars, approvalVars, rolloutVars>>
      PROVE  Judged'
  BY <1>5 DEF WriteCard, Go, registryVars, approvalVars, rolloutVars
<1>6. ASSUME NEW c \in Creators, CopyExamples(c),
                UNCHANGED <<registryVars, approvalVars, rolloutVars>>
      PROVE  Judged'
  BY <1>6 DEF CopyExamples, Go, checkVars, registryVars, approvalVars, rolloutVars
<1>7. ASSUME NEW c \in Creators, CreateFails(c),
                UNCHANGED <<registryVars, approvalVars, rolloutVars>>
      PROVE  Judged'
  BY <1>7 DEF CreateFails, fileVars, checkVars, registryVars, approvalVars, rolloutVars
<1>8. ASSUME NEW t \in Threads, CheckStat(t),
                UNCHANGED <<registryVars, approvalVars, rolloutVars>>
      PROVE  Judged'
  BY <1>8 DEF CheckStat, Stat, Go, fileVars, registryVars, approvalVars, rolloutVars
<1>9. ASSUME NEW t \in Threads, CheckRead(t),
                UNCHANGED <<registryVars, approvalVars, rolloutVars>>
      PROVE  Judged'
  BY <1>9 DEF CheckRead, ReadAll, Go, fileVars, registryVars, approvalVars, rolloutVars
<1>10. ASSUME NEW t \in Threads, FromCache(t),
                UNCHANGED <<registryVars, approvalVars, rolloutVars>>
      PROVE  Judged'
  BY <1>10 DEF FromCache, Go, fileVars, registryVars, approvalVars, rolloutVars
<1>11. ASSUME NEW t \in Threads, CheckCard(t),
                UNCHANGED <<registryVars, approvalVars, rolloutVars>>
      PROVE  Judged'
  BY <1>11 DEF CheckCard, Go, fileVars, registryVars, approvalVars, rolloutVars
<1>12. ASSUME NEW t \in Threads, CheckSidecars(t),
                UNCHANGED <<registryVars, approvalVars, rolloutVars>>
      PROVE  Judged'
  <2>1. ASSUME pc'[t] = "valid", strict[t]
        PROVE  read[t] # None /\ Releasable(read[t].of)
    <3>1. Accepts(t)
      BY <1>12, <2>1 DEF CheckSidecars, Go
    <3>2. read[t] # None /\ StrictIssues(CardOf(ReportsOf[read[t].of])) = {}
      BY <2>1, <3>1 DEF Accepts
    <3> QED BY <3>2, StrictMeansProduction DEF Releasable
  <2>2. /\ UNCHANGED <<read, strict, want>>
        /\ \A u \in Threads \ {t} : pc'[u] = pc[u]
    BY <1>12 DEF CheckSidecars, Go, checkVars, registryVars
  <2> QED BY <2>1, <2>2
<1>13. ASSUME NEW p \in Processes, Evict(p),
                UNCHANGED <<registryVars, approvalVars, rolloutVars>>
      PROVE  Judged'
  BY <1>13 DEF Evict, fileVars, checkVars, registryVars, approvalVars, rolloutVars
<1>14. ASSUME NEW v \in Validators, Register(v)
      PROVE  Judged'
  <2>1. PICK stage \in Stages :
            /\ Validate(v, stage # "smoke")
            /\ want' = [want EXCEPT ![v] = stage]
    BY <1>14 DEF Register
  <2> QED BY <2>1 DEF Validate, checkVars
<1>15. ASSUME NEW v \in Validators, Upsert(v)
      PROVE  Judged'
  BY <1>15 DEF Upsert, Answer, Forget, fileVars, approvalVars, rolloutVars
<1>16. ASSUME NEW t \in Threads, AnswerOnly(t)
      PROVE  Judged'
  BY <1>16 DEF AnswerOnly, Answer, Forget, fileVars, approvalVars, rolloutVars
<1>17. ASSUME NEW a \in Approvers, CheckRow(a)
      PROVE  Judged'
  BY <1>17 DEF CheckRow, packageVars, fileVars, checkVars, registryVars, rolloutVars
<1>18. ASSUME NEW a \in Approvers, RecordApproval(a)
      PROVE  Judged'
  BY <1>18 DEF RecordApproval, packageVars, fileVars, checkVars, registryVars, rolloutVars
<1>19. ASSUME NEW a \in Approvers, ApprovalFails(a)
      PROVE  Judged'
  BY <1>19 DEF ApprovalFails, packageVars, fileVars, checkVars, registryVars, rolloutVars
<1>20. ASSUME NEW d \in Deployers, ReadRegistry(d)
      PROVE  Judged'
  BY <1>20 DEF ReadRegistry, packageVars, fileVars, checkVars, registryVars, approvalVars
<1>21. ASSUME NEW d \in Deployers, FindApproval(d)
      PROVE  Judged'
  BY <1>21 DEF FindApproval, packageVars, fileVars, checkVars, registryVars, approvalVars
<1>22. ASSUME NEW d \in Deployers, FindTarget(d)
      PROVE  Judged'
  BY <1>22 DEF FindTarget, packageVars, fileVars, checkVars, registryVars, approvalVars
<1>23. ASSUME NEW d \in Deployers, RecordRollout(d)
      PROVE  Judged'
  BY <1>23 DEF RecordRollout, packageVars, fileVars, checkVars, registryVars, approvalVars
<1>24. ASSUME NEW d \in Deployers, RolloutRefused(d)
      PROVE  Judged'
  BY <1>24 DEF RolloutRefused, packageVars, fileVars, checkVars, registryVars, approvalVars
<1>25. ASSUME NEW p \in Processes, Dies(p)
      PROVE  Judged'
  BY <1>25 DEF Dies, ProcessDies, Forget, fileVars, approvalVars, rolloutVars
<1>26. CASE UNCHANGED vars
  BY <1>26 DEF vars, packageVars, fileVars, checkVars, registryVars, approvalVars, rolloutVars
<1> QED BY <1>1, <1>2, <1>3, <1>4, <1>5, <1>6, <1>7, <1>8, <1>9, <1>10, <1>11, <1>12, <1>13,
           <1>14, <1>15, <1>16, <1>17, <1>18, <1>19, <1>20, <1>21, <1>22, <1>23, <1>24,
           <1>25, <1>26
       DEF Next, PackageStep

\* Upsert is the only step that needs a validation; the others pass on what they found.
LEMMA EvidencedStep ==
  ASSUME TypeOK, Judged, Evidenced, [Next]_vars
  PROVE  Evidenced'
<1> USE PackageAssumption, ReleaseAssumption
       DEF PackageAssumption, ReleaseAssumption, TypeOK, PackageTypeOK, Threads,
           Judged, Evidenced, Founded, DeliveredWasProven,
           Approval, Rollout, Deployment, Card
<1>1. ASSUME NEW v \in Validators, Register(v)
      PROVE  Evidenced'
  BY <1>1 DEF Register, Validate, fileVars, checkVars, approvalVars, rolloutVars
<1>2. ASSUME NEW v \in Validators, Upsert(v)
      PROVE  Evidenced'
  <2>1. /\ want[v] # "smoke" => /\ proven' = proven \cup {read[v].of}
                                /\ read[v] # None /\ Releasable(read[v].of)
        /\ want[v] = "smoke" => proven' = proven
        /\ registry'[Model] = want[v]
    BY <1>2 DEF Upsert, Models
  <2>2. /\ \A b \in proven' : Releasable(b)
        /\ registry'[Model] \notin {None, "smoke"} => proven' # {}
        /\ proven # {} => proven' # {}
    BY <2>1
  <2> QED BY <1>2, <2>2 DEF Upsert, approvalVars, rolloutVars
<1>3. ASSUME NEW t \in Threads, AnswerOnly(t)
      PROVE  Evidenced'
  BY <1>3 DEF AnswerOnly, Answer, Forget, fileVars, approvalVars, rolloutVars
<1>4. ASSUME NEW a \in Approvers, CheckRow(a)
      PROVE  Evidenced'
  BY <1>4 DEF CheckRow, packageVars, fileVars, checkVars, registryVars, rolloutVars
<1>5. ASSUME NEW a \in Approvers, RecordApproval(a)
      PROVE  Evidenced'
  BY <1>5 DEF RecordApproval, packageVars, fileVars, checkVars, registryVars, rolloutVars
<1>6. ASSUME NEW a \in Approvers, ApprovalFails(a)
      PROVE  Evidenced'
  BY <1>6 DEF ApprovalFails, packageVars, fileVars, checkVars, registryVars, rolloutVars
<1>7. ASSUME NEW d \in Deployers, ReadRegistry(d)
      PROVE  Evidenced'
  BY <1>7 DEF ReadRegistry, packageVars, fileVars, checkVars, registryVars, approvalVars
<1>8. ASSUME NEW d \in Deployers, FindApproval(d)
      PROVE  Evidenced'
  <2>1. PICK row \in Newest :
            /\ row.model = Model /\ row.status = "approved"
            /\ deployer' = [deployer EXCEPT
                  ![d].at = IF deployer[d].rollout.env = "production" THEN "target" ELSE "insert",
                  ![d].rollout.proven = row.proven]
    BY <1>8 DEF FindApproval
  <2>2. Founded(row.proven)
    BY <2>1 DEF Newest
  <2>3. /\ \A e \in Deployers \ {d} : deployer'[e] = deployer[e]
        /\ deployer'[d].rollout.proven = row.proven
    BY <2>1
  <2>4. \A e \in Deployers :
            deployer'[e].at \in {"target", "insert"} /\ deployer'[e].rollout.env # "development"
            => Founded(deployer'[e].rollout.proven)
    BY <2>2, <2>3
  <2>5. UNCHANGED <<proven, registry, approvals, approver, rollouts>>
    BY <1>8 DEF FindApproval, registryVars, approvalVars
  <2> QED BY <2>4, <2>5
<1>9. ASSUME NEW d \in Deployers, FindTarget(d)
      PROVE  Evidenced'
  BY <1>9 DEF FindTarget, packageVars, fileVars, checkVars, registryVars, approvalVars
<1>10. ASSUME NEW d \in Deployers, RecordRollout(d)
      PROVE  Evidenced'
  BY <1>10 DEF RecordRollout, packageVars, fileVars, checkVars, registryVars, approvalVars
<1>11. ASSUME NEW d \in Deployers, RolloutRefused(d)
      PROVE  Evidenced'
  BY <1>11 DEF RolloutRefused, packageVars, fileVars, checkVars, registryVars, approvalVars
<1>12. ASSUME NEW p \in Processes, Dies(p)
      PROVE  Evidenced'
  BY <1>12 DEF Dies, ProcessDies, Forget, fileVars, approvalVars, rolloutVars
<1>13. CASE UNCHANGED <<registryVars, approvalVars, rolloutVars>>
  BY <1>13 DEF registryVars, approvalVars, rolloutVars
<1> QED BY <1>1, <1>2, <1>3, <1>4, <1>5, <1>6, <1>7, <1>8, <1>9, <1>10, <1>11, <1>12, <1>13
       DEF Next, vars, registryVars, approvalVars, rolloutVars

\* A lone creator finds what it has written; its card has the digest of its build.
LEMMA AloneStep ==
  ASSUME TypeOK, InHand, Alone, InPlace, OnePiece, [Next]_vars
  PROVE  InPlace' /\ OnePiece'
<1> USE PackageAssumption, ReleaseAssumption
       DEF PackageAssumption, ReleaseAssumption, TypeOK, PackageTypeOK, Threads,
           InHand, Alone, InPlace, OnePiece, Card, CheckPCs, PCs
<1>1. ASSUME NEW c \in Creators, NEW b \in Builds, Create(c, b)
      PROVE  InPlace' /\ OnePiece'
  BY <1>1 DEF Create, Go, fileVars, checkVars
<1>2. ASSUME NEW c \in Creators, CopyModel(c)
      PROVE  InPlace' /\ OnePiece'
  BY <1>2 DEF CopyModel, Go, checkVars
<1>3. ASSUME NEW c \in Creators, HashModel(c)
      PROVE  InPlace' /\ OnePiece'
  <2>1. CASE Stat(c, "stat", "read")
    BY <1>3, <2>1 DEF Stat, Go, fileVars
  <2>2. CASE ReadAll(c, "read", "labels")
    BY <1>3, <2>2 DEF ReadAll, Go, fileVars
  <2> QED BY <1>3, <2>1, <2>2 DEF HashModel
<1>4. ASSUME NEW c \in Creators, WriteLabels(c)
      PROVE  InPlace' /\ OnePiece'
  BY <1>4 DEF WriteLabels, Go, checkVars
<1>5. ASSUME NEW c \in Creators, WriteCard(c)
      PROVE  InPlace' /\ OnePiece'
  BY <1>5 DEF WriteCard, Go
<1>6. ASSUME NEW c \in Creators, CopyExamples(c)
      PROVE  InPlace' /\ OnePiece'
  BY <1>6 DEF CopyExamples, Go, checkVars
<1>7. ASSUME NEW c \in Creators, CreateFails(c)
      PROVE  InPlace' /\ OnePiece'
  BY <1>7 DEF CreateFails, fileVars, checkVars
<1>8. ASSUME NEW t \in Threads, CheckStat(t)
      PROVE  InPlace' /\ OnePiece'
  BY <1>8 DEF CheckStat, Stat, Go, fileVars
<1>9. ASSUME NEW t \in Threads, CheckRead(t)
      PROVE  InPlace' /\ OnePiece'
  BY <1>9 DEF CheckRead, ReadAll, Go, fileVars
<1>10. ASSUME NEW t \in Threads, FromCache(t)
      PROVE  InPlace' /\ OnePiece'
  BY <1>10 DEF FromCache, Go, fileVars
<1>11. ASSUME NEW t \in Threads, CheckCard(t)
      PROVE  InPlace' /\ OnePiece'
  BY <1>11 DEF CheckCard, Go, fileVars
<1>12. ASSUME NEW t \in Threads, CheckSidecars(t)
      PROVE  InPlace' /\ OnePiece'
  BY <1>12 DEF CheckSidecars, Go, fileVars, checkVars
<1>13. ASSUME NEW p \in Processes, Evict(p)
      PROVE  InPlace' /\ OnePiece'
  BY <1>13 DEF Evict, fileVars, checkVars
<1>14. ASSUME NEW v \in Validators, Register(v)
      PROVE  InPlace' /\ OnePiece'
  <2>1. PICK stage \in Stages : Validate(v, stage # "smoke")
    BY <1>14 DEF Register
  <2>2. /\ UNCHANGED <<model, card, labels, build, stat, digest, read>>
        /\ v \notin Creators /\ \A u \in Threads \ {v} : pc'[u] = pc[u]
    BY <2>1 DEF Validate, fileVars, checkVars
  <2> QED BY <2>2
<1>15. ASSUME NEW v \in Validators, Upsert(v)
      PROVE  InPlace' /\ OnePiece'
  BY <1>15 DEF Upsert, Answer, Forget, fileVars, approvalVars, rolloutVars
<1>16. ASSUME NEW t \in Threads, AnswerOnly(t)
      PROVE  InPlace' /\ OnePiece'
  BY <1>16 DEF AnswerOnly, Answer, Forget, fileVars, approvalVars, rolloutVars
<1>17. ASSUME NEW p \in Processes, Dies(p)
      PROVE  InPlace' /\ OnePiece'
  BY <1>17 DEF Dies, ProcessDies, Forget, fileVars, approvalVars, rolloutVars
<1>18. CASE UNCHANGED packageVars
  BY <1>18 DEF packageVars, fileVars, checkVars
<1> QED BY <1>1, <1>2, <1>3, <1>4, <1>5, <1>6, <1>7, <1>8, <1>9, <1>10, <1>11, <1>12, <1>13,
           <1>14, <1>15, <1>16, <1>17, <1>18
       DEF Next, PackageStep, vars, CheckRow, RecordApproval, ApprovalFails, ReadRegistry,
           FindApproval, FindTarget, RecordRollout, RolloutRefused

\* The strengthened invariant, of which the theorems below are consequences.
THEOREM Inductive == Spec => []IInv
<1>1. Init => IInv
  <2> SUFFICES ASSUME Init PROVE IInv
    OBVIOUS
  <2> USE PackageAssumption, ReleaseAssumption
      DEF PackageAssumption, ReleaseAssumption, Init, PackageInit, Threads
  <2>1. PackageTypeOK
    <3>1. created \in 0 .. MaxCreates /\ broken \in 0 .. MaxFailures
      OBVIOUS
    <3> QED BY <3>1 DEF PackageTypeOK, PCs, CheckPCs, Card
  <2>2. ReleaseTypeOK
    BY DEF ReleaseTypeOK, Models, Environments, Approval, Rollout, Deployment, Nothing
  <2>3. InHand /\ Judged /\ InPlace /\ OnePiece
    BY DEF InHand, Judged, InPlace, OnePiece
  <2>4. Evidenced
    BY DEF Evidenced, DeliveredWasProven, Models, Nothing
  <2> QED BY <2>1, <2>2, <2>3, <2>4 DEF IInv, TypeOK, ReleaseTypeOK
<1>2. IInv /\ [Next]_vars => IInv'
  BY TypeStep, InHandStep, JudgedStep, EvidencedStep, AloneStep DEF IInv, Alone
<1> QED BY <1>1, <1>2, PTL DEF Spec

\* Every reachable state is well typed, for any number of everything.
THEOREM TypeCorrect == Spec => []TypeOK
BY Inductive, PTL DEF IInv

\* A rollout to staging or production follows an approval that was recorded after a
\* package with complete, real evidence had been accepted, however many packagings,
\* registrations, approvals and rollouts overlap, and whatever fails between them
\* (register_model, record_release_approval, create_deployment_rollout).
THEOREM RolloutsAreProven == Spec => []DeliveredWasProven
BY Inductive, PTL DEF IInv, Evidenced

\* With one creator, a packaging that reports success has put its own build on disk,
\* whatever the digest caches hold (create_model_package, sha256_file).
THEOREM LoneCreatorDelivers == Spec => [](Alone => CreatedIsDelivered)
<1>1. IInv => (Alone => CreatedIsDelivered)
  BY DEF IInv, InPlace, CreatedIsDelivered
<1> QED BY <1>1, Inductive, PTL

\* With one creator, a validation that accepts has judged the card of the file it saw
\* (validate_model_package).
THEOREM LoneCreatorIsConsistent == Spec => [](Alone => AcceptedIsConsistent)
<1>1. IInv => (Alone => AcceptedIsConsistent)
  BY DEF IInv, OnePiece, AcceptedIsConsistent, Accepts
<1> QED BY <1>1, Inductive, PTL
=============================================================================
