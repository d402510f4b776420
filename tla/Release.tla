------------------------------ MODULE Release ------------------------------
(***************************************************************************)
(* From a model package to a rollout: the handlers register_model,         *)
(* record_release_approval and create_deployment_rollout of api.py and the *)
(* tables model_registry, release_approvals and deployment_rollouts of     *)
(* storage.py, over the package of ModelPackage.                           *)
(*                                                                         *)
(* One model id has the package; others may have a registry row and        *)
(* approvals.  Every call of the store is a transaction of its own.  Left  *)
(* out: audit rows, metrics, the texts of a decision, traffic, strategy.   *)
(***************************************************************************)
EXTENDS ModelPackage, Sequences, FiniteSets

CONSTANTS
    Model, Others,   \* the model id of the package, and other ids
    Registered,      \* those of them that have a registry row
    Stages,          \* stages a registration may ask for
    Approvers,       \* threads that record an approval
    Deployers,       \* threads that record a rollout
    ApprovalLimit,   \* newest approvals a rollout looks at, 500 in the code
    MaxApprovals,    \* bound: approvals recorded
    MaxRollouts      \* bound: rollouts told apart

ASSUME ReleaseAssumption ==
    /\ Model \notin Others /\ Registered \subseteq Others
    /\ Stages \subseteq {"smoke", "candidate", "staging", "production", "archived"}
    /\ None \notin Stages
    /\ ApprovalLimit \in Nat \ {0} /\ {MaxApprovals, MaxRollouts} \subseteq Nat

Models == {Model} \cup Others
Environments == {"development", "staging", "production"}

VARIABLES
    want,       \* the stage a validation is to register, or None
    registry,   \* the stage of each model id in model_registry, or None
    proven,     \* the builds whose package was accepted for a stage other than smoke
    approvals,  \* release_approvals, oldest first; with what was proven at that time
    approver,   \* what an approver is about to insert, or None
    deployer,   \* where a deployer is, and the rollout it works on
    rollouts    \* deployment_rollouts; with what was proven when the approval was recorded

registryVars == <<want, registry, proven>>
approvalVars == <<approvals, approver>>
rolloutVars == <<deployer, rollouts>>
vars == <<packageVars, registryVars, approvalVars, rolloutVars>>

Approval == [model : Models, status : {"approved", "other"}, proven : SUBSET Builds]
Rollout == [env : Environments, target : Models \cup {None}, proven : SUBSET Builds]
Deployment == [at : {"idle", "approvals", "target", "insert"}, rollout : Rollout]

TypeOK ==
    /\ PackageTypeOK
    /\ want \in [Validators -> Stages \cup {None}]
    /\ registry \in [Models -> Stages \cup {"candidate", None}]
    /\ proven \subseteq Builds
    /\ approvals \in Seq(Approval)
    /\ approver \in [Approvers -> Approval \cup {None}]
    /\ deployer \in [Deployers -> Deployment]
    /\ rollouts \subseteq Rollout

Nothing == [env |-> "development", target |-> None, proven |-> {}]

Init ==
    /\ PackageInit
    /\ want = [v \in Validators |-> None]
    /\ registry = [m \in Models |-> IF m \in Registered THEN "candidate" ELSE None]
    /\ proven = {}
    /\ approvals = <<>> /\ approver = [a \in Approvers |-> None]
    /\ deployer = [d \in Deployers |-> [at |-> "idle", rollout |-> Nothing]]
    /\ rollouts = {}

-----------------------------------------------------------------------------
(* register_model *)

\* Everything but smoke asks for strict_provenance.
Register(v) ==
    /\ \E stage \in Stages :
          /\ Validate(v, stage # "smoke")
          /\ want' = [want EXCEPT ![v] = stage]
    /\ UNCHANGED <<registry, proven, approvalVars, rolloutVars>>

\* upsert_model_registry_entry: one row per model id, the newest registration wins.
Upsert(v) ==
    /\ v \in Validators /\ pc[v] = "valid" /\ want[v] # None
    /\ registry' = [registry EXCEPT ![Model] = want[v]]
    /\ proven' = IF want[v] = "smoke" THEN proven ELSE proven \cup {read[v].of}
    /\ want' = [want EXCEPT ![v] = None]
    /\ Answer(v)
    /\ UNCHANGED <<approvalVars, rolloutVars>>

\* Of a packaging, or of a registration that is refused: not valid, other metrics
\* than those of the card, an error of the store.  (A validation that registers
\* nothing is no different.)
AnswerOnly(t) ==
    /\ Answer(t)
    /\ want' = [v \in Validators |-> IF v = t THEN None ELSE want[v]]
    /\ UNCHANGED <<registry, proven, approvalVars, rolloutVars>>

-----------------------------------------------------------------------------
(* record_release_approval *)

\* Mutant: a smoke model is approved like any other.
CheckRowOnly(a) ==
    /\ approver[a] = None /\ Len(approvals) < MaxApprovals
    /\ \E m \in Models, status \in {"approved", "other"} :
          /\ registry[m] # None
          /\ approver' = [approver EXCEPT ![a] = [model |-> m, status |-> status, proven |-> {}]]
    /\ UNCHANGED <<packageVars, registryVars, approvals, rolloutVars>>

\* The decision file is valid; the registry row is there, and not smoke if this
\* is to be an approval.
CheckRow(a) ==
    /\ approver[a] = None /\ Len(approvals) < MaxApprovals
    /\ \E m \in Models, status \in {"approved", "other"} :
          /\ registry[m] # None
          /\ status = "approved" => registry[m] # "smoke"
          /\ approver' = [approver EXCEPT ![a] = [model |-> m, status |-> status, proven |-> {}]]
    /\ UNCHANGED <<packageVars, registryVars, approvals, rolloutVars>>

RecordApproval(a) ==
    /\ approver[a] # None
    /\ approvals' = Append(approvals, [approver[a] EXCEPT !.proven = proven])
    /\ approver' = [approver EXCEPT ![a] = None]
    /\ UNCHANGED <<packageVars, registryVars, rolloutVars>>

-----------------------------------------------------------------------------
(* create_deployment_rollout of Model *)

Newest == {approvals[i] : i \in {j \in DOMAIN approvals : j + ApprovalLimit > Len(approvals)}}

\* Nothing is asked of a rollout to development; that to production has a target.
ReadRegistry(d) ==
    /\ deployer[d].at = "idle" /\ Cardinality(rollouts) < MaxRollouts
    /\ \E env \in Environments : \E target \in IF env = "production" THEN Models ELSE {None} :
          /\ env # "development" => registry[Model] \notin {None, "smoke"}
          /\ deployer' = [deployer EXCEPT ![d] =
                [at |-> IF env = "development" THEN "insert" ELSE "approvals",
                 rollout |-> [env |-> env, target |-> target, proven |-> {}]]]
    /\ UNCHANGED <<packageVars, registryVars, approvalVars, rollouts>>

\* An approval of the model id, whatever was packaged and registered since.
FindApproval(d) ==
    /\ deployer[d].at = "approvals"
    /\ \E row \in Newest :
          /\ row.model = Model /\ row.status = "approved"
          /\ deployer' = [deployer EXCEPT
                ![d].at = IF deployer[d].rollout.env = "production" THEN "target" ELSE "insert",
                ![d].rollout.proven = row.proven]
    /\ UNCHANGED <<packageVars, registryVars, approvalVars, rollouts>>

FindTarget(d) ==
    /\ deployer[d].at = "target"
    /\ registry[deployer[d].rollout.target] # None
    /\ deployer' = [deployer EXCEPT ![d].at = "insert"]
    /\ UNCHANGED <<packageVars, registryVars, approvalVars, rollouts>>

RecordRollout(d) ==
    /\ deployer[d].at = "insert"
    /\ rollouts' = rollouts \cup {deployer[d].rollout}
    /\ deployer' = [deployer EXCEPT ![d] = [at |-> "idle", rollout |-> Nothing]]
    /\ UNCHANGED <<packageVars, registryVars, approvalVars>>

\* 400, or a call of the store fails.
RolloutRefused(d) ==
    /\ deployer[d].at # "idle"
    /\ deployer' = [deployer EXCEPT ![d] = [at |-> "idle", rollout |-> Nothing]]
    /\ UNCHANGED <<packageVars, registryVars, approvalVars, rollouts>>

ApprovalFails(a) ==
    /\ approver[a] # None
    /\ approver' = [approver EXCEPT ![a] = None]
    /\ UNCHANGED <<packageVars, registryVars, approvals, rolloutVars>>

-----------------------------------------------------------------------------
\* The service dies with its requests; so may the process of a packaging.
Dies(p) ==
    /\ ProcessDies(p)
    /\ want' = [v \in Validators |-> IF Home[v] = p THEN None ELSE want[v]]
    /\ UNCHANGED <<registry, proven, approvalVars, rolloutVars>>

Next ==
    \/ PackageStep /\ UNCHANGED <<registryVars, approvalVars, rolloutVars>>
    \/ \E v \in Validators : Register(v) \/ Upsert(v)
    \/ \E t \in Threads : AnswerOnly(t)
    \/ \E a \in Approvers : CheckRow(a) \/ RecordApproval(a) \/ ApprovalFails(a)
    \/ \E d \in Deployers :
          ReadRegistry(d) \/ FindApproval(d) \/ FindTarget(d) \/ RecordRollout(d) \/ RolloutRefused(d)
    \/ \E p \in Processes : Dies(p)

Spec == Init /\ [][Next]_vars

-----------------------------------------------------------------------------
(* Properties *)

Releasable(b) ==
    /\ ReportsOf[b].profile = "production"
    /\ StrictIssues(CardOf(ReportsOf[b])) = {}

\* Registry, approvals and rollouts are checked in transactions of their own, while
\* packages are replaced and registered again: still, a rollout to staging or
\* production follows an approval that was recorded after a package with complete,
\* real evidence had been accepted for the model.
DeliveredWasProven ==
    \A r \in rollouts :
        r.env # "development" => r.proven # {} /\ \A b \in r.proven : Releasable(b)
=============================================================================
