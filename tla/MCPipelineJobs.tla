--------------------------- MODULE MCPipelineJobs ---------------------------
(* Instances of PipelineJobs for TLC. *)
EXTENDS PipelineJobsProofs, TLC

CONSTANT Persisted  \* the configuration whose requests ask for a run record

\* All configurations name one experiment.
OneExperiment == [cfg \in Configs |-> CHOOSE e \in Experiments : TRUE]

\* Every request asks for a run record, or only the requests for Persisted do.
Persisting == [config : Configs, persist : {TRUE}]
Mixed == {[config |-> cfg, persist |-> cfg = Persisted] : cfg \in Configs}

StartOnce == [i \in Instances |-> 1]
StartTwice == [i \in Instances |-> 2]
InstancesAlike == Permutations(Instances)
=============================================================================
