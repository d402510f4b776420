CONSTANTS
    Instances = {a, b}
    Clients = {c1}
    Configs = {x}
    Persisted = x
    Payloads <- Persisting
    Experiments = {e1}
    ExperimentOf <- OneExperiment
    JobIds = {1}
    Workers = 1
    MaxStarts <- StartOnce
    StoreMayFail = FALSE
    None = None
SPECIFICATION Spec
CHECK_DEADLOCK FALSE
INVARIANT OnlyOwnerExecutes
