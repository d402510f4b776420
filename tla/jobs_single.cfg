CONSTANTS
    Instances = {a}
    Clients = {c1, c2}
    Configs = {x, y}
    Persisted = x
    Payloads <- Mixed
    Experiments = {e1}
    ExperimentOf <- OneExperiment
    JobIds = {1, 2}
    Workers = 2
    MaxStarts <- StartTwice
    StoreMayFail = TRUE
    None = None
SPECIFICATION Spec
CHECK_DEADLOCK FALSE
INVARIANTS TypeOK IInv ExecutedAtMostOnce CompletedHasRun
PROPERTIES TerminalIsFinal LifecycleSpec
