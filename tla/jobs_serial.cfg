CONSTANTS
    Instances = {a}
    Clients = {c1}
    Configs = {x}
    Persisted = x
    Payloads <- Persisting
    Experiments = {e1}
    ExperimentOf <- OneExperiment
    JobIds = {1, 2}
    Workers = 1
    MaxStarts <- StartTwice
    StoreMayFail = FALSE
    None = None
SPECIFICATION FairSpec
CHECK_DEADLOCK FALSE
INVARIANTS DuplicatesBounded QueuedIsCarried
PROPERTIES JobsSettle StartupRecoversOrphans
