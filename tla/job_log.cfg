CONSTANTS
    out = out
    err = err
    Stages = 2
    Streams = {out, err}
    Readers <- OneCommand
    MaxLines = 1
    MaxEntries = 2
    PageLimit = 2
    MaxPurges = 1
    Backend = "sqlite"
    StoreMayFail = TRUE
    Crashes = TRUE
    Job = Job
SPECIFICATION FairSpec
INVARIANTS TypeOK EachLineOnce LogComplete
PROPERTIES NothingMissed LinesAppear
CHECK_DEADLOCK FALSE
