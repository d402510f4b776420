SPECIFICATION Spec
CONSTANTS
    r1 = r1
    r2 = r2
    r3 = r3
    q1 = q1
    p1 = p1
    p2 = p2
    Calls = {r1, r3}
    Packagers = {}
    WithPackage = {r1}
    Cancellable = {r1}
    Processes = {p1, p2}
    Home <- HomeOf
    HasPreflight = FALSE
    Crashes = TRUE
    StoreMayFail = TRUE
    FilesMayFail = TRUE
    Stubborn = TRUE
    None = None
INVARIANTS IInv RunsExclude CancelledRunsDeliverNothing
PROPERTY ContractSpec
CHECK_DEADLOCK FALSE
