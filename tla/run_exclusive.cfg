SPECIFICATION FairSpec
CONSTANTS
    r1 = r1
    r2 = r2
    r3 = r3
    q1 = q1
    p1 = p1
    p2 = p2
    Calls = {r1, r3}
    Packagers = {}
    WithPackage = {r1, r3}
    Cancellable = {r1}
    Processes = {p1, p2}
    Home <- HomeOf
    HasPreflight = TRUE
    Crashes = FALSE
    StoreMayFail = FALSE
    FilesMayFail = FALSE
    Stubborn = FALSE
    None = None
INVARIANTS OneWriter TreesTerminated OnePiece FreshProducts
PROPERTIES CallsEnd LockComesFree
CHECK_DEADLOCK FALSE
