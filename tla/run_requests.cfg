SPECIFICATION Spec
CONSTANTS
    r1 = r1
    r2 = r2
    r3 = r3
    q1 = q1
    p1 = p1
    p2 = p2
    Calls = {r1, r2, q1}
    Packagers = {q1}
    WithPackage = {}
    Cancellable = {}
    Processes = {p1, p2}
    Home <- HomeOf
    HasPreflight = FALSE
    Crashes = FALSE
    StoreMayFail = FALSE
    FilesMayFail = FALSE
    Stubborn = FALSE
    None = None
SYMMETRY ThreadsAlike
INVARIANT TypeOK
PROPERTY RefusedOnlyWhileActive
CHECK_DEADLOCK FALSE
