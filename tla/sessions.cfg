CONSTANTS
    a = a
    b = b
    c1 = c1
    c2 = c2
    o1 = o1
    o2 = o2
    admin = admin
    host = host
    Instances = {a, b}
    Clients = {c1, c2}
    HostOf <- OneHost
    Operators = {o1, o2}
    Users = {admin}
    Admin = admin
    Tokens = {1}
    MaxFailures = 1
    MaxChanges = 2
    MaxStarts = 1
    StoreMayFail = TRUE
SPECIFICATION Spec
INVARIANTS AttemptsBounded NoOldSession BootstrapAgrees
SYMMETRY Alike
CHECK_DEADLOCK FALSE
