CONSTANTS
    c = c
    v = v
    a = a
    d = d
    p = p
    q = q
    good = good
    loose = loose
    smoke = smoke
    model1 = model1
    model2 = model2
    None = None
    Builds = {good, loose, smoke}
    ReportsOf <- ThreeReports
    SignatureOf <- Signatures
    Creators = {c}
    Validators = {v}
    Processes = {p, q}
    Home <- Homes
    MaxCreates = 2
    MaxFailures = 1
    Model = model1
    Others = {model2}
    Registered = {}
    Stages = {"smoke", "candidate"}
    Approvers = {a}
    Deployers = {d}
    ApprovalLimit = 1
    MaxApprovals = 2
    MaxRollouts = 1
SPECIFICATION Spec
INVARIANTS AcceptedIsConsistent CreatedIsDelivered DeliveredWasProven
