SPECIFICATION ProcSpec
CHECK_DEADLOCK FALSE
SYMMETRY MCSymmetry
CONSTANTS
    Users <- MCUsers
    Null = Null
    LockTimeout = 1
    Requests = {m1}
    Sessions = {}
    UserOf <- NoSession
    Managers = {manager}
    Officers = {officer, deputy}
    Administrators = {manager}
    WorkerRuns = TRUE
    ForceUnlockAccepted = FALSE
    Threshold = 0
    Drift <- NoDrift
    MaxDrift = 0
    MaxTime = 0
    AsgIds = {a1, a2}
    Clarifications = {k1}
    Quotations = {q1, q2}
    Calls = {call1, call2, call3}
    Caller <- MCCaller
    Requester <- MCRequester
    MaxFiles = 1
    engineer = engineer
    officer = officer
    deputy = deputy
    manager = manager
    call1 = call1
    call2 = call2
    call3 = call3
    m1 = m1
PROPERTY ResolvedReadOnly
