SPECIFICATION Spec
CHECK_DEADLOCK FALSE
SYMMETRY AsgSymmetry
CONSTANTS
    Users <- MCUsers
    Null = Null
    LockTimeout = 2
    Requests = {m1}
    Sessions = {view1, view2}
    UserOf <- MCUserOf
    Managers = {manager}
    Officers = {officer, deputy}
    Administrators = {manager}
    WorkerRuns = TRUE
    ForceUnlockAccepted = FALSE
    Threshold = 1
    Drift <- NoDrift
    MaxDrift = 0
    MaxTime = 3
    AsgIds = {a1, a2}
    officer = officer
    deputy = deputy
    manager = manager
    view1 = view1
    view2 = view2
PROPERTY CompletedOnlyArchives
