SPECIFICATION Spec
CHECK_DEADLOCK FALSE
CONSTANTS
    Users <- MCUsers
    Null = Null
    LockTimeout = 3
    Requests = {m1}
    Sessions = {view1, view2}
    UserOf <- MCUserOf
    Managers = {manager}
    Officers = {officer, deputy}
    Administrators = {}
    WorkerRuns = TRUE
    ForceUnlockAccepted = FALSE
    Threshold = 1
    Drift <- OfficerAhead
    MaxDrift = 1
    MaxTime = 4
    AsgIds = {a1, a2, a3}
    officer = officer
    deputy = deputy
    manager = manager
    view1 = view1
    view2 = view2
INVARIANT LeaseHeld
PROPERTY AssigneeKept
