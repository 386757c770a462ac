SPECIFICATION Spec
CHECK_DEADLOCK FALSE
SYMMETRY AsgSymmetry
CONSTANTS
    Users <- MCUsers
    Null = Null
    LockTimeout = 2
    Requests = {m1}
    Sessions = {view1, view2}
    UserOf <- MCUserOf
    Managers = {manager}
    Officers = {officer, deputy}
    Administrators = {manager}
    WorkerRuns = TRUE
    ForceUnlockAccepted = TRUE
    Threshold = 1
    Drift <- OfficerAhead
    MaxDrift = 1
    MaxTime = 3
    AsgIds = {a1, a2, a3}
    officer = officer
    deputy = deputy
    manager = manager
    view1 = view1
    view2 = view2
INVARIANT TypeOK
INVARIANT AssignmentContextSound
INVARIANT StatusColumnsAgree
INVARIANT WorkHasAnAssignment
INVARIANT WorkHasAnOfficer
INVARIANT WorkerMeetsNoLock
PROPERTY LeaseImplemented
