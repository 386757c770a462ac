SPECIFICATION WorkersSpec
CONSTANTS
  Null = Null
  Requests = {1, 2, 3}
  Officers = {1, 2}
  Workers = {a1, a2}
  Threshold = 1
  MaxAssignments = 3
  ManualWork = FALSE
  RowLocking = TRUE
  StaffChanges = FALSE
  MaxTime = 1
  MaxFailures = 1
SYMMETRY Interchangeable
INVARIANTS
  ClaimStands
  WorkSpreadEvenly
CHECK_DEADLOCK FALSE
