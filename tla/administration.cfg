SPECIFICATION AdministrationSpec
CONSTANTS
  None = None
  a1 = a1
  a2 = a2
  b1 = b1
  b2 = b2
  Clients = {"k1", "k2"}
  Projects = {"p1", "p2"}
  Sites = {"s1", "s2"}
  Existing = {"k1", "p1"}
  Names = {b1, b2}
  Callers = {a1, a2}
  Requests = {"q1"}
  Overlap = TRUE
  MaxCalls = 3
SYMMETRY Interchangeable
INVARIANTS
  TypesOK
  OrganizationSound
  RecordsDistinct
  ScreensAgree
PROPERTIES
  SavesWhatWasSeen
  StaleListsDoNoHarm
  SelectionKept
CHECK_DEADLOCK FALSE
