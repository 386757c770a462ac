SPECIFICATION ServicesSpec
CONSTANTS
  None = None
  a1 = a1
  a2 = a2
  b1 = b1
  b2 = b2
  Clients = {a1, a2, a3}
  Quotations = {1, 2}
  NoCall = None
  Kinds = {"create", "upload", "change_quotation", "delete_quotation",
           "delete_request", "request", "clarify", "attach", "claim"}
  MaxCalls = 4
SYMMETRY Interchangeable
INVARIANTS
  TypesOK
  RowsHaveTheirFiles
  OnlyKnownLeftovers
  KnownCircles
  EveryoneIsTold
PROPERTIES
  RecommendationStands
  NoticesLead
CHECK_DEADLOCK FALSE
