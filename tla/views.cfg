SPECIFICATION ViewsSpec
CONSTANTS
  None = None
  Me = "me"
  Others = {"other"}
  Requester = "other"
  Rights = {"edit", "assign", "reassign", "archive", "restore", "delete", "quotations", "upload"}
  Officer = FALSE
  Manager = FALSE
  Administrator = TRUE
  Quotes = {"q1", "q2"}
  MaxChanges = 2
  MaxActs = 2
  MaxReconnects = 0
  MaxFails = 1
INVARIANTS
  TypesOK
  PartsAgree
  QuietMeansCurrent
  ConversationSound
PROPERTIES
  ActsOnWhatWasSeen
CHECK_DEADLOCK FALSE
