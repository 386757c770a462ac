SPECIFICATION FairSpec
CONSTANT
  None = None
PROPERTIES
  DueRequestsAreAssigned
  EveryCallEnds
  EventsArrive
  ScreensSettle
CHECK_DEADLOCK FALSE
