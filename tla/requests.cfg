SPECIFICATION FairSpec
CONSTANTS
  MessageTimeout = 2
  RttTimeout = 4
  MaxAge = 5
  MaxMessages = 3
  None = None
CHECK_DEADLOCK FALSE
INVARIANTS WaitsForTracked
PROPERTIES WaitsEnd EveryRequestIsForgotten
