SPECIFICATION Spec
CONSTANTS
  Commands = 2
  MaxMessages = 2
  MaxFaults = 1
  PageLimit = 1
  FeedCap = 2
  None = None
INVARIANTS
  TakenInOrder
  CursorSkipsNothing
  ToldTheTruth
  RestMeansDelivered
PROPERTIES
  RevokedStaysOut
CHECK_DEADLOCK FALSE
