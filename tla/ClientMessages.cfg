SPECIFICATION Spec
CONSTANTS
  MaxSends = 2
  MaxOthers = 3
  Old = 2
  Known = {1}
  PageLimit = 1
  MaxResends = 1
  MaxReads = 1
  MaxFaults = 1
INVARIANTS
  PostedOnce
  OneAttemptPerSend
  FatesAreTrue
  HistoryHasNoGap
CHECK_DEADLOCK FALSE
