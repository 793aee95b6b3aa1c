SPECIFICATION LiveSpec
CONSTANTS
  Ids = {1, 2}
  MaxWrites = 3
  MaxEpoch = 2
  MaxFaults = 1
  Faults = {"maintain", "reopen", "request", "restart", "revoke"}
  Edited = {}
  Opens = TRUE
  None = None
PROPERTIES
  Converges
CHECK_DEADLOCK FALSE
