SPECIFICATION Spec
CONSTANTS
  Ids = {1, 2}
  MaxWrites = 3
  MaxEpoch = 2
  MaxFaults = 2
  Faults = {"maintain", "reopen", "request", "restart", "revoke"}
  Edited = {1}
  Opens = FALSE
  None = None
INVARIANTS
  PublishedIsACut
  RevokedHoldsNothing
  NoBlindOverwrite
  AppliedIsKept
PROPERTIES
  NeverBackwards
  RefreshIsFresh
CHECK_DEADLOCK FALSE
