CONSTANTS
  MaxBatch = 2
  Target = 2
  MaxAppends = 3
  MaxCrashes = 1
  MaxFaults = 0
  None = None
SPECIFICATION Spec
INVARIANT RecoveredAcceptsAppends
CHECK_DEADLOCK FALSE
