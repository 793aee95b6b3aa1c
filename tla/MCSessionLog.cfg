CONSTANTS
  MaxBatch = 2
  Target = 2
  MaxAppends = 4
  MaxCrashes = 1
  MaxFaults = 1
  None = None
SPECIFICATION Spec
INVARIANTS TypeOK AckedSurvive SnapshotsAreDerived RecoveryMatchesMemory CacheMatchesLog
PROPERTIES ImplementsCommitLog SealedGetCompressed
CHECK_DEADLOCK FALSE
