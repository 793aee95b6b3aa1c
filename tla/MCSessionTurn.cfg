SPECIFICATION Spec
CONSTANTS
  Input = {i1}
  Waking = {i1}
  Replies <- MCReplies
  Strategies = {"Compaction", "Handoff"}
  RetryLimit = 2
  ContextLimit = 2
  MaxCalls = 2
  MaxSteps = 3
  MaxTurns = 2
  MaxTroubles = 1
INVARIANTS TypeOK TranscriptLegal
PROPERTIES NoFalseInterruption PrefixStable ContextKeepsWork EndIsInformed RequestsSaySomething
CHECK_DEADLOCK FALSE
