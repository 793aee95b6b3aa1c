SPECIFICATION Spec
CONSTANTS
  Kinds = {"workspace", "worker"}
  MaxReworks = 1
  MaxStops = 1
  MaxTurns = 2
  MaxResults = 1
  HandingIn = {"workspace"}
  PageLimit = 1
  FeedCap = 1
  MaxFaults = 1
INVARIANTS
  GoalGivenOnce
  WorkspaceStops
  JournalIsReplicated
  ResultsPrecedeTheEnd
  RestMeansDone
CHECK_DEADLOCK FALSE
