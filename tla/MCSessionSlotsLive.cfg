CONSTANTS
  Clients = {c1}
  Inputs <- OneInput
  Internals = {i1}
  Deleters = {}
  Shutdowns = {s1}
  Discovery = Discovery
  Rebuild = Rebuild
  None = None
  Capacity = 1
  FaultLimit = 1
  Causes = {panic}
  MaxRunners = 2
  MaxFaults = 1
SPECIFICATION FairSpec
PROPERTIES EveryoneAnswered
CHECK_DEADLOCK FALSE
