CONSTANTS
  Clients = {c1}
  Inputs <- OneInput
  Internals = {}
  Deleters = {}
  Shutdowns = {s1}
  Discovery = Discovery
  Rebuild = Rebuild
  None = None
  Capacity = 1
  FaultLimit = 2
  Causes = {panic}
  MaxRunners = 2
  MaxFaults = 1
SPECIFICATION Spec
INVARIANTS ShutdownStopsRunners
CHECK_DEADLOCK FALSE
