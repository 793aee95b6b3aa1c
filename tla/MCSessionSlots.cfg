CONSTANTS
  Clients = {c1, c2}
  Inputs <- SomeInputs
  Internals = {}
  Deleters = {d1}
  Shutdowns = {}
  Discovery = Discovery
  Rebuild = Rebuild
  None = None
  Capacity = 1
  FaultLimit = 2
  Causes = {panic}
  MaxRunners = 3
  MaxFaults = 2
SPECIFICATION Spec
INVARIANTS SingleWriter DetachedIsQuiet ConfirmedOnce RetriesAreKnown
SYMMETRY AnyClient
CHECK_DEADLOCK FALSE
