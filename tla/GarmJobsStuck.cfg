SPECIFICATION FairSpec
CONSTANTS
  Entities = {repo}
  Jobs = {j1}
  NoOne = NoOne
  MaxRunners = 1
  MaxEvents = 2
  MaxThreads = 1
  FaultKinds = {}
  MaxFaults = 0
PROPERTIES KnownConsumed
CHECK_DEADLOCK FALSE
