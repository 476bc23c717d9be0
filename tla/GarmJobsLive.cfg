SPECIFICATION FairSpec
CONSTANTS
  Entities = {repo}
  Jobs = {j1}
  NoOne = NoOne
  MaxRunners = 1
  MaxEvents = 2
  MaxThreads = 2
  FaultKinds = {"lose", "drop"}
  MaxFaults = 1
PROPERTIES StaleGoes
CHECK_DEADLOCK FALSE
