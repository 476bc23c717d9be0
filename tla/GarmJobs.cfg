SPECIFICATION Spec
CONSTANTS
  Entities = {repo, org}
  Jobs = {j1}
  NoOne = NoOne
  MaxRunners = 1
  MaxEvents = 2
  MaxThreads = 2
  FaultKinds = {"again", "crash"}
  MaxFaults = 1
INVARIANTS TypeOK LockCovers
PROPERTIES OnlyStaleGoesBack
CONSTRAINT TwoAreBrief
SYMMETRY Sym
CHECK_DEADLOCK FALSE
