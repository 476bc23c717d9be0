SPECIFICATION Spec
CONSTANTS
  Names = {n1, n2}
  MaxRunners = 2
  MinIdles = {2}
  MaxCreateAttempts = 2
  MaxPasses = 2
  FaultKinds = {"vm"}
  MaxFaults = 1
CONSTRAINT SlowPass
INVARIANTS SafeToRemove
CHECK_DEADLOCK FALSE
