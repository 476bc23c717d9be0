SPECIFICATION Spec
CONSTANTS
  Names = {n1, n2}
  MaxRunners = 1
  MinIdles = {0, 1}
  MaxCreateAttempts = 2
  MaxPasses = 1
  FaultKinds = {"create", "delete", "github", "list", "unauthorized", "vm", "crash", "lose"}
  MaxFaults = 1
CONSTRAINT SecondIsBrief
INVARIANTS TypeOK Exclusive RowCap
PROPERTIES NoOrphanMachine BusyIsSafe
CHECK_DEADLOCK FALSE
