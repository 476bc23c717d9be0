SPECIFICATION Spec
CONSTANTS
  Names = {n1, n2}
  MaxRunners = 1
  MaxEvents = 2
  FaultKinds = {"create", "delete", "github", "vm", "crash", "drop", "again", "api", "list"}
  MaxFaults = 1
INVARIANTS TypeOK RowsKnown RowCap NoOrphanMachine AckMeansDoomed
PROPERTIES BusyIsSafe
CONSTRAINT Brief
CHECK_DEADLOCK FALSE
