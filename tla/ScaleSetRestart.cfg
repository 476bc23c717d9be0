SPECIFICATION Spec
CONSTANTS
  Names = {n1, n2}
  MaxRunners = 1
  MaxEvents = 2
  FaultKinds = {"crash"}
  MaxFaults = 1
PROPERTIES SparedAtStart
CONSTRAINT Brief
CHECK_DEADLOCK FALSE
