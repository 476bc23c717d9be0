SPECIFICATION FairSpec
CONSTANTS
  Names = {n1}
  MaxRunners = 1
  MinIdles = {0}
  MaxCreateAttempts = 2
  MaxPasses = 1
  FaultKinds = {"delete", "github", "list", "crash", "lose"}
  MaxFaults = 1
PROPERTIES InterruptedRecovers ForgottenGoes
CHECK_DEADLOCK FALSE
