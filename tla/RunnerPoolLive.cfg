SPECIFICATION FairSpec
CONSTANTS
  Pools = {p1}
  Inst = {i1, i2}
  PoolOf <- OnePool
  NoInst = NoInst
  Workers = {w1}
  MaxSpawned = 1
  Tags <- NoTags
  PoolTags <- Untagged
  Events <- JobHooks
  ChanCap = 1
  MinIdle <- MinIdle1
  MaxRunners <- Max2
  FaultKinds = {"create", "prepare", "register", "start", "deregister", "delete", "save", "unstore", "crash", "sigterm", "late"}
  MaxFaults = 3
PROPERTIES KeepsWarm ShutsDown
