SPECIFICATION Spec
CONSTANTS
  Pools = {p1}
  Inst = {i1, i2}
  PoolOf <- OnePool
  NoInst = NoInst
  Workers = {w1, w2}
  MaxSpawned = 2
  Tags <- NoTags
  PoolTags <- Untagged
  Events <- PendingHooks
  ChanCap = 1
  MinIdle <- MinIdle0
  MaxRunners <- Max1
  FaultKinds = {}
  MaxFaults = 0
INVARIANT HardCap
