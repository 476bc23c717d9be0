SPECIFICATION FairSpec
CONSTANTS
  Pools = {p1}
  Inst = {i1, i2, i3}
  PoolOf <- OnePool
  NoInst = NoInst
  Workers = {w1}
  MaxSpawned = 1
  Tags <- NoTags
  PoolTags <- Untagged
  Events <- PendingHooks
  ChanCap = 1
  MinIdle <- MinIdle1
  MaxRunners <- Max2
  FaultKinds = {"crash"}
  MaxFaults = 1
PROPERTY KeepsReady
