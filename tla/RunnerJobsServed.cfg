SPECIFICATION JobSpec
CONSTANTS
  Pools = {p1}
  Inst = {i1, i2}
  PoolOf <- OnePool
  NoInst = NoInst
  Workers = {w1}
  MaxSpawned = 1
  Tags = {t1}
  PoolTags <- PoolTagged
  Events <- JobEvents
  ChanCap = 1
  MinIdle <- MinIdle1
  MaxRunners <- Max2
  FaultKinds = {"crash", "sigterm"}
  MaxFaults = 1
  Jobs = {j1, j2}
  JobTags <- JobsTagged
  RunUntagged <- OnlyTagged
PROPERTY JobsServed
