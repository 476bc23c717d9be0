SPECIFICATION Spec
CONSTANTS
  Pools = {p1}
  Inst = {i1, i2, i3, i4}
  PoolOf <- OnePool
  NoInst = NoInst
  Workers = {w1, w2}
  MaxSpawned = 1
  Tags <- NoTags
  PoolTags <- Untagged
  Events <- PendingHooks
  ChanCap = 1
  MinIdle <- MinIdle1
  MaxRunners <- Max2
  FaultKinds = {"create", "prepare", "register", "start", "deregister", "delete", "crash", "sigterm", "late"}
  MaxFaults = 1
SYMMETRY Sym
INVARIANTS TypeOK StoreMirrorsMap OvershootBound
PROPERTIES BornReady OnlyDestroySpoils NeverBelowMinIdle RecordOutlivesContainer LeaksOnlyThere
