CONSTANTS
  Tasks = {t1, t2}
  Pools = {p1}
  NoPool = NoPool
  PoolSpecs <- OneSlot
  Memberships <- Proper
  Stages <- OneStage
  Gaps <- SameSecond
  MaxSubmissions = 2
  StatusFields <- QueuedOnly
  FaultKinds <- NoFaults
  MaxFaults = 0
  MaxLag = 2
SPECIFICATION Spec
INVARIANTS MaxConcurrencyHeld
CHECK_DEADLOCK FALSE
