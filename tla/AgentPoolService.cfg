CONSTANTS
  Tasks = {t1, t2}
  Pools = {p1}
  NoPool = NoPool
  PoolSpecs <- OneOrTwo
  Memberships <- Proper
  Stages <- TwoStages
  Gaps <- DistinctSeconds
  MaxSubmissions = 2
  StatusFields <- ActiveOnly
  FaultKinds <- ProcessFaults
  MaxFaults = 1
  MaxLag = 1
SPECIFICATION FairSpec
PROPERTIES EveryTaskServed StatusCatchesUp
CHECK_DEADLOCK FALSE
