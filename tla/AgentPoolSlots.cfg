CONSTANTS
  Tasks = {t1, t2, t3}
  Pools = {p1}
  NoPool = NoPool
  PoolSpecs <- OneOrTwo
  Memberships <- Proper
  Stages <- OneStage
  Gaps <- DistinctSeconds
  MaxSubmissions = 4
  StatusFields <- NoFields
  FaultKinds <- ProcessFaults
  MaxFaults = 2
  MaxLag = 1
SYMMETRY Anyone
SPECIFICATION Spec
INVARIANTS NoOverbooking NoOvertaking
PROPERTIES RefinesQueue
CHECK_DEADLOCK FALSE
