CONSTANTS
  Tasks = {t1, t2}
  Pools = {p1}
  NoPool = NoPool
  PoolSpecs <- WithOrWithout
  Memberships <- ProperOrOutside
  Stages <- TwoStages
  Gaps <- SameSecond
  MaxSubmissions = 2
  StatusFields <- QueuedOnly
  FaultKinds <- UserEdits
  MaxFaults = 2
  MaxLag = 1
SYMMETRY Anyone
SPECIFICATION Spec
INVARIANTS TypeOK
PROPERTIES GrantsAreDue
CHECK_DEADLOCK FALSE
