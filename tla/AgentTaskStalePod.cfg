CONSTANTS
  Tasks = {t1}
  Branches <- BothBranches
  Specs <- PlainOnly
  MaxIncarnations = 1
  FaultKinds <- NoFaults
  MaxFaults = 0
  MaxLag = 2
SPECIFICATION Spec
INVARIANTS PodDeletedIsTrue
CHECK_DEADLOCK FALSE
