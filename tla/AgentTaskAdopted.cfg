CONSTANTS
  Tasks = {t1}
  Branches <- BothBranches
  Specs <- PlainOnly
  MaxIncarnations = 2
  FaultKinds <- NoFaults
  MaxFaults = 0
  MaxLag = 2
SPECIFICATION Spec
INVARIANTS MRNeedsOwnAgentRun
CHECK_DEADLOCK FALSE
