CONSTANTS
  Tasks = {t1}
  Branches <- BothBranches
  Specs <- PlainOnly
  MaxIncarnations = 1
  FaultKinds <- CrashOnly
  MaxFaults = 1
  MaxLag = 2
SPECIFICATION FairSpec
PROPERTIES TimeoutEnforced
CHECK_DEADLOCK FALSE
