CONSTANTS
  Tasks = {t1}
  Branches <- BothBranches
  Specs <- PooledAndRefused
  MaxIncarnations = 1
  FaultKinds <- Interventions
  MaxFaults = 1
  MaxLag = 1
SPECIFICATION FairSpec
PROPERTIES TaskTerminates DeletionCompletes PodReclaimed
CHECK_DEADLOCK FALSE
