CONSTANTS
  Tasks = {t1}
  Branches <- BothBranches
  Specs <- PlainAndPooled
  MaxIncarnations = 1
  FaultKinds <- AllFaults
  MaxFaults = 1
  MaxLag = 3
SPECIFICATION Spec
INVARIANTS TypeOK StatusTruthful AtMostOneAgentRun MRNeedsOwnAgentRun
PROPERTIES RefinesLifecycle TerminalIsFinal
CHECK_DEADLOCK FALSE
