CONSTANTS
  r1 = r1
  r2 = r2
  main = main
  work = work
  NoBranch = NoBranch
  Runs <- TwoRuns
  Branches = {main, work}
  Generated <- SameName
  TaskSpecs <- CloudTasks
  MaxAdvances = 1
  Repositories <- AllRepositories
  Projects <- SomeProjects
SPECIFICATION FairSpec
INVARIANTS TypeOK WorkSurvives OpenedWhereCloned
PROPERTIES BaseIsSafe PushedIsOffered RunEnds
CHECK_DEADLOCK FALSE
