CONSTANTS
  r1 = r1
  r2 = r2
  main = main
  work = work
  NoBranch = NoBranch
  Runs <- OneRun
  Branches = {main, work}
  Generated <- SameName
  TaskSpecs <- OllamaTasks
  MaxAdvances = 0
  Repositories <- AllRepositories
  Projects <- OneProject
SPECIFICATION FairSpec
PROPERTIES ModelPulled
CHECK_DEADLOCK FALSE
