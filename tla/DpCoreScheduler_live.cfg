SPECIFICATION FairSpec
CONSTANTS
  p0 = p0
  p1 = p1
  Ports = {p0}
  Programs <- LivePrograms
  MaxRuns = 2
  MaxRounds = 3
  LateStart = FALSE
PROPERTIES SchedulerDrains 
CHECK_DEADLOCK FALSE
