SPECIFICATION Spec
CONSTANTS
  p0 = p0
  p1 = p1
  Ports = {p0, p1}
  Programs <- SafetyPrograms
  MaxRuns = 3
  MaxRounds = 3
  LateStart = FALSE
INVARIANTS NodesAccounted AssertsHold ReportedOnce IdleLoopHasNothing
PROPERTIES RunsEndForAReason LoopTimes
CHECK_DEADLOCK FALSE
SYMMETRY PortSymmetry
