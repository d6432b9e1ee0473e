SPECIFICATION Spec
CONSTANTS
  f1 = f1
  f2 = f2
  Handles = {f1, f2}
  Times = {1, 2, 3, 4, 5, 6}
  Size <- TwoFlows
  Aging = 2
  HandleEvery = 2
  MaxTime = 4
  MaxFaults = 2
CHECK_DEADLOCK FALSE
INVARIANTS
  TableSound
  NoFalseAlarm
  FaultsAreReported
  DropsAreLosses
