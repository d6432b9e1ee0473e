SPECIFICATION Spec
CONSTANTS
  Top = 6
  Values = {0, 1, 2, 3, 4, 5}
  CoreCounts = {1, 2, 3}
  NumStreams = 3
  Bursts = {0, 1, 3}
  Programs <- AllPrograms
CHECK_DEADLOCK FALSE
INVARIANTS
  AcceptedIffWellFormed
  SharesAddUp
  
  WorkloadSound
  
