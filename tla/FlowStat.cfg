SPECIFICATION Spec
CONSTANTS
  Ports = {"p1", "p2"}
  Users = {"u1", "u2"}
  Streams <- MCStreams
  Info <- MCInfo
  NumHw = 2
  Overlap = FALSE
  MaxPkts = 1
  MaxStarts = 1
CHECK_DEADLOCK FALSE
INVARIANTS
  MapsAgree
  
  
  
