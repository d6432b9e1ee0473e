CONSTANTS
  c0 = c0
  c1 = c1
  Cores = {c0, c1}
  Workloads <- LiveWorkloads
  Overlap = FALSE
  MaxEventId = 1
  Backlog = 3
  MaxUpdates = 0
  MaxStreams = 1
SPECIFICATION FairSpec
CHECK_DEADLOCK FALSE
PROPERTIES
  
  StoppedCoresFallSilent
  ImplementsFairLifecycle
