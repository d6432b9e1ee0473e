CONSTANTS
  c0 = c0
  c1 = c1
  Cores = {c0, c1}
  Workloads <- AllWorkloads
  Overlap = FALSE
  MaxEventId = 1
  Backlog = 3
  MaxUpdates = 1
  MaxStreams = 2
SPECIFICATION Spec
CHECK_DEADLOCK FALSE
INVARIANTS
  TypeOK
  IndInv
  FinishedIsDrained
  QuiescentAgreement
  PauseAssertsHold
PROPERTY ImplementsLifecycle
