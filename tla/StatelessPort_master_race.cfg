CONSTANTS
  c0 = c0
  c1 = c1
  Cores = {c0, c1}
  Workloads <- BoundedWorkloads
  Overlap = TRUE
  MaxEventId = 2
  Backlog = 3
  MaxUpdates = 0
  MaxStreams = 1
SPECIFICATION Spec
CHECK_DEADLOCK FALSE
INVARIANT StartAssertHolds
