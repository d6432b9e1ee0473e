SPECIFICATION Spec
CONSTANTS
  NThreads = 1
  Templates <- SmallTemplates
  MaxFlows = 3
  MaxTotal = 3
  FidMod = 2
  Batch = 2
  RingSize = 1
  MaxRetries = 1
  MaxDups = 1
  TcpAck = FALSE
CHECK_DEADLOCK FALSE
INVARIANTS
  LookupSound
  NatAssertsHold
  
PROPERTIES
  FlowsEnd
  InfoIsDelivered
