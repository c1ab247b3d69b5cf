SPECIFICATION Spec
CONSTANTS
  MaxStreamId = 3
  Requests = 2
  Pushes = 0
  ClientResets = 2
  ServerResets = 0
  ClientMax = 4
  ServerMax = 4
  Terminators = {}
  Leavers = {}
INVARIANTS
  SynQueueHoldsHeaders
CHECK_DEADLOCK FALSE
