SPECIFICATION Spec
CONSTANTS
  MaxStreamId = 3
  Requests = 2
  Pushes = 1
  ClientResets = 1
  ServerResets = 0
  ClientMax = 0
  ServerMax = 1
  Terminators = {"server"}
  Leavers = {}
INVARIANTS
  TypeOK
  CountersExact
  IdsAnnounced
  RetainedWithinLimit
  SafeRetry
  QuietAgreement
  AboveGoawayUnprocessed
PROPERTIES
  NothingAfterEnd
CHECK_DEADLOCK FALSE
