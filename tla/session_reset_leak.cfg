SPECIFICATION FairSpec
CONSTANTS
  MaxStreamId = 1
  Requests = 1
  Pushes = 0
  ClientResets = 1
  ServerResets = 0
  ClientMax = 4
  ServerMax = 1
  Terminators = {}
  Leavers = {}
PROPERTIES
  ResetTakesEffect
CHECK_DEADLOCK FALSE
