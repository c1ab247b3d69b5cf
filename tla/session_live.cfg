SPECIFICATION FairSpec
CONSTANTS
  MaxStreamId = 2
  Requests = 1
  Pushes = 1
  ClientResets = 0
  ServerResets = 1
  ClientMax = 4
  ServerMax = 4
  Terminators = {}
  Leavers = {"server"}
INVARIANTS
  OnlyResetOfUnannouncedFails
  CleanCloseIsComplete
PROPERTIES
  StreamsEnd
CHECK_DEADLOCK FALSE
