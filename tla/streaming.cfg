SPECIFICATION StreamingSpec
CONSTANTS
  MaxStreamId = 7
  Requests = 4
  Pushes = 3
  ClientResets = 0
  ServerResets = 0
  ClientMax = 100
  ServerMax = 100
  Terminators = {"client"}
  Leavers = {}
  Segments = 3
  Num = 1
  Others = 2
INVARIANTS
  NoFailure
  ResponseOutlivesPush
  NamesInOrder
  NothingLeft
PROPERTIES
  FetchesInOrder
CHECK_DEADLOCK FALSE
