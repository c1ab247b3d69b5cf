SPECIFICATION AbrSpec
CONSTANTS
  Players = {"Proposed", "PANDA", "Conventional", "FESTIVE", "BOLA"}
  NumSegs = 6
  Seg = 2
  Target = 4
  NumRates = 3
  Rates <- Ladder
  W = 1
  Throughputs = {2, 6, 20}
  Durations = {0, 3, 8}
  Overheads = {0, 1}
  Garbage = {0, 9}
INVARIANTS
  AbrTypeOK
  BufferBounded
  PauseBounded
  RateOffered
PROPERTIES
  RiseIsBacked
CHECK_DEADLOCK FALSE
