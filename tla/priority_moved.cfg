SPECIFICATION PrioritySpec
CONSTANTS
  NumStreams = 3
  MaxWeight = 2
  MaxLength = 1
  CycleWrap = 16
  Weights = {1}
  Exclusives = {FALSE}
  Parents = {0, 1, 2, 3}
  Lengths = {1}
  MaxActive = 3
  MaxIdle = 0
  Resubmits = {}
INVARIANT
  SameScale
CHECK_DEADLOCK FALSE
