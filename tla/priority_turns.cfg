SPECIFICATION PriorityFairSpec
CONSTANTS
  NumStreams = 2
  MaxWeight = 2
  MaxLength = 1
  CycleWrap = 8
  Weights = {1, 2}
  Exclusives = {FALSE}
  Parents = {0}
  Lengths = {1}
  MaxActive = 2
  MaxIdle = 0
  Resubmits = {1, 2}
PROPERTIES
  EveryStreamHasTurns
CHECK_DEADLOCK FALSE
