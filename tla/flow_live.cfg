SPECIFICATION FlowFairSpec
CONSTANTS
  MaxWindow = 5
  NumStreams = 2
  ConnSize = 2
  StreamSize = 2
  Body = 2
  MaxFrame = 2
  Modes = {TRUE, FALSE}
  Initials = {1}
  Tuned = {0}
  NewSizes = {1}
  Increments <- MCIncrements
  Changes = 1
  Cancels = 0
PROPERTIES
  EveryResponseEnds
CHECK_DEADLOCK FALSE
