SPECIFICATION FlowSpec
CONSTANTS
  MaxWindow = 5
  NumStreams = 1
  ConnSize = 2
  StreamSize = 3
  Body = 3
  MaxFrame = 2
  Modes = {TRUE, FALSE}
  Initials = {1, 4}
  Tuned = {0, 1}
  NewSizes = {5}
  Increments <- MCIncrements
  Changes = 2
  Cancels = 1
INVARIANTS
  FlowTypeOK
  CreditConserved
  OnlyLoweredStreamFails
  BackPressure
  NoLostWakeup
CHECK_DEADLOCK FALSE
