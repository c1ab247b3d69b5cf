SPECIFICATION PrioritySpec
CONSTANTS
  NumStreams = 3
  MaxWeight = 2
  MaxLength = 0
  CycleWrap = 4
  Weights = {1, 2}
  Exclusives = {TRUE, FALSE}
  Parents = {0, 1, 2, 3}
  Lengths = {0}
  MaxActive = 2
  MaxIdle = 1
  Resubmits = {1}
INVARIANTS
  PriorityTypeOK
  TreeWellFormed
  QueuedWhenActive
  NoItemStuck
CHECK_DEADLOCK FALSE
