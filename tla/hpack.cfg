SPECIFICATION HpackSpec
CONSTANTS
  HeaderFields <- MCFields
  EntryRoom <- MCRoom
  StaticTable <- MCStatic
  Hash <- MCHash
  NeverIndexed <- MCNever
  Transient = {"p"}
  SeqWrap = 4
  Blocks <- MCBlocks
  DefaultLimit = 6
  DeflateLimits = {6, 4}
  Asks <- MCAsks
  MaxBlocks = 2
  MaxSettings = 2
INVARIANTS
  HpackTypeOK
  TablesSound
  MapMirrorsTable
  TablesAgree
PROPERTIES
  BlocksArrive
CHECK_DEADLOCK FALSE
