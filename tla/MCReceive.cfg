SPECIFICATION FairSpec
CONSTANTS
  Ids <- MCIds
  Dests <- MCDests
  AnyDest <- MCAnyDest
  Prefilled = {p1}
  Buffers = {b1, b2}
  RbSize = 1
  MaxSends = 2
  MaxFaults = 1
  NULL = NULL
INVARIANTS BuildersAsPredicted ChecksSound InOrderOnce
PROPERTIES GoodGetsThrough
CHECK_DEADLOCK FALSE
