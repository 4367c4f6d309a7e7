SPECIFICATION Spec
CONSTANTS
  Threads = {t1, t2}
  Size = 3
  Widths = {1, 2}
  MaxDraws = 4
  MaxFaults = 1
  NULL = NULL
INVARIANTS ReadsInBuffer DrawsFresh
CHECK_DEADLOCK FALSE
