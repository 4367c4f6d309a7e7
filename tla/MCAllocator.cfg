SPECIFICATION AllocFair
CONSTANTS
  Size = 2
  Threads = {t1, t2, t3}
  Items = {0, 1}
  NULL = NULL
  Popper = t1
  MaxPos = 6
INVARIANTS OnePlace
PROPERTIES CallsReturn
