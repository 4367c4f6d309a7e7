SPECIFICATION Spec
CONSTANTS
  Size = 2
  Threads = {t1, t2, t3}
  Items = {a, b}
  NULL = NULL
  MaxPos = 3
SYMMETRY Symmetry
INVARIANTS RingInvariant CellOwnership ReadIntactUntilLapped
PROPERTIES AnswersJustified FifoRefinement
