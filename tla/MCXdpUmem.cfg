SPECIFICATION Spec
CONSTANTS
  Chunks = {c1, c2, c3}
  Size = 2
  Wrap = 4
  Lines = 2
  MaxN = 3
  NULL = NULL
SYMMETRY Symmetry
INVARIANTS ChunkOnePlace SlabPartition
