SPECIFICATION Spec
CONSTANTS
  Streams = {1, 2}
  Lengths = {0, 5, 18, 76, 95}
  Buffers = {b1, b2, b3, b4}
  RingSize = 5
  Mtu = 54
  W = 4096
  ByteBase = 4
  RtxSize = 8
  InitTsns = {0, 7}
  MaxChunks = 9
  NULL = NULL
INVARIANTS PacketsWellFormed MessagesCarried BuffersAccounted RtxFindsChunk
CHECK_DEADLOCK FALSE
