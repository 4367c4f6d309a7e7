SPECIFICATION ClientFair
CONSTANTS
  Max = 100
  Nodes = {n1, n2}
  NULL = NULL
  Signals = {1}
  Times = {1}
  RtoMin = 1
  RtoMax = 20
  MaxRetrans = 7
  Lags = {0, 1, 7, 45}
INVARIANTS RetransBounded ClientServed
PROPERTIES T1EarlyOnlyByLag GivesUp
CHECK_DEADLOCK FALSE
