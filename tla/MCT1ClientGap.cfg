SPECIFICATION ClientSpec
CONSTANTS
  Max = 300
  Nodes = {n1, n2}
  NULL = NULL
  Signals = {1}
  Times = {1}
  RtoMin = 1
  RtoMax = 60
  MaxRetrans = 10
  Lags = {0, 1}
INVARIANT GapWithinRtoMax
CHECK_DEADLOCK FALSE
