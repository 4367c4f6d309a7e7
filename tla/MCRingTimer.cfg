SPECIFICATION FairSpec
CONSTANTS
  Max = 3
  Nodes = {n1, n2, n3}
  NULL = NULL
  Signals = {1}
  Times <- MCTimes
INVARIANTS WheelConsistent
PROPERTIES FireTiming TimersFire
CHECK_DEADLOCK FALSE
