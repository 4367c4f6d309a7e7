SPECIFICATION StartFair
CONSTANTS
  Main = Main
  Cleaner = Cleaner
  NameLens = {10, 11}
  ForeignIndices = {47}
  FirstIndices = {48}
  MaxFaults = 1
  Callers = {"client", "server"}
  NULL = NULL
  NoIndex = NoIndex
INVARIANTS RequestsSound SecondPassRepairs ReadyOnOwnLink
PROPERTIES PathsReleaseSoundly SetupEnds
CHECK_DEADLOCK FALSE
