SPECIFICATION FairSpec
CONSTANTS
  Clients = {c1, c2}
  Server = srv
  Buffers = {b1, b2}
  TxSize = 3
  MaxInits = 1
  MaxBuilds = 5
  MaxDups = 1
  MaxDamage = 1
  NULL = NULL
INVARIANTS AssociationOfOneClient EstablishedIsAccepted QueuedIntactUntilLapped StreamsMatch
 
CHECK_DEADLOCK FALSE
