SPECIFICATION FairSpec
CONSTANTS
  Nodes = {n1, n2}
  Workers = {w1, w2}
  NodeOf <- MutualCalls
  Producers = {n2}
  Restarters = {n2}
  Outcomes = {TRUE, FALSE}
  Batch = 2
  MaxBlocks = 3
  MaxIndex = 2
  MaxRestarts = 1
  n1 = n1
  n2 = n2
  w1 = w1
  w2 = w2
  None = None
INVARIANTS
  TypeOK
  LinkedUnlessCrossed
  DiskLinked
  StateIsReplay
  SameTipSameState
PROPERTIES
  ImplementsReplica
  SyncTerminates
  
