SPECIFICATION Spec
CONSTANTS
  Nodes = {n1, n2, n3}
  Miners = {n1}
  Stakers = {n2, n3}
  Amount = 2
  PlayerCounts = {0, 2}
  MaxBlocks = 4
  MaxSyncs = 1
  n1 = n1
  n2 = n2
  n3 = n3
  None = None
INVARIANTS
  TypeOK
  SignersAreStakers
  WeightIsSignedStake
SYMMETRY Validators
CHECK_DEADLOCK FALSE
