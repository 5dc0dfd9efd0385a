SPECIFICATION Spec
CONSTANTS
  Nodes = {n1, n2}
  Workers = {w1, w2}
  NodeOf <- TwoCalls
  Producers = {n1, n2}
  Restarters = {}
  Outcomes = {TRUE}
  Batch = 5
  MaxBlocks = 4
  MaxIndex = 4
  MaxRestarts = 0
  n1 = n1
  n2 = n2
  w1 = w1
  w2 = w2
  None = None
INVARIANTS
  Linked
