SPECIFICATION Spec
CONSTANTS
  Nodes = {n1, n2}
  Workers = {}
  NodeOf <- NoCall
  Producers = {n1, n2}
  Restarters = {n1}
  Outcomes = {TRUE, FALSE}
  Batch = 5
  MaxBlocks = 4
  MaxIndex = 4
  MaxRestarts = 1
  n1 = n1
  n2 = n2
  w1 = w1
  w2 = w2
  None = None
PROPERTIES
  RestartKeepsChain
