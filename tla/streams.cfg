SPECIFICATION FairSpec
CONSTANTS
  Nodes = {n1, n2}
  Addresses = {ip1, ip2, ip3}
  AddressOf <- TwoAddresses
  Broadcasts = {ip2}
  Streams = {1, 2}
  Dialers = {n1}
  Senders = {n1}
  Stoppers = {n1}
  Breaking = TRUE
  MaxPackets = 1
  QueueSize = 1
  EgressSize = 1
  n1 = n1
  n2 = n2
  ip1 = ip1
  ip2 = ip2
  ip3 = ip3
  None = None
INVARIANTS
  TypeOK
  EntriesHaveReaders
  CopiesBounded
PROPERTIES
  StoppedIsClean
CHECK_DEADLOCK FALSE
