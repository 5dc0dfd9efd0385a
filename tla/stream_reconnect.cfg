SPECIFICATION Spec
CONSTANTS
  Nodes = {n1, n2}
  Addresses = {ip1, ip2, ip3}
  AddressOf <- TwoAddresses
  Broadcasts = {ip2}
  Streams = {1, 2, 3}
  Dialers = {n1, n2}
  Senders = {}
  Stoppers = {}
  Breaking = FALSE
  MaxPackets = 0
  QueueSize = 1
  EgressSize = 1
  n1 = n1
  n2 = n2
  ip1 = ip1
  ip2 = ip2
  ip3 = ip3
  None = None
PROPERTIES
  WorkerOutlivesOldStream
CHECK_DEADLOCK FALSE
