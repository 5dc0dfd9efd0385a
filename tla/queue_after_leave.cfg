SPECIFICATION Spec
CONSTANTS
  Players = {1, 2, 3}
  Nodes = {1, 2}
  Parties <- Solo
  Elo <- SameElo
  Required = 2
  Spreads = {150}
  Latency <- Near
  BannedAt <- NoBans
  Leavers = {1}
  MaxEntries = 1
  MaxTries = 1
  None = None
PROPERTIES
  MatchOnlyWhileQueued
CHECK_DEADLOCK FALSE
