SPECIFICATION FairSpec
CONSTANTS
  Players = {1, 2, 3}
  Nodes = {1, 2}
  Parties <- BringsBoth
  Elo <- RisingElo
  Required = 2
  Spreads = {150}
  Latency <- Equal
  BannedAt <- ThirdBanned
  Leavers = {1}
  MaxEntries = 1
  MaxTries = 1
  None = None
INVARIANTS
  TypeOK
  QueueStateAgrees
  LobbiesAreWholeParties
  NeverMatchedUnasked
  BannedEverywhereNeverMatched
PROPERTIES
  WaitingEnds
CHECK_DEADLOCK FALSE
