SPECIFICATION Spec
CONSTANTS
  Accounts = {p1, p2, mint}
  System = {mint}
  Matches = {m1}
  Suspects = {}
  MVPs = {nobody}
  Rosters <- CoinRosters
  Amounts <- SignedAmounts
  Attached = {0, 1}
  Rewards = {3}
  Times = {0}
  Types = {"TRANSFER", "BET", "MATCH_START", "MATCH_ABORT", "MATCH_WITNESS", "NOTE", "TRIBUNAL_VERDICT"}
  Endowment <- BettorCoins
  Synced = FALSE
  TribunalQuorum = 15
  DodgeBan = 1
  TribunalBan = 3
  MaxIndex = 4
  MaxStake = 10
  NoTeam = NoTeam
  TeamA = TeamA
  TeamB = TeamB
  None = None
  p1 = p1
  p2 = p2
  p3 = p3
  mint = mint

  
PROPERTIES
  CoinsNeedMajority
  BetsOnlyReturned
CHECK_DEADLOCK FALSE
