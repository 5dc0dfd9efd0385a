SPECIFICATION Spec
CONSTANTS
  Accounts = {p1, p2}
  System = {}
  Matches = {m1}
  Suspects = {}
  MVPs = {nobody}
  Rosters <- CoinRosters
  Amounts = {5}
  Attached = {0}
  Rewards = {3}
  Times = {0}
  Types = {"BET", "MATCH_START", "MATCH_WITNESS"}
  Endowment <- BettorCoins
  Synced = TRUE
  TribunalQuorum = 15
  DodgeBan = 1
  TribunalBan = 3
  MaxIndex = 4
  MaxStake = 10
  NoTeam = NoTeam
  TeamA = TeamA
  TeamB = TeamB
  None = None
  p1 = p1
  p2 = p2
  p3 = p3
  mint = mint
PROPERTIES
  BetsAreSettled
CHECK_DEADLOCK FALSE
