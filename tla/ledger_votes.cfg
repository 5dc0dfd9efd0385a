SPECIFICATION Spec
CONSTANTS
  Accounts = {p1, p2, p3}
  System = {}
  Matches = {m1}
  Suspects = {p1, p2}
  MVPs = {nobody}
  Rosters <- MatchRosters
  Amounts <- StakeAmounts
  Attached = {0}
  Rewards = {1}
  Times = {0}
  Types = {"STAKE_FUNDS", "MATCH_START", "MATCH_ABORT", "MATCH_WITNESS", "MATCH_PENALTY", "TRIBUNAL_VERDICT"}
  Endowment <- ValidatorCoins
  Synced = TRUE
  TribunalQuorum = 15
  DodgeBan = 1
  TribunalBan = 3
  MaxIndex = 5
  MaxStake = 10
  NoTeam = NoTeam
  TeamA = TeamA
  TeamB = TeamB
  None = None
  p1 = p1
  p2 = p2
  p3 = p3
  mint = mint
INVARIANTS
  TypeOK
  SessionsHaveVotes
  VotersInRoster
  NoUndecidedMajority
  SupplyBounded
PROPERTIES
  SlashOnlyOnVerdict
CHECK_DEADLOCK FALSE
