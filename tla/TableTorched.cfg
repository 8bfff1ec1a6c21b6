\* A post staked or renewed by a bot in the round that Torched strikes its sector.
SPECIFICATION MCSpec
CONSTANTS
  NumSeats = 2
  Nodes <- MCNodes
  TypeOf <- MCTypeOf
  SectorOf <- MCSectorOf
  Sectors = {1, 2}
  Paths <- MCPaths
  Homes <- MCHomes
  Rounds = 3
  FirstEvent = 1
  FirstIncident = 1
  EventPools <- MCEventPools
  IncidentPools <- MCIncidentPools
  CategoryOf <- MCCategoryOf
  EventQuota <- MCEventQuota
  IncidentQuota <- MCIncidentQuota
  SealCount = 2
  BaseSteps = 3
  SinkholeLife = 3
  Longest = 4
  Permits = {}
  Setbacks <- MCSetbacks
  WatchNodes = {1, 2, 3, 4, 5}
  WatchTypeOf <- LineTypes
  WatchSectorOf <- LineSectors
  WatchPaths <- Line
  WatchHomes <- TwoHomes
  WatchRounds = 2
  PostsOf <- OnePost
  InfamyOf <- OneFamous
  CargoNameFrom = 3
  ItemNameFrom = 6
  FearedFrom = 6
  LegendFrom = 9
  Skies <- TwoSkies
  Eager = {1}
  Deeds <- TwoDeeds
  MaxSteps = 2
  BotNodes = {1, 2, 3, 4, 5, 6}
  BotTypeOf <- TownTypes
  BotSectorOf <- TownSectors
  BotPaths <- Town
  BotRounds = 4
  PostCap = 2
  LedgerCost = 3
  LeaseCost = 3
  HandLimit = 3
  MaxBlocks = 4
  MostStake = 6
  Suppressed = {}
  MarketOf <- Stalls
  XOf <- TownX
  YOf <- TownY
  RateOf <- TownRates
  ShakedownCost = 4
  ItemPrice = 4
  GateFee = 1
  ComfortBand = 8
  PayOf <- Pay
  DeadlineOf <- Deadline
  PenaltyOf <- Penalty
  GainOf <- Gain
  LossOf <- Loss
  LoosePay = {10, 12}
  MaxInfamy = 10
  DriftRounds = 1
  BlockRounds = {1, 3}
  Starts <- Openings
  Weathers <- MCWeathers
  BotOffers <- TwoOffers
  LongestPlan = 1
  MostFights <- MCMostFights
  Takings = {4}
  Crates <- WonCrates
  Fires <- OneFire
PROPERTY BotPostsReachDecide
CHECK_DEADLOCK FALSE
