\* Two seats, three nodes, two rounds; no global cards (LeasesCards.cfg has them).
SPECIFICATION Spec
CONSTANTS
  NumSeats = 2
  Nodes <- MCNodes
  SectorOf <- MCSectorOf
  Rounds = 2
  PostCap = 2
  BlockRounds = 2
  BlockCost = 1
  AuctionCost = 1
  MaxBlocks = 2
  TorchedRounds = 3
  MaxInfamy = 3
  LegendFrom = 3
  StartingBalance = 2
  LedgerCost = 1
  GateFee = 1
  ShakedownCost = 1
  PressurePenalty = 2
  ScavengeCash = 1
  BossPayout = 1
  Stakes = {1}
  Prices = {1}
  Payments = {1}
  Levies = {2}
  Penalties = {1}
  Cards = {"none"}
  MaxDeclared = 2
INVARIANTS
  PostsAgree UpkeepSparesHealthyLeases FlagMatchesDebt
PROPERTY LeaseLostOnlyToDebt
