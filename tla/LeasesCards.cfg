\* Two nodes, a cap of one post, every card in the first round.
SPECIFICATION Spec
CONSTANTS
  NumSeats = 2
  Nodes <- TwoNodes
  SectorOf <- TwoSectorOf
  Rounds = 2
  PostCap = 1
  BlockRounds = 2
  BlockCost = 1
  AuctionCost = 1
  MaxBlocks = 2
  TorchedRounds = 3
  MaxInfamy = 3
  LegendFrom = 3
  StartingBalance = 2
  LedgerCost = 1
  GateFee = 1
  ShakedownCost = 1
  PressurePenalty = 2
  ScavengeCash = 1
  BossPayout = 1
  Stakes = {1}
  Prices = {1}
  Payments = {1}
  Levies = {2}
  Penalties = {1}
  Cards <- MCCards
  MaxDeclared = 2
ACTION_CONSTRAINT InBounds
INVARIANT CapRespected
