\* What a comment says of an accepted contract's destination.
SPECIFICATION Spec
CONSTANTS
  NumSeats = 2
  Nodes <- MCNodes
  TypeOf <- MCTypeOf
  SectorOf <- MCSectorOf
  Paths <- MCPaths
  Homes <- MCHomes
  Rounds = 3
  PostsOf <- MCPostsOf
  InfamyOf <- MCInfamyOf
  CargoNameFrom = 3
  ItemNameFrom = 6
  FearedFrom = 6
  LegendFrom = 9
  Skies <- SnatchSkies
  Eager = {1}
  Deeds <- IdleDeeds
  MaxSteps = 2
INVARIANT DestinationIsRumoured
CHECK_DEADLOCK FALSE
