\* What the GDD says a fallen crate stays bound to.
SPECIFICATION Spec
CONSTANTS
  NumSeats = 2
  Nodes <- MCNodes
  Pairs <- MCPairs
  Rounds = 3
  Deadlines = {2}
  Cooldowns = {1}
  MaxFights = 1
  LooseRounds = {}
INVARIANT DroppedKeepsItsPair
