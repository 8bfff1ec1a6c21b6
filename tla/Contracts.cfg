\* Three seats, two Warehouses and a Border, melees, two fights to a round.
SPECIFICATION Spec
CONSTANTS
  NumSeats = 3
  Nodes <- MCNodes
  Pairs <- MCPairs
  Rounds = 2
  Deadlines = {1}
  Cooldowns = {1}
  MaxFights = 2
  LooseRounds = {}
INVARIANT ContractsInOrder
PROPERTY FightsKeepCargo
