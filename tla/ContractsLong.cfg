\* Five rounds, no fights: a second contract outlives the first, a third arrives.
SPECIFICATION Spec
CONSTANTS
  NumSeats = 2
  Nodes <- MeleeNodes
  Pairs <- MeleePairs
  Rounds = 5
  Deadlines = {2}
  Cooldowns = {1}
  MaxFights = 0
  LooseRounds = {2}
INVARIANTS
  IDsNameOneContract ContractsInOrder
