\* A finished match with damaged projections; a quiet second round of three.
SPECIFICATION RepairSpec
CONSTANTS
  NumSeats = 2
  Rounds = 3
  Bots = {1}
  Quiet = {2}
  Rebuilders = {r1, r2}
  Drafts <- NoRedraft
  MaxRuns = 2
INVARIANT SuccessIsExact
PROPERTIES
  NeverHalfRebuilt EveryRebuildEnds
