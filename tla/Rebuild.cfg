\* A match from its lobby to its end, with rebuilds at any moment.
SPECIFICATION Spec
CONSTANTS
  NumSeats = 2
  Rounds = 2
  Bots = {}
  Quiet = {}
  Rebuilders = {r1, r2}
  Drafts <- OneRedraft
  MaxRuns = 2
SYMMETRY AnyRebuilder
INVARIANT
  CursorNeverAhead
PROPERTY SettledCommitIsExact
