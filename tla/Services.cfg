\* Three instances boot twice each at most; two matches; four sweeps; three seeds.
SPECIFICATION Spec
CONSTANTS
  Instances = {i1, i2, i3}
  Total = 2
  Dsns <- MCDsns
  AnyDsn <- MCAnyDsn
  MaxDeaths = 2
  Creators = {c1, c2}
  Loaders = {l1}
  Configs <- MCConfigs
  Rosters <- MCRosters
  MaxInt = 7
  MaxMatches = 2
  Dims <- MCDims
  Sweeps <- MCSweeps
  AnySweep <- MCAnySweep
  MaxFaults = 3
  MaxRuns = 4
  Seeds = 3
  Workers = 2
  Capacity = 2
  MaxTicks = 1
INVARIANTS
  AppliedInOrder MigratedInFull MatchesAsCreated
  SweptInFull BreakdownWithinOut SnapshotIsExact AnswersBySeed
PROPERTY EveryRunEnds
CHECK_DEADLOCK FALSE
