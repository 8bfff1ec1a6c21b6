\* What run.go:302 says of the two files, when a full disk cuts the header's newline off.
SPECIFICATION Spec
CONSTANTS
  Instances = {i1, i2, i3}
  Total = 2
  Dsns <- MCDsns
  AnyDsn <- MCAnyDsn
  MaxDeaths = 2
  Creators = {c1, c2}
  Loaders = {l1}
  Configs <- MCConfigs
  Rosters <- MCRosters
  MaxInt = 7
  MaxMatches = 2
  Dims <- MCDims
  Sweeps <- MCSweeps
  AnySweep <- MCAnySweep
  MaxFaults = 3
  MaxRuns = 4
  Seeds = 3
  Workers = 2
  Capacity = 2
  MaxTicks = 1
INVARIANT BreakdownNeverAhead
CHECK_DEADLOCK FALSE
