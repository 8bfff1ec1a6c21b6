\* Three seats on four nodes, up to three steps each; a round ends.
SPECIFICATION Spec
CONSTANTS
  NumSeats = 3
  Nodes <- MCNodes
  Edges <- MCEdges
  Weathers <- MCWeathers
  Permits = {1}
  Plans <- MCPlans
  Lucky = {2}
INVARIANTS
  PathEndsHere StandsOnKnown OrdersFitWalks
PROPERTIES
  ClockKept ThrownOutAsRuled
CHECK_DEADLOCK FALSE
