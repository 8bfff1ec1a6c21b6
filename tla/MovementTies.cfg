\* A tie in a seat's second fight of a step.
SPECIFICATION Spec
CONSTANTS
  NumSeats = 3
  Nodes <- MCNodes
  Edges <- MCEdges
  Weathers <- MCWeathers
  Permits = {1}
  Plans <- MCPlans
  Lucky = {2}
PROPERTY TiesRevert
CHECK_DEADLOCK FALSE
