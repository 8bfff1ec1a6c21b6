\* A route declared through a Sinkhole.
SPECIFICATION Spec
CONSTANTS
  NumSeats = 3
  Nodes <- MCNodes
  Edges <- MCEdges
  Weathers <- MCWeathers
  Permits = {1}
  Plans <- MCPlans
  Lucky = {2}
PROPERTY SinkholesImpassable
CHECK_DEADLOCK FALSE
