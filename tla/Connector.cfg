SPECIFICATION ConnectorFairSpec
CONSTANTS
  Calls = {c1, c2}
  Endpoints = 4
INVARIANT
  IterationBounded
PROPERTIES
  ReportsAreTrue
  EachCallReports
CHECK_DEADLOCK FALSE
