SPECIFICATION FairSpec
CONSTANTS
  Calls = {c1, c2}
  Endpoints = 2
  MaxTyped = 4
  MaxServed = 1
INVARIANTS
  LinesKept
  OnlyOverlapHarms
PROPERTY
  LinesExecuted
CHECK_DEADLOCK FALSE
