SPECIFICATION FairSpec
CONSTANTS
  IdModulus = 8
  MaxSends = 4
  MaxCommands = 5
INVARIANTS
  ReapedIsShut
  ChainOfReads
PROPERTIES
  ClosedComesToRest
  ImplementsConnection
CHECK_DEADLOCK FALSE
