SPECIFICATION FairSpec
CONSTANTS
  Callers = {c1, c2}
  IdModulus = 3
  ReplyIds = {2}
  Protocols = {"telnet", "direct", "compressed"}
  MaxSends = 4
  HandlerMayThrow = TRUE
INVARIANTS
  TypeOK
  WriteInFlight
  WireConservation
  ReportConservation
  SuccessIsOnWire
  IdGap
PROPERTY
  ImplementsOutbox
CHECK_DEADLOCK FALSE
