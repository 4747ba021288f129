SPECIFICATION FairSpec
CONSTANTS
  Threads = {t1, t2}
  Main = t1
  Streams = {"no stream", "console"}
  Thresholds = {0, 2}
  MaxLogged = 2
  Modules = {"zard", "lobby"}
  Letters = {"T", "W"}
  MaxRegistered = 1
INVARIANT
  WrittenInOrder
PROPERTIES
  ImplementsLogger
  DispatchedIsWritten
CHECK_DEADLOCK FALSE
