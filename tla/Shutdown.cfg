SPECIFICATION ShutdownFairSpec
CONSTANTS
  PoolSize = 2
  MaxLogged = 2
INVARIANT OrderlyOnMain
PROPERTY ProgramEnds
CHECK_DEADLOCK FALSE
