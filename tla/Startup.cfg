SPECIFICATION Spec
CONSTANTS
  MaxArguments = 4
  Numbers <- BoundaryNumbers
  UnsignedMax = 15
  ShortMax = 3
  DefaultPort = 2
  DefaultReap = 5
  Cores = {0, 4}
INVARIANTS ServesAsAsked EndsAsAsked ReadsBack
CHECK_DEADLOCK FALSE
