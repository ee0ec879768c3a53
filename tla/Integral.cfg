CONSTANTS
  MaxThreads    = 3
  Length        = 6
  Step          = 2
  CreateMayFail = FALSE
SPECIFICATION IntegralSpec
INVARIANT SumIsOnePass
CHECK_DEADLOCK FALSE
