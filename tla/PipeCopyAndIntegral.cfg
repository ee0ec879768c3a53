CONSTANTS
  MaxLen        = 4
  Capacity      = 3
  Faulty        = TRUE
  MaxKills      = 2
  MaxThreads    = 3
  Length        = 6
  Step          = 2
  CreateMayFail = TRUE
SPECIFICATION SideBySide
INVARIANTS ReadsWhenAllIsThere SuccessMeansAllPrinted SumIsOnePassOnItsCPUs
PROPERTY DeliversWhatFits
CHECK_DEADLOCK FALSE
