SPECIFICATION Spec
CONSTANTS
  MaxThreads = 3
  CPUInfos <- MCCPUInfos
  Length = 12
  Step = 5
  Faulty = TRUE
INVARIANTS EveryPartOnce FreedOnlyUnderSpare Spread
CHECK_DEADLOCK FALSE
