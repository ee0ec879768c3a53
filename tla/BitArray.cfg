SPECIFICATION Spec
CONSTANTS
  W = 4
  IndexBits = 5
  IntBits = 2
  Byte = 2
  Indices = {0, 1, 4, 9, 20, 30}
  Regions <- MCRegions
  Faulty = TRUE
INVARIANTS MemorySafe GainedWordsClear FindIsGood
PROPERTIES OneBitCallsAgree RegionsAreFromTop
CHECK_DEADLOCK FALSE
