CONSTANTS
  Worker     = {w1, w2, w3}
  Machines   = 2
  Threads    = 3
  Troubles   = {"timeouts", "errors", "crashes"}
  MaxCrashes = 1
SPECIFICATION FairSpec
INVARIANTS ResultIsWhole AllOrNothing
PROPERTIES ServerEnds WorkersEnd Delivers
CHECK_DEADLOCK FALSE
