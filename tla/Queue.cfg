CONSTANTS
  Runs     = {a, b}
  MaxProc  = 3
  Faulty   = {a}
  MaxKills = 2
  NoId     = NoId
SPECIFICATION FairSpec
INVARIANTS PrintedInOrder SuccessMeansAllPrinted AnswersBacked
PROPERTY Completes
CHECK_DEADLOCK FALSE
