CONSTANTS
  Writers  = {w1}
  Readers  = {r1}
  Proc     = {w1, r1}
  Faulty   = {}
  MaxKills = 0
  FileLen  = 2
  NoId     = NoId
  NoData   = NoData
SPECIFICATION FairSpec
PROPERTIES PairDelivers
CHECK_DEADLOCK FALSE
