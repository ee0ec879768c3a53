CONSTANTS
  Writers  = {w1, w2}
  Readers  = {r1}
  Proc     = {w1, w2, r1}
  Faulty   = {w1, r1}
  MaxKills = 1
  FileLen  = 2
  NoId     = NoId
  NoData   = NoData
SPECIFICATION FairSpec
INVARIANTS WriterSuccessMeansDelivered
PROPERTIES ImplementsFileCopy ConnectedWriterEnds ReaderEnds
CHECK_DEADLOCK FALSE
