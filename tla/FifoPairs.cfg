CONSTANTS
  Writers  = {w1, w2}
  Readers  = {r1, r2}
  FileLen  = 2
  Capacity = 1
  Timeouts = TRUE
  Faulty   = {w1, r1}
  MaxKills = 1
  NoPid    = NoPid
SPECIFICATION FairSpec
INVARIANTS OneWriterEach StreamIsPrefix ShortCopyMeansWriterEnded
PROPERTIES ReaderEnds WriterEnds
CHECK_DEADLOCK FALSE
