CONSTANTS
  Writers  = {w1, w2}
  Readers  = {r1, r2}
  Proc     = {w1, w2, r1, r2}
  Faulty   = {}
  MaxKills = 1
  FileLen  = 1
  NoId     = NoId
  NoData   = NoData
SPECIFICATION Spec
INVARIANTS PageExclusive EndNeverBlocks NumProcExact SessionExclusive
SYMMETRY Symmetry
CHECK_DEADLOCK FALSE
