SPECIFICATION FairSpec
CONSTANTS
  MaxProc = 3
  FileLen = 2
  PipeSize = 2
  size_buf = 4
PROPERTY Ends
CHECK_DEADLOCK FALSE
