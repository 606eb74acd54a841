SPECIFICATION FairSpec
CHECK_DEADLOCK FALSE
CONSTANTS
  Base = 17
  MaxMsgSize = 20
  CompThreshold = 3
  BufSize = 8
  Blobs <- SomeBlobs
  SplitHeaders = FALSE
  MayBreak = TRUE
INVARIANTS
  TypeOK
  FramesArrive
  SuccessIsMutual
PROPERTIES
  DialoguesEnd
