SPECIFICATION Spec
CHECK_DEADLOCK FALSE
CONSTANTS
  a = a
  b = b
  c = c
  NoThread = NoThread
  Node = {a, b}
  Conn <- Redial
  Src <- SlotSrc
  Dst <- SlotDst
  Api <- ApiA
  Home <- ApiHome
  Stops = {}
  SigOk = {TRUE}
  MaxTime = 2
  MaxBatch = 2
  MaxBreak = 1
INVARIANTS
  NoDuplicates
