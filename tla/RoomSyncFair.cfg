SPECIFICATION FairSpec
CHECK_DEADLOCK FALSE
CONSTANTS
  a = a
  b = b
  c = c
  NoThread = NoThread
  Node = {a, b}
  Conn <- OneWay
  Src <- SlotSrc
  Dst <- SlotDst
  Api <- ApiA
  Home <- ApiHome
  Stops = {a}
  SigOk = {TRUE, FALSE}
  MaxTime = 3
  MaxBatch = 2
  MaxBreak = 2
INVARIANTS
  NoDuplicates
PROPERTIES
  PendingIsDelivered
  QueuesGoOn
