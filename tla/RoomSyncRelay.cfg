SPECIFICATION Spec
CHECK_DEADLOCK FALSE
CONSTANTS
  a = a
  b = b
  c = c
  NoThread = NoThread
  Node = {a, b, c}
  Conn <- Relay
  Src <- SlotSrc
  Dst <- SlotDst
  Api <- ApiTwoAtA
  Home <- ApiHome
  Stops = {}
  SigOk = {TRUE, FALSE}
  MaxTime = 2
  MaxBatch = 2
  MaxBreak = 1
INVARIANTS
  TypeOK
  PrefixClosed
  SyncStateBacked
  AckMeansStored
  FreshMessageStored
  ForeignMessagesAreSigned
PROPERTIES
  ImplementsRoomLog
