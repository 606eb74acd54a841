SPECIFICATION FairSpec
CHECK_DEADLOCK FALSE
CONSTANTS
  a = a
  b = b
  c = c
  Node = {a, b, c}
  Conn <- Redial
  Src <- SlotSrc
  Dst <- SlotDst
  Blob = {1}
  Author <- AllByA
  MaxSize = 1
  MaxFail = 2
  MaxStop = 0
PROPERTIES
  MessagesGetThrough
