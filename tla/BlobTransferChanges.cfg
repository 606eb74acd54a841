SPECIFICATION Spec
CHECK_DEADLOCK FALSE
CONSTANTS
  a = a
  b = b
  c = c
  Node = {a, b}
  Conn <- Mutual
  Src <- SlotSrc
  Dst <- SlotDst
  Blob = {1, 2}
  Author <- AllByA
  MaxSize = 1
  MaxFail = 0
  MaxStop = 0
PROPERTIES
  ListedBlobNeverChanges
