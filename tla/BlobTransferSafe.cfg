SPECIFICATION Spec
CHECK_DEADLOCK FALSE
CONSTANTS
  a = a
  b = b
  c = c
  Node = {a, b, c}
  Conn <- Chain
  Src <- SlotSrc
  Dst <- SlotDst
  Blob = {1, 2}
  Author <- AllByA
  MaxSize = 1
  MaxFail = 1
  MaxStop = 1
INVARIANTS
  TypeOK
  WholeOrMissing
  AckMeansWhole
PROPERTIES
  ListedBlobNeverChanges
