SPECIFICATION Spec
CHECK_DEADLOCK FALSE
CONSTANTS
  handler = handler
  x = x
  y = y
  NoRoom = NoRoom
  Thread = {handler, x, y}
  Ops <- Calls
  Racy = {x}
  RoomID = {r}
  AutoAccept = {TRUE, FALSE}
  MaxId = 3
  MaxFail = 1
  MaxExit = 1
INVARIANTS
  TypeOK
  IdentitiesDistinct
  ServicesMatch
  QueuesMatch
  PromisedIsKept
