SPECIFICATION Spec
CHECK_DEADLOCK FALSE
CONSTANTS
  a = a
  b = b
  c = c
  Node = {a, b, c}
  Link <- Relay
  Sender = {a}
  MaxTime = 2
  MaxSave = 2
  MaxStop = 2
INVARIANTS
  TypeOK
  ClaimsAreHeldOrLost
  SavedIsKept
PROPERTIES
  ExitKeeps
  OwnMessageIsNew
