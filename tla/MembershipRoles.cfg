SPECIFICATION Spec
CHECK_DEADLOCK FALSE
CONSTANTS
  a = a
  b = b
  c = c
  d = d
  Node = {a, b, c}
  Creator = a
  Name = {N}
  NoName = NoName
  Cmd = {"promote", "remove_peer", "name_room", "nick"}
  Racy = {a}
  MaxAdd = 1
  MaxCmd = 2
  MaxFail = 0
SYMMETRY Invited
INVARIANTS
  CausalOrder
  AdminsAreKnown
  NicksAgree
