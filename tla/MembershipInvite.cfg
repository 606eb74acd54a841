SPECIFICATION Spec
CHECK_DEADLOCK FALSE
CONSTANTS
  a = a
  b = b
  c = c
  d = d
  Node = {a, b, c, d}
  Creator = a
  Name = {}
  NoName = NoName
  Cmd = {}
  Racy = {}
  MaxAdd = 2
  MaxCmd = 0
  MaxFail = 1
SYMMETRY Invited
INVARIANTS
  TypeOK
  PeersDistinct
  PeerListsAgree
