SPECIFICATION Spec
CONSTANTS
  Device = {1, 2, 3}
  Issuer = {1, 2}
  Browser = {}
  MaxOps = 2
  Name = {a}
  Contents <- OneContent
  Times = {1}
  Calls = {"Mkdir", "Unlink", "Rename"}
  None = None
INVARIANTS
  TreeShaped
  ImapIsWalk
  SameAppliedSameView
PROPERTIES
  ImplementsView
CHECK_DEADLOCK FALSE
