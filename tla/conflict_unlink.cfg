SPECIFICATION Spec
CONSTANTS
  Device = {1, 2}
  Issuer = {1, 2}
  Browser = {}
  MaxOps = 2
  Name = {a}
  Contents <- OneContent
  Times = {1}
  Calls = {"Mkdir", "Unlink"}
  None = None
INVARIANTS
  RemovalRemoves
CHECK_DEADLOCK FALSE
