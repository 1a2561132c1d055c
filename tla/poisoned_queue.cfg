SPECIFICATION Spec
CONSTANTS
  Device = {1, 2, 3}
  Issuer = {1, 2}
  Browser = {}
  MaxOps = 2
  Name = {a}
  Contents <- OneContent
  Times = {1}
  Calls = {"Mkdir", "Rename"}
  None = None
INVARIANTS
  RootCurrent
CHECK_DEADLOCK FALSE
