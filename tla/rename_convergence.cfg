SPECIFICATION Spec
CONSTANTS
  Device = {1, 2}
  Issuer = {1, 2}
  Browser = {}
  MaxOps = 2
  Name = {a, b}
  Contents <- OneContent
  Times = {1}
  Calls = {"Mkdir", "Rename"}
  None = None
INVARIANTS
  Convergence
CHECK_DEADLOCK FALSE
