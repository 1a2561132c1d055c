SPECIFICATION Spec
CONSTANTS
  Device = {1, 2}
  Issuer = {1, 2}
  Browser = {2}
  MaxOps = 3
  Name = {a}
  Contents <- TwoContents
  Times = {1, 2}
  Calls = {"Create", "Overwrite"}
  None = None
INVARIANTS
  NoTornFile
  RootCurrent
  QueueSettled
  Convergence
PROPERTIES
  NoResurrection
CHECK_DEADLOCK FALSE
