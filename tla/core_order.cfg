SPECIFICATION FairSpec
CONSTANTS
  Device = {1, 2, 3}
  Issuer = {1, 2}
  Browser = {}
  MaxOps = 2
  Name = {a}
  Contents <- OneContent
  Times = {1}
  Calls = {"Mkdir", "Create", "Overwrite", "Unlink"}
  None = None
INVARIANTS
  TypeOK
  LogWellFormed
  ImapIsWalk
  RootCurrent
  QueueSettled
  LocalNeverParks
  Convergence
PROPERTIES
  EventuallyConverged
CHECK_DEADLOCK FALSE
