SPECIFICATION Spec
CONSTANTS
  Self = 1
  Peer = {2}
  Key = {11, 12}
  Script <- PeerOps
  Now = 1
  Policy = "commit"
  Stores <- Disks
  MaxOps = 3
  MaxChunks = 2
  MaxCrashes = 1
  None = None
INVARIANTS ReturnedSurvives StampHonest LiveWhole 
PROPERTY ParkedKeepsIts
