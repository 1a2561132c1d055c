SPECIFICATION Spec
CONSTANTS
  Unknown = Unknown
  Uncapped = 1000
  Conserving = 1
  Node = {1, 2}
  Author = {1, 2, 3}
  Peers <- PeersOf
  InitHeld <- HeldAtStart
  MaxWrites <- WritesOf
  Hosts <- HostsOf
  Stated <- Detected
  Limit <- Thresholds
  Enabled = TRUE
  Charges = {2, 20, 40, 41}
  Lows = {1, 20}
INVARIANTS LadderOrdered UnknownNeverNarrows
PROPERTIES Announced WritesReturn Arrives ContentArrives
