SPECIFICATION FairSpec
CONSTANTS
  Author = {1, 2, 3}
  MaxCounter = 5
  MaxAbove = 1
  Node = {1, 2}
  Peers <- OnePulls
  InitLog <- LogAtTwo
  InitBlobs <- BlobsAtTwo
  MaxOwn = 0
  Refused <- TwoRefusals
  Blob = {1}
  Size <- OneByte
  Needs <- NoNeeds
  Corrupt <- Nothing
  Batch = 2
  BlobBatch = 2
  MaxPerSession = 8
  Limits <- Budgets
  Tofu = {1, 2}
  Version <- SameVersion
  MaxKey = 1
  MaxFaults = 0
PROPERTY OpsFlow
