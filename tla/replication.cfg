SPECIFICATION FairSpec
CONSTANTS
  Author = {1, 2, 3}
  MaxCounter = 4
  MaxAbove = 4
  Node = {1, 2}
  Peers <- OnePulls
  InitLog <- LogAtTwo
  InitBlobs <- BlobsAtTwo
  MaxOwn = 1
  Refused <- TwoRefusals
  Blob = {1, 2, 3, 4, 5}
  Size <- Uneven
  Needs <- TwoWrites
  Corrupt <- OneCorrupt
  Batch = 2
  BlobBatch = 2
  MaxPerSession = 4
  Limits <- Budgets
  Tofu = {1, 2}
  Version <- SameVersion
  MaxKey = 2
  MaxFaults = 1
INVARIANTS TypeOK SummarySound PullWhole NotBehindHoldsAll BudgetHeld
PROPERTIES PinKept  ImplementsExchange
