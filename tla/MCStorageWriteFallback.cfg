CONSTANTS
  k1 = k1
  k2 = k2
  k3 = k3
  k4 = k4
  c1 = c1
  c2 = c2
  NoEntry = NoEntry
  NoKey = NoKey
  NoPage = NoPage
  Keys <- MCKeys
  Lengths <- MCLengths
  SizeOf <- Sizes
  Capacity = 2
  Threads <- TwoThreads
  Batches <- MCBatches
  Settings <- FailedWrite
SPECIFICATION StorageSpec
INVARIANT
  ReportedIntact
