CONSTANTS
  a1 = a1
  a2 = a2
  b1 = b1
  b2 = b2
  c1 = c1
  c2 = c2
  t1 = t1
  t2 = t2
  NoEntry = NoEntry
  NoKey = NoKey
  Keys <- AllKeys
  Threads <- TwoThreads
  Lengths <- MCLengths
  SizeOf <- MCSizeOf
  Capacity = 4
  MaxBytes = 7
  Settings <- NoDisk
SPECIFICATION StoreSpec
INVARIANT
  NoDiskNoNonResident
