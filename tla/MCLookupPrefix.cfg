CONSTANTS
  t1 = t1
  t2 = t2
  Threads <- TwoThreads
  MaxPages = 2
  PrimedTTL = 1
  PrimedCap = 1
  MaxCall = 1
  Settings <- Prefixed
SPECIFICATION LookupSpec
INVARIANT
  ExistsComplete
