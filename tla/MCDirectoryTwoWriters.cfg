CONSTANTS
  n1 = n1
  n2 = n2
  n3 = n3
  k1 = k1
  k2 = k2
  loc = loc
  writer = writer
  reader = reader
  NoReq = NoReq
  NoSock = NoSock
  Error = Error
  NoEntry = NoEntry
  Servers <- Three
  Callers <- MCCallers
  MaxSocks = 2
  MaxIdle = 1
  Points <- MCPoints
  KeyPos <- MCKeyPos
  Keys <- TwoKeys
  Locs <- MCLocs
  Replicas = 2
  Batches <- MCBatches
  Settings <- TwoWriters
SPECIFICATION DirectorySpec
INVARIANTS
  OwnersAgree
