CONSTANTS
  k1 = k1
  k2 = k2
  k3 = k3
  big = big
  c1 = c1
  c2 = c2
  o1 = o1
  o2 = o2
  NoKey = NoKey
  Keys <- MCKeys
  Oversized <- MCOversized
  Clients <- TwoClients
  Owners <- TwoOwners
  Readers <- MCReaders
  Batches <- OneOrTwo
  Ways = 2
  MaxSeq = 6
  MaxShared = 4
  Settings <- MCSettings
SPECIFICATION SlotSpec
SYMMETRY SlotSymmetry
INVARIANTS
  StableSlotsMatch
  BatchKept
  OneWayPerKey
  RemoteHitsRight
