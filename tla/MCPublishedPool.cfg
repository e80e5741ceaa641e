CONSTANTS
  k1 = k1
  k2 = k2
  k3 = k3
  NoEntry = NoEntry
  NoKey = NoKey
  Keys <- MCKeys
  Lengths <- MixedLengths
  Capacity = 4
SPECIFICATION PoolSpec
SYMMETRY KeySymmetry
INVARIANTS
  PoolTypeOK
  NoOverlap
  NoLeak
  UsedIsResidentBytes
  RoomWhileUniform
PROPERTY
  ValidUntilEvicted
  ImplementsRegion
