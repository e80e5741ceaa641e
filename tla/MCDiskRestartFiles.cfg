CONSTANTS
  k1 = k1
  k2 = k2
  k3 = k3
  NoKey = NoKey
  NoIndex = NoIndex
  Keys <- MCKeys
  SizeOf <- MCSizeOf
  MaxBytes = 2
  FlushEvery = 2
SPECIFICATION RestartSpec
INVARIANT
  FilesBounded
