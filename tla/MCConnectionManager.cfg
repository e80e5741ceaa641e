SPECIFICATION ChanSpec
CONSTANTS
  c1 = c1
  c2 = c2
  c3 = c3
  h1 = h1
  h2 = h2
  h3 = h3
  h4 = h4
  Callers <- ThreeCallers
  Pools <- TwoPools
  RailZero <- FirstPool
  Channels <- FourChannels
  MaxChannels = 2
  MaxOps = 1
  NoPool = 0
  CreateThrows = TRUE
  CompletionErrors = TRUE
SYMMETRY ChannelSymmetry
INVARIANTS
  ChanTypeOK
  LeaseExclusive
  FreeIsQuiet
  CapacityExact
  WaitsInOrder
