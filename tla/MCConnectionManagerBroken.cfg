SPECIFICATION ChanSpec
CONSTANTS
  c1 = c1
  c2 = c2
  c3 = c3
  h1 = h1
  h2 = h2
  h3 = h3
  h4 = h4
  Callers <- TwoCallers
  Pools <- TwoPools
  RailZero <- FirstPool
  Channels <- TwoChannels
  MaxChannels = 1
  MaxOps = 1
  NoPool = 0
  CreateThrows = FALSE
  CompletionErrors = TRUE
INVARIANT FreeIsRTS
