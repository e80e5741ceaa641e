CONSTANTS
  Nodes <- Three
  Seeds <- MCSeeds
  MaxMasters = 2
  TTL = 3
  Hang = 5
  Points <- MCPoints
  KeyPos <- MCKeyPos
  Publishers <- LastNode
  Settings <- Vanishing
  MaxFaults = 1
SPECIFICATION Spec
PROPERTY
  PeersStay
