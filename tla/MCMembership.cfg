CONSTANTS
  Nodes <- Three
  Seeds <- MCSeeds
  MaxMasters = 2
  TTL = 1
  Hang = 2
  Points <- MCPoints
  KeyPos <- MCKeyPos
  Publishers <- LastNode
  Settings <- MCSettings
  MaxFaults = 1
SPECIFICATION Spec
PROPERTIES
  PromptPeersStay
  Converges
