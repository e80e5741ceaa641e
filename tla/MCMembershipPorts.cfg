CONSTANTS
  Nodes <- Three
  Seeds <- MCSeeds
  MaxMasters = 2
  TTL = 1
  Hang = 2
  Points <- MCPoints
  KeyPos <- MCKeyPos
  Publishers <- LastNode
  Settings <- Returning
  MaxFaults = 1
SPECIFICATION Spec
PROPERTY
  PortsConverge
