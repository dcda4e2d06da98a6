SPECIFICATION FairSpec
CONSTANTS
  b1 = b1
  b2 = b2
  g1 = g1
  g2 = g2
  Nodes = {b1, b2, g1}
  Pools <- MCLivePools
  Versions = {v1}
  None = None
  MaxFaults = 2
  MaxTries = 2
  MaxDeploys = 1
CHECK_DEADLOCK FALSE
PROPERTIES DeployEnds ServiceRecovers
