SPECIFICATION Spec
CONSTANTS
  b1 = b1
  b2 = b2
  g1 = g1
  g2 = g2
  Nodes = {b1, g1}
  Pools <- MCSinglePools
  Versions = {v1, v2}
  None = None
  MaxFaults = 0
  MaxTries = 2
  MaxDeploys = 1
CHECK_DEADLOCK FALSE
INVARIANTS ZeroDowntime
