SPECIFICATION Spec
CONSTANTS
  b1 = b1
  b2 = b2
  g1 = g1
  g2 = g2
  Nodes = {b1, g1, g2}
  Pools <- MCPools
  Versions = {v1, v2}
  None = None
  MaxFaults = 2
  MaxTries = 2
  MaxDeploys = 2
SYMMETRY Symmetry
VIEW SafetyView
CHECK_DEADLOCK FALSE
INVARIANTS TypeOK ReachableIsLoaded LiveServes LiveDataIsVerified LiveIsDeployed FleetInv
