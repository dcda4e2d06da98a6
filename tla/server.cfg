SPECIFICATION Spec
CONSTANTS
  k1 = k1
  k2 = k2
  v1 = v1
  v2 = v2
  Keys = {k1, k2}
  Values = {v1, v2}
  BadKey = BadKey
  None = None
  Clients = {c1, c2}
  Maps <- MCMaps
  MaxReloads = 2
  MaxCalls = 3
  MaxBatch = 2
INVARIANTS TypeOK IInv NoUseAfterUnmap CountersAddUp
PROPERTIES ImplementsService
SYMMETRY Symmetry
CHECK_DEADLOCK FALSE
