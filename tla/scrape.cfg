SPECIFICATION FairScrapeSpec
CONSTANTS
  k1 = k1
  k2 = k2
  v1 = v1
  v2 = v2
  Keys = {k1}
  Values = {v1, v2}
  BadKey = BadKey
  None = None
  Clients = {c1, c2}
  Maps <- MCMapsOfOne
  MaxReloads = 2
  MaxCalls = 2
  MaxBatch = 1
INVARIANTS ScrapeMatchesReplies ScrapeInv
CHECK_DEADLOCK FALSE
PROPERTIES ReplacedIsUnmapped
