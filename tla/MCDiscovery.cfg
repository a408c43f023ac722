CONSTANTS
  get = 1
  post = 2
  rest = 20
  gap = 21
  param = 22
  Module = {1, 2, 3}
  Name = {0, 1, 2, 3, 4}
  default = 0
  None = None
  Verb <- Verbs
  Nowhere = Nowhere
  Package <- MCPackage
  Parts <- MCParts
  Found <- MCFound
  Runtimes <- MCRuntimes
  MaxHops = 2
  MaxDepth = 3
  MaxEnriches = 2
SPECIFICATION DiscoverySpec
CHECK_DEADLOCK FALSE
INVARIANT EveryWayIsListed
INVARIANT ReportedRatherThanDropped
INVARIANT NothingIsForgotten
INVARIANT MatchesAreSound
