SPECIFICATION FairSpec
CONSTANTS
  Paths <- MCPaths
  Patterns <- MCPatterns
  Matches <- MCMatches
  Malformed <- MCMalformed
  Routes <- MCRoutes
  Guards <- MCGuards
  Vars = {"token", "account"}
  None = None
  MaxMoves = 4
INVARIANTS OneRouteVisible ActiveIsHash
PROPERTIES GuardsBlock RouteSettles
CHECK_DEADLOCK FALSE
