SPECIFICATION Spec
CONSTANTS
  d1 = d1
  d2 = d2
  d3 = d3
  n1 = n1
  n2 = n2
  None = None
  Domain = {d1, d2, d3}
  Base = {n1, n2}
  SiteName <- CollidingNames
  Type = {"wordpress"}
  Kind = {"create", "pause", "enable"}
  Faults = {"deploy", "fpm", "acme", "sqlite"}
  MaxRequests = 4
  MaxInFlight = 3
  MaxRegens = 1
  MaxCrashes = 0
INVARIANTS
  DataIntact
  
  ReloadNeverBlocked
CHECK_DEADLOCK FALSE
