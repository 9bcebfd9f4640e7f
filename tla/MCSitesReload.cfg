SPECIFICATION Spec
CONSTANTS
  d1 = d1
  d2 = d2
  d3 = d3
  n1 = n1
  n2 = n2
  None = None
  Domain = {d1, d2}
  Base = {n1, n2}
  SiteName <- DistinctNames
  Type = {"wordpress"}
  Kind = {"create", "ssl"}
  Faults = {"acme"}
  MaxRequests = 2
  MaxInFlight = 1
  MaxRegens = 0
  MaxCrashes = 0
INVARIANT
  ReloadNeverBlocked
CHECK_DEADLOCK FALSE
