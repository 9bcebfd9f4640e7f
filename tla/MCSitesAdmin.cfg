SPECIFICATION Spec
CONSTANTS
  d1 = d1
  d2 = d2
  d3 = d3
  n1 = n1
  n2 = n2
  None = None
  Domain = {d1, d2}
  Base = {n1, n2}
  SiteName <- DistinctNames
  Type = {"wordpress"}
  Kind = {"create", "delete", "pause", "enable", "ssl", "unssl", "rename", "rewrite"}
  Faults = {"useradd", "deploy", "mariadb", "fpm", "nginx", "acme", "disk", "sqlite"}
  MaxRequests = 4
  MaxInFlight = 1
  MaxRegens = 0
  MaxCrashes = 1
INVARIANTS
  TypeOK
  
PROPERTY
  ImplementsRegistry
CHECK_DEADLOCK FALSE
