SPECIFICATION Spec
CONSTANTS
  Handler = {h1, h2}
  Site = {s1}
  Type = {"file_backup"}
  MaxJobs = 1
  MaxRequests = 3
  MaxCrashes = 0
  Faults = {}
  None = None
INVARIANT
  RefusalIsTrue
CHECK_DEADLOCK FALSE
