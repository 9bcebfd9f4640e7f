SPECIFICATION Spec
CONSTANTS
  Handler = {h1}
  Site = {s1, s2}
  Type = {"wp_cron"}
  MaxJobs = 1
  MaxRequests = 3
  MaxCrashes = 0
  Faults = {}
  None = None
INVARIANT
  BuiltinCronFollowsJobs
CHECK_DEADLOCK FALSE
