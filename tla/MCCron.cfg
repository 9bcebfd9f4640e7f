SPECIFICATION Spec
CONSTANTS
  Handler = {h1, h2}
  Site = {s1}
  Type = {"command", "file_backup", "wp_cron"}
  MaxJobs = 2
  MaxRequests = 3
  MaxCrashes = 1
  Faults = {"sqlite", "disk"}
  None = None
SYMMETRY Handlers
INVARIANTS
  TypeOK
  FileFollowsRows
  OneRunAtATime
CHECK_DEADLOCK FALSE
