CONSTANTS
  Runners = {r1}
  Uploads = {u}
  KeepFulls = 1
  MaxRuns = 2
  MaxWrites = 1
  MaxKills = 0
INIT InitFb
NEXT NextFb
INVARIANT IncrementalIsComplete
CHECK_DEADLOCK FALSE
