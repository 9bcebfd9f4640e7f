CONSTANTS
  Callers = {c1, c2}
  Addresses = {a, b}
  MaxBanCalls = 2
  BanFaults = TRUE
  Ips = {i1}
  MaxTries = 2
  MaxRows = 2
  MaxJobs = 1
  MaxEvents = 3
  Editors = {e1, e2}
  MaxSvcEvents = 4
  Sustain = 1
  Resend = 2
  LogCap = 3
  MaxChanges = 3
  Worker = w
  Batches = {b1}
  Keeps = {0}
  Mirrors = {"off", "move"}
  MaxSeconds = 1
  MaxBackups = 2
  MaxDbEdits = 1
  Runners = {r1, r2}
  Uploads = {u}
  KeepFulls = 1
  MaxRuns = 3
  MaxWrites = 1
  MaxKills = 1
  CertSites = {s1, s2}
  Lifetime = 4
  RenewDays = 2
  MaxDays = 9
  MaxRefusals = 2
  MaxTears = 1
  MaxStops = 1
  Updaters = {u1, u2}
  Starters = {panel, cli}
  Upgrades = 2
  MaxBegun = 3
  MaxCrashes = 2
  MaxTicks = 1
  Senders = {q1, q2}
  ChunkCount = 2
  MaxSent = 7
  MaxCuts = 1
  Savers = {v1}
  Resetter = reset
  MaxSaves = 2
  MaxSlips = 1
  Rewriters = {h1}
  Reinstallers = {k1, k2}
  MaxRequests = 4
  MaxFaults = 2
SPECIFICATION SpecPanel
INVARIANTS
  PanelTypeOK
  OneWriter NoLostBan  RefusedConfUndone LoadIsSustained
  RowHasCopy  OneFileBackup FullSurvives
    BinaryRecoverable  KeysAgree
  TargetIntact RestartChangesNothing 
PROPERTIES
   GuardRestores LoadToldAgain 
CHECK_DEADLOCK FALSE
