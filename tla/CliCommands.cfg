SPECIFICATION FairSpec
CONSTANTS
  Procs <- TwoProcs
  Sessions <- Meetings
  MaxSetbacks = 1
  Databases <- Bases
  Buckets <- Bins
  Sanitized <- Clean
  Environments <- Given1
  Clouds <- Panels
  Interval = 1
  SlowDown = 1
  Expiry = 2
  MaxSlow = 1
  PyProjects <- Texts
  Dir = "dir"
INVARIANTS
  ServesProvisioned
  FileSurvives
PROPERTIES
  PollsSpaced
  LinkTakesEffect
  LoginEnds
  RunsConverge
CHECK_DEADLOCK FALSE
