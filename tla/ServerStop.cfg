SPECIFICATION FairSpec
CONSTANTS
  r1 = r1
  r2 = r2
  r3 = r3
  Reqs <- Two
  Protected <- First
  Timed <- First
  PoolSize = 1
INVARIANTS
  DrainedInTime
  AbandonsOnlyUnawaited
  NothingRefused
PROPERTIES
  SignalExits
  TimedAnswered
  Answered
