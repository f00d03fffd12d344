SPECIFICATION FairSpec
CONSTANTS
  p1 = p1
  p2 = p2
  p3 = p3
  Procs <- TwoProcs
  N = 2
  MaxFaults = 2
INVARIANTS
  AppliedOnce
  InOrder
  ReadyMeansMigrated
PROPERTIES
  Converges
CHECK_DEADLOCK FALSE
