SPECIFICATION Spec
CONSTANTS
  s1 = s1
  s2 = s2
  s3 = s3
  Services <- ThreeServices
  MaxSkew = 2
  MaxDrift = 1
  MaxCalls = 2
  MaxClock = 5
SYMMETRY Symmetry
INVARIANTS
  VerdictsExplained
CHECK_DEADLOCK FALSE
