SPECIFICATION SupFairSpec
CONSTANTS
  w1 = w1
  w2 = w2
  w3 = w3
  Workers <- ThreeWorkers
  Throwaway = TRUE
INVARIANTS
  NoOrphans
PROPERTIES
  StopTogether
CHECK_DEADLOCK FALSE
