SPECIFICATION SupSpec
CONSTANTS
  w1 = w1
  w2 = w2
  w3 = w3
  Workers <- ThreeWorkers
  Throwaway = TRUE
INVARIANT WorkersServeMigrated
CHECK_DEADLOCK FALSE
