SPECIFICATION FairSpec
CONSTANTS
  h = h
  t = t
  u = u
  Writers <- Three
  Handler = h
  Cap = 2
  MaxWrites = 2
INVARIANTS
  EndIsLast
  NoGaps
PROPERTIES
  WritersReleased
  StreamEnds
CHECK_DEADLOCK FALSE
