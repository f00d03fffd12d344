SPECIFICATION FairSpec
CONSTANTS
  Officers = {"officer"}
  Handlers <- TwoHandlers
  Requests <- Two
  Users <- TwoUsers
  Subject = "ada"
  Tables <- RagTables
  OnForget <- RagForget
  MaxConvs = 3
  MaxFaults = 1
INVARIANTS
  SchemaReady
  MemoryBacked
PROPERTIES
  GdprComplete
  
CHECK_DEADLOCK FALSE
