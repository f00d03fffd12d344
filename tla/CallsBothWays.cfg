SPECIFICATION Spec
CONSTANTS
  Apps <- AllApps
  Users = {"ann"}
  Methods = {"GET", "POST"}
  Paths <- Asked
  Params = {":id"}
  Wildcards = {"*rest"}
  None = None
INVARIANTS
  EntryGuarded
  LoadedIsExtracted
  SameAnswers
