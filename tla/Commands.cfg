SPECIFICATION FairSpec
CONSTANTS
  MaxUnits = 6
  MaxRead = 3
  Cuts <- MCCuts
  Names = {"a", "b"}
  Bodies = {"x"}
  Tags = {"t"}
  Calls <- MCCalls
  MaxCalls = 2
  Reuse = FALSE
INVARIANTS TypeOK
PROPERTIES StoreSpec Returns
