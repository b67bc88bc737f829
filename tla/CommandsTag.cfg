SPECIFICATION FairSpec
CONSTANTS
  MaxUnits = 6
  MaxRead = 3
  Cuts <- MCScriptCuts
  Names = {"a"}
  Bodies = {"x"}
  Tags = {"t"}
  Calls <- MCTagCalls
  MaxCalls = 2
  Reuse = TRUE
INVARIANTS FreshTagMeansInStep
