SPECIFICATION FairSpec
CONSTANTS
  MaxUnits = 6
  MaxRead = 3
  Cuts <- MCScriptCuts
  Names = {"a"}
  Bodies = {"x"}
  Tags = {"t", "u"}
  Calls <- MCFewCalls
  MaxCalls = 2
  Reuse = TRUE
INVARIANTS OwnTagMeansInStep
PROPERTIES ReturnsUnlessOpen EndsOnceClosed
