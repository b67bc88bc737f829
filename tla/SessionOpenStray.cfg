SPECIFICATION Spec
CONSTANTS
  MaxUnits = 3
  MaxRead = 4
  Cuts <- MCStrayCuts
  MaxChallenges = 1
  MaxStray = 1
  Offers <- MCOffers
  Proofs = {"plain"}
  Requests <- MCFewRequests
INVARIANTS CleanUpgrade
PROPERTIES PolicySpec
