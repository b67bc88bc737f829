SPECIFICATION FairSpec
CONSTANTS
  MaxUnits = 4
  MaxRead = 3
  Cuts <- MCCuts
  MaxChallenges = 1
  MaxStray = 1
  Offers <- MCOffers
  Proofs = {"plain"}
  MaxCalls = 3
  Choices <- MCChoices
  Plain = {"tcp"}
INVARIANTS TypeOK CallsInStep SetsInForce NothingClearKept
PROPERTY CallsReturn
