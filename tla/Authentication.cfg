SPECIFICATION FairSpec
CONSTANTS
  MaxUnits = 4
  MaxRead = 4
  Cuts <- MCCuts
  MaxChallenges = 3
  MaxStray = 0
  Offers <- MCOffers
  Proofs = {"plain", "final", "garbage"}
  Mechs <- MCMechs
INVARIANTS TypeOK PayloadsInOrder OkMeansProved NoIdleRead CauseReported InStep
PROPERTIES Terminates
