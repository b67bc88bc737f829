SPECIFICATION FairSpec
CONSTANTS
  MaxUnits = 4
  MaxRead = 3
  Cuts <- MCCuts
  MaxChallenges = 1
  MaxStray = 0
  Offers <- MCOffers
  Proofs = {"plain", "final"}
  Requests <- MCRequests
INVARIANTS TypeOK NoCleartextCredential StartTlsHonoured CapabilitiesFresh InStep
PROPERTIES PolicySpec Terminates
