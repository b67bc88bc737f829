SPECIFICATION FairSpec
CONSTANTS
  MaxUnits = 4
  MaxRead = 4
  Cuts <- MCCuts
  MaxChallenges = 1
  MaxStray = 0
  Offers <- MCOffers
  Proofs = {"plain"}
  Mechs = {"CRAM-MD5"}
INVARIANTS UnexpectedOkReported
