SPECIFICATION FairSpec
CONSTANTS
  MaxUnits = 3
  MaxRead = 3
  Cuts <- MCStrayCuts
  MaxChallenges = 2
  MaxStray = 1
  Offers = {{}}
  Proofs = {"plain", "final"}
  Mechs = {"SCRAM"}
INVARIANTS PayloadsInOrder CauseReported
PROPERTIES TerminatesUnlessTorn EndsOnceClosed
