SPECIFICATION Spec
CONSTANTS
  b1 = b1
  b2 = b2
  None = None
  Ids = {1, 2, 3}
  Texts = {"red", "blue"}
  Priors <- ThreePriors
  Candidates <- TwoCandidates
  Builders = {b1, b2}
  Bounds <- Either
  ChunkSize = 2
INVARIANTS
  EligibleIsStored
  LineageHolds
  RetryFinishes
SYMMETRY Symmetry
CHECK_DEADLOCK FALSE
