SPECIFICATION FairSpec
CONSTANTS
  p1 = p1
  k1 = k1
  Project = {p1}
  Member = {k1}
  ProjectOf <- MCProjectOf
  Rank <- MCRank
  Batch = 1
  MaxEdits = 1
  Restores = TRUE
  MaxFaults = 1
CHECK_DEADLOCK FALSE
INVARIANTS AuthInv
PROPERTIES KeepsItsPromise Converges
