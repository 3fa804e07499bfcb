SPECIFICATION Spec
CONSTANTS
  p1 = p1
  k1 = k1
  Project = {p1}
  Member = {k1}
  ProjectOf <- MCProjectOf
  Rank <- MCRank
  Batch = 1
  MaxEdits = 1
  Restores = FALSE
  MaxFaults = 0
CHECK_DEADLOCK FALSE
INVARIANTS WatermarkIsTrue
