SPECIFICATION Spec
CONSTANTS
  p1 = p1
  k1 = k1
  Project = {p1}
  Member = {k1}
  ProjectOf <- MCProjectOf
  Rank <- MCRank
  Batch = 1
  MaxEdits = 2
  Restores = FALSE
  MaxFaults = 1
CHECK_DEADLOCK FALSE
INVARIANTS TypeOK AuthInv RemovedIsGone AgreementIsCurrent
PROPERTIES KeepsItsPromise
