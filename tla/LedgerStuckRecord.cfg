SPECIFICATION Spec
CONSTANTS
  NoWorker = NoWorker
  Worker = {w1, w2}
  Table = {t1}
  Outside = {}
  MaxChanges = 3
  MaxFaults = 1
  SlowOwners = FALSE
  StaleReaders = TRUE
SYMMETRY Symmetry
INVARIANTS StuckHasExit
CHECK_DEADLOCK FALSE
