SPECIFICATION FairSpec
CONSTANTS
  NoWorker = NoWorker
  Worker = {w1, w2}
  Table = {t1, t2}
  Outside = {}
  MaxChanges = 2
  MaxFaults = 1
  SlowOwners = FALSE
  StaleReaders = TRUE
PROPERTIES InterruptedSettles KeepsHistory
CHECK_DEADLOCK FALSE
