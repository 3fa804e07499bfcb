SPECIFICATION Spec
CONSTANTS
  NoWorker = NoWorker
  Worker = {w1, w2}
  Table = {t1}
  Outside = {x}
  MaxChanges = 3
  MaxFaults = 0
  SlowOwners = FALSE
  StaleReaders = TRUE
SYMMETRY Symmetry
INVARIANTS TypeOK TruthInv StatusTellsTheTruth RestoredIsAnswered RestoredCanBeReapplied RecordsAreExact
PROPERTIES LifecycleEdges RestoreUndoesOnlyItsOwn
CHECK_DEADLOCK FALSE
