SPECIFICATION Spec
CONSTANTS
  NoWorker = NoWorker
  Worker = {w1, w2}
  Table = {t1}
  Outside = {}
  MaxChanges = 3
  MaxFaults = 1
  SlowOwners = FALSE
  StaleReaders = FALSE
SYMMETRY Symmetry
INVARIANTS LedgerInv EvidenceInv ClaimInv WholeInv RecordsAreExact RecoveredIsGone HistoryExplains OwedHasExit
PROPERTIES RestoreUndoesOnlyItsOwn KeepsHistory
CHECK_DEADLOCK FALSE
