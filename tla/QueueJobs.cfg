SPECIFICATION FairSpec
CONSTANTS
  Worker = {w1, w2}
  Job = {j1}
  Attempts = {1, 2, 3}
  MaxFaults = 1
  SlowHandlers = TRUE
INVARIANTS TypeOK EndsForCause
PROPERTIES OneAttemptIsOne EveryJobEnds
