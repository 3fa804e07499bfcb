SPECIFICATION Spec
CONSTANTS
  Worker = {w1, w2}
  Job = {j1}
  Attempts = {2}
  MaxFaults = 0
  SlowHandlers = FALSE
SYMMETRY Symmetry
INVARIANTS ClaimedByOne
