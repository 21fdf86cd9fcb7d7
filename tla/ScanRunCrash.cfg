CONSTANTS
  w1 = w1
  w2 = w2
  r1 = r1
  r2 = r2
  nobody = nobody
  Workers <- TwoWorkers
  Runs <- TwoRuns
  Nobody <- nobody
  MaxAttempts = 2
  MaxPolls = 1
  BlockThreshold = 2
  Faults <- OnlyCrash
  MaxFaults = 2
SPECIFICATION Spec
SYMMETRY Symmetry
INVARIANTS
  BlockJustified
  SoleExecutor
PROPERTIES
  ImplementsRunLedger
  AcceptedOnce
CHECK_DEADLOCK FALSE
