CONSTANTS
  w1 = w1
  w2 = w2
  r1 = r1
  r2 = r2
  nobody = nobody
  Workers <- TwoWorkers
  Runs <- OneRun
  Nobody <- nobody
  MaxAttempts = 2
  MaxPolls = 1
  BlockThreshold = 1
  Faults <- AllFaults
  MaxFaults = 1
SPECIFICATION Spec
SYMMETRY Symmetry
INVARIANTS
  TypeOK
  CompletedHasEvidence
  MeteredOnce
CHECK_DEADLOCK FALSE
