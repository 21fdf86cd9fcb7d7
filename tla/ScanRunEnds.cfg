CONSTANTS
  w1 = w1
  w2 = w2
  r1 = r1
  r2 = r2
  nobody = nobody
  Workers <- TwoWorkers
  Runs <- OneRun
  Nobody <- nobody
  MaxAttempts = 3
  MaxPolls = 2
  BlockThreshold = 1
  Faults <- NoFaults
  MaxFaults = 0
SPECIFICATION FairSpec
INVARIANT
  SubmissionsWithinAttempts
PROPERTY
  EveryRunEnds
CHECK_DEADLOCK FALSE
