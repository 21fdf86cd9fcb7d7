CONSTANTS
  w1 = w1
  w2 = w2
  r1 = r1
  r2 = r2
  r3 = r3
  e1 = e1
  same = same
  other = other
  notCited = notCited
  nothing = nothing
  Workers <- TwoWorkers
  Runs <- ThreeRuns
  Events <- OneEvent
  Evidence <- TwoEvidences
  NotCited = notCited
  Nothing = nothing
  Faults <- AllFaults
  MaxFaults = 1
SPECIFICATION Spec
SYMMETRY Symmetry
INVARIANTS
  TypeOK
  QuietIsComplete
  CountWithinFaults
  MaterialIsDifference
  EvidenceOnce
PROPERTY
  ImplementsEvidenceRecord
CHECK_DEADLOCK FALSE
