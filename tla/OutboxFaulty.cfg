CONSTANTS
  w1 = w1
  w2 = w2
  alert1 = alert1
  alert2 = alert2
  ann = ann
  bob = bob
  slack = slack
  nobody = nobody
  Workers <- TwoWorkers
  Messages <- OneAlert
  Members <- Ann
  Slack = slack
  Nobody = nobody
  MaxAttempts = 2
  Faults <- AllButOff
  MaxFaults = 1
SPECIFICATION Spec
SYMMETRY Symmetry
INVARIANTS
  TypeOK
  DeliveredMeansReceived
