CONSTANTS
  w1 = w1
  w2 = w2
  alert1 = alert1
  alert2 = alert2
  ann = ann
  bob = bob
  slack = slack
  nobody = nobody
  Workers <- TwoWorkers
  Messages <- OneAlert
  Members <- AnnAndBob
  Slack = slack
  Nobody = nobody
  MaxAttempts = 2
  Faults <- AllButSlow
  MaxFaults = 1
SPECIFICATION FairSpec
INVARIANT
  ReceivedOnce
PROPERTIES
  ImplementsAlertLedger
  EveryAlertSettles
