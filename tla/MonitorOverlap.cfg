CONSTANTS
  s1 = s1
  s2 = s2
  nobody = nobody
  Servers <- TwoServers
  Monitors <- TwoMonitors
  Nobody = nobody
  MaxActive = 2
  MaxConcurrent = 2
  MaxBaselines = 1
  Threshold = 1
  MaxClock = 2
  MaxMinutes = 1
  Changes <- AllChanges
  MaxChanges = 1
SPECIFICATION Spec
SYMMETRY Symmetry
CONSTRAINT OneMonitorOrTwo
INVARIANTS
  RecurringWithinCap
  OverlapBounded
PROPERTIES
  NoBackfill
  HoldsUntilUser
