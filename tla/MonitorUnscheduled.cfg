CONSTANTS
  s1 = s1
  s2 = s2
  nobody = nobody
  Servers <- OneServer
  Monitors <- TwoMonitors
  Nobody = nobody
  MaxActive = 1
  MaxConcurrent = 1
  MaxBaselines = 1
  Threshold = 1
  MaxClock = 1
  MaxMinutes = 1
  Changes <- AllChanges
  MaxChanges = 1
SPECIFICATION Spec
INVARIANTS
  ActiveIsScheduled
