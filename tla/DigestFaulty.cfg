CONSTANTS
  j1 = j1
  j2 = j2
  e1 = e1
  bare = bare
  nothing = nothing
  Jobs <- BothJobs
  Dispatchers <- OneDispatcher
  Events <- OneEvent
  Week = 2
  MaxHour = 3
  Bare = bare
  Nothing = nothing
  Faults <- AllFaults
  MaxFaults = 1
SPECIFICATION FairSpec
INVARIANTS
  TypeOK
  ObservationReportedOnce
  ContentFollows
  RunTellsTheTruth
CONSTRAINT Bounded
PROPERTY
  DigestGoesOut
CHECK_DEADLOCK FALSE
