CONSTANTS
  w1 = w1
  w2 = w2
  h1 = h1
  h2 = h2
  p1 = p1
  p2 = p2
  nothing = nothing
  Workers <- TwoWorkers
  Hosts <- TwoHosts
  Texts <- TwoTexts
  Nothing = nothing
  MaxDomains = 1
  MaxAttempts = 1
  Faults <- FaultKinds
  MaxFaults = 1
  MaxRequests = 3
SPECIFICATION Spec
SYMMETRY Symmetry
INVARIANTS
  TypeOK
  VerifiedWasFound
  PromptsAreConfigured
  LookupsWithinLimit
PROPERTY
  ProgressIsEarned
