CONSTANTS
  s1 = s1
  s2 = s2
  ann = ann
  bob = bob
  e1 = e1
  n1 = n1
  hello = hello
  hallo = hallo
  nothing = nothing
  Servers <- TwoServers
  Members <- TwoMembers
  Admins <- OneMember
  Events <- OneEvent
  Notes <- OneNote
  Texts <- TwoTexts
  Nothing = nothing
  MaxRequests = 4
  MaxRevisions = 4
  Faults <- AllFaults
  MaxFaults = 1
SPECIFICATION Spec
SYMMETRY Symmetry
INVARIANTS
  TypeOK
  CurrentIsRecorded
PROPERTY
  SeenStaysSeen
CHECK_DEADLOCK FALSE
