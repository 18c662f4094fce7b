SPECIFICATION FairSpec
CHECK_DEADLOCK FALSE
CONSTANTS
  h1 = h1
  h2 = h2
  n1 = n1
  n2 = n2
  NumProjects = 3
  Names <- TwoNames
  NameOf <- SharedName
  Handlers <- TwoHandlers
  MaxRequests = 2
  MaxCrashes = 2
INVARIANTS
  TypeOK
  SettledAgreement
  PauseHolds
PROPERTY ComesToRest
