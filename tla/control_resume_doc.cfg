SPECIFICATION Spec
CHECK_DEADLOCK FALSE
CONSTANTS
  h1 = h1
  h2 = h2
  n1 = n1
  n2 = n2
  NumProjects = 2
  Names <- TwoNames
  NameOf <- OwnNames
  Handlers <- OneHandler
  MaxRequests = 2
  MaxCrashes = 1
INVARIANT ResumeGuardsProjects
