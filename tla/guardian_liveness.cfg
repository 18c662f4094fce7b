SPECIFICATION FairSpec
CONSTANTS
  loop = loop
  c1 = c1
  c2 = c2
  Loop <- loop
  Callers <- OneCaller
  MaxRestartAttempts = 2
  Pids = {1}
  LookupMayFail = FALSE
  MaxRequests = 2
PROPERTIES
  StatusConverges
  DeadProjectLocksOut
  StopTerminates
