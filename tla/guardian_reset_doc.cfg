SPECIFICATION Spec
CONSTANTS
  loop = loop
  c1 = c1
  c2 = c2
  Loop <- loop
  Callers <- OneCaller
  MaxRestartAttempts = 2
  Pids = {1}
  LookupMayFail = TRUE
  MaxRequests = 2
INVARIANT ResetNotLost
