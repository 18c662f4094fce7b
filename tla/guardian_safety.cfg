SPECIFICATION Spec
CONSTANTS
  loop = loop
  c1 = c1
  c2 = c2
  Loop <- loop
  Callers <- TwoCallers
  MaxRestartAttempts = 2
  Pids = {1}
  LookupMayFail = TRUE
  MaxRequests = 3
INVARIANTS
  TypeOK
  AtMostOneLaunchWhilePaused
  PausedStateMeansPaused
  SingleStarterBound
  OvershootBound
PROPERTIES
  LockoutStable
  GateSpec
SYMMETRY CallerSymmetry
VIEW SafetyView
