SPECIFICATION FairSpec
CHECK_DEADLOCK FALSE
CONSTANTS
  MaxFaults = 1
  MaxStops = 0
  UseScript = FALSE
PROPERTY UnhealthyPeerRecovers
