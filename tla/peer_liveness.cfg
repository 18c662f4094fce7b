SPECIFICATION FairSpec
CHECK_DEADLOCK FALSE
CONSTANTS
  MaxFaults = 2
  MaxStops = 2
  UseScript = TRUE
INVARIANT TypeOK
PROPERTIES
  PairRecovers
  LastAliveConverges
