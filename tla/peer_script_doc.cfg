SPECIFICATION FairSpec
CHECK_DEADLOCK FALSE
CONSTANTS
  MaxFaults = 0
  MaxStops = 0
  UseScript = TRUE
PROPERTY ScriptFinishes
