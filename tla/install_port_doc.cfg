SPECIFICATION Spec
CHECK_DEADLOCK FALSE
CONSTANTS
  p1 = p1
  Pages = {p1}
  Ports <- TwoPorts
  Typed <- SomeIntervals
  MaxSaves = 1
  MaxFaults = 0
  MaxCrashes = 1
INVARIANT WatcherKnowsPort
