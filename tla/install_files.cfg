SPECIFICATION Spec
CHECK_DEADLOCK FALSE
CONSTANTS
  p1 = p1
  p2 = p2
  Pages = {p1, p2}
  Ports <- OnePort
  Typed <- SomeIntervals
  MaxSaves = 2
  MaxFaults = 2
  MaxCrashes = 1
SYMMETRY PageSymmetry
INVARIANTS
  TypeOK
  SavedIsKept
  OneCopyIsWhole
  PanicIsByHand
  TokenIsInGuard
