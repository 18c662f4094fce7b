SPECIFICATION Spec
CONSTANTS
  a = a
  b = b
  Store = {a, b}
  MaxSize = 3
  RewriteAt = 4
  Shown = 2
  MaxEvents = 5
  MaxLine = 3
  LineSize <- MCLineSize
  MaxStops = 2
  MaxFaults = 1
CONSTRAINT ReadingIsOwed
SYMMETRY StoreSymmetry
INVARIANTS
  TypeOK
  RingIsEndOfFile
  LossIsBounded
  FileIsBounded
PROPERTIES
  ConsoleIsCurrent
  ImplementsHistory
