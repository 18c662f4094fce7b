SPECIFICATION Spec
CHECK_DEADLOCK FALSE
CONSTANTS
  MaxSize = 2
  MaxParts = 2
  MaxAge = 1
  BufferSize = 2
  MaxDays = 3
  MaxLines = 7
  MaxStops = 1
  MaxFaults = 2
INVARIANTS
  TypeOK
  NothingOverwritten
  PartsInOrder
  SizeIsBounded
  CleansOldest
  ConsoleLinesAreFiled
PROPERTIES
  LossIsConfined
  DatedByItsWrite
