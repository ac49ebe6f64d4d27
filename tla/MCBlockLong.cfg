SPECIFICATION Spec
CONSTANTS
  Base = 4
  BlockSize = 10
  Lengths <- AnyLengths
  Tags = {1}
  MaxRecords = 3
INVARIANT WrittenIsRead
CHECK_DEADLOCK FALSE
