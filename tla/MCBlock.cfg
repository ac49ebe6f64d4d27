SPECIFICATION Spec
CONSTANTS
  Base = 4
  BlockSize = 10
  Lengths <- AnyLengths
  Tags = {1, 3}
  MaxRecords = 3
INVARIANTS ReadsBack
CHECK_DEADLOCK FALSE
