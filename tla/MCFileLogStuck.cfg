SPECIFICATION Spec
CONSTANTS
  r1 = r1
  r2 = r2
  large = large
  huge = huge
  Record = {r1, r2, large}
  Size <- SizeValue
  Kind <- KindValue
  BlockSize = 2
  CanClose = FALSE
  MaxTrouble = 1
INVARIANTS NeverStuck
CHECK_DEADLOCK FALSE
