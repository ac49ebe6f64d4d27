SPECIFICATION Spec
CONSTANTS
  r1 = r1
  r2 = r2
  large = large
  huge = huge
  Record = {r1, r2, r3, r4, r5}
  Size <- SizeValue
  Kind <- KindValue
  BlockSize = 1
  CanClose = FALSE
  MaxTrouble = 3
INVARIANTS HandedInOrder
CHECK_DEADLOCK FALSE
