SPECIFICATION FairSpec
CONSTANTS
  r1 = r1
  r2 = r2
  large = large
  huge = huge
  Record = {r1, r2, large, huge}
  Size <- SizeValue
  Kind <- KindValue
  BlockSize = 2
  CanClose = TRUE
  MaxTrouble = 2
INVARIANTS TypeOK NothingLost AtMostOnceInOrder HeaderInStep
PROPERTIES Answered LoggedSaved
CHECK_DEADLOCK FALSE
