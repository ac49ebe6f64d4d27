SPECIFICATION FairSpec
CONSTANTS
  p1 = p1
  p2 = p2
  Pusher = {p1, p2}
  Waiter = {p2}
  Closer = closer
  MaxPush = 1
  MaxReceive = 2
PROPERTY CleanReturns
CHECK_DEADLOCK FALSE
