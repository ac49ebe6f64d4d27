SPECIFICATION FairSpec
CONSTANTS
  p1 = p1
  p2 = p2
  Pusher = {p1, p2}
  Waiter = {p2}
  Closer = closer
  MaxPush = 2
  MaxReceive = 1
INVARIANTS TypeOK TokenInv NeverBlocks OneEnding
PROPERTIES ImplementsOutbox Flushed CloseCompletes DropReported WaiterAnswered
CHECK_DEADLOCK FALSE
