SPECIFICATION FairSpec
CONSTANTS
  a = a
  b = b
  a1 = a1
  a2 = a2
  b1 = b1
  NoConn = NoConn
  Conn = {a1, a2, b1}
  Client = {a, b}
  AddrOf <- AddrOfValue
  BufferSize = 2
  MaxRequest = 3
  MaxMessage = 2
  MaxGen = 2
INVARIANTS TypeOK RecordsAgree InOrder
PROPERTIES HubWaitsOnlyForHung
CHECK_DEADLOCK FALSE
