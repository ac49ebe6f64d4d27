SPECIFICATION Spec
CONSTANTS
  a = a
  b = b
  a1 = a1
  a2 = a2
  b1 = b1
  NoConn = NoConn
  Conn = {a1, a2, b1}
  Client = {a, b}
  AddrOf <- AddrOfValue
  BufferSize = 2
  MaxRequest = 1
  MaxMessage = 1
  MaxGen = 1
INVARIANTS GroupsLeft
CHECK_DEADLOCK FALSE
