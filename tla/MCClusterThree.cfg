SPECIFICATION Spec
CONSTANTS
  s1 = s1
  s2 = s2
  s3 = s3
  a = a
  b = b
  c = c
  a1 = a1
  a2 = a2
  a3 = a3
  b2 = b2
  c3 = c3
  m1 = m1
  m2 = m2
  NoServer = NoServer
  NoConn = NoConn
  Everyone = Everyone
  Fragile <- NoLink
  Server = {s1, s2, s3}
  Client = {a, b}
  Conn = {a1, a3, b2}
  AddrOf <- AddrOfValue
  HomeOf <- HomeOfMoved
  Notify = {b2}
  Chat = {m1}
  Via <- ViaValue
  Source <- SourceValue
  Dest <- DestValue
INVARIANTS NoDuplicates SupersededKilled
CHECK_DEADLOCK FALSE
