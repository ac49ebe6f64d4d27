SPECIFICATION Spec
CONSTANTS
  s1 = s1
  s2 = s2
  s3 = s3
  a = a
  b = b
  c = c
  a1 = a1
  a2 = a2
  a3 = a3
  b2 = b2
  c3 = c3
  m1 = m1
  m2 = m2
  NoServer = NoServer
  NoConn = NoConn
  Everyone = Everyone
  Fragile <- LinkS1S2
  Server = {s1, s2}
  Client = {a, b}
  Conn = {a1, a2, a3}
  AddrOf <- AddrOfValue
  HomeOf <- HomeOfValue
  Notify = {a3}
  Chat = {}
  Via <- ViaValue
  Source <- SourceValue
  Dest <- DestEveryone
INVARIANTS TypeOK MapsTrue DoubleLoginKilled SupersededKilled
CHECK_DEADLOCK FALSE
