--------------------------- MODULE ClusterProofs ---------------------------
(***************************************************************************)
(* Proofs about Cluster, for any servers, clients, connections and chat     *)
(* messages, and any links that break.                                      *)
(***************************************************************************)
EXTENDS Cluster, TLAPS

(* What there is to send.                                                   *)
LEMMA Messages ==
  /\ \A m \in Chat : ChatMsg(m) \in Message
  /\ \A c \in Conn : KillMsg(c) \in Message
  /\ \A a, b \in Client, s \in Server : LocMsg(a, b, s) \in Message
  /\ \A c \in Conn, ts \in SUBSET Addr : OfflineMsg(c, ts) \in Message
  BY DEF Message

(* What there is to handle.                                                 *)
LEMMA Packets ==
  /\ \A c \in Conn : Add(c) \in Packet /\ Del(c) \in Packet
  /\ \A t \in Server : DelServer(t) \in Packet
  /\ \A f \in Client \cup Server, m \in Message : RelayOf(f, m) \in Packet
  BY DEF Packet

(* A packet is known by its use, a message by its type.                     *)
LEMMA PacketForms ==
  ASSUME NEW p \in Packet
  PROVE  /\ p.use \in {"add", "del", "delserver", "relay"}
         /\ p.use = "add" => p.conn \in Conn /\ p = Add(p.conn)
         /\ p.use = "del" => p.conn \in Conn /\ p = Del(p.conn)
         /\ p.use = "delserver" => p.server \in Server /\ p = DelServer(p.server)
         /\ p.use = "relay" => /\ p.from \in Client \cup Server /\ p.msg \in Message
                               /\ p = RelayOf(p.from, p.msg)
<1>1. ASSUME NEW c \in Conn, p = Add(c) \/ p = Del(c) PROVE p.conn = c
  BY <1>1 DEF Add, Del
<1>2. ASSUME NEW t \in Server, p = DelServer(t) PROVE p.server = t
  BY <1>2 DEF DelServer
<1>3. ASSUME NEW f \in Client \cup Server, NEW m \in Message, p = RelayOf(f, m)
      PROVE  p.from = f /\ p.msg = m
  BY <1>3 DEF RelayOf
<1>4. \/ \E c \in Conn : p = Add(c) /\ p.use = "add"
      \/ \E c \in Conn : p = Del(c) /\ p.use = "del"
      \/ \E t \in Server : p = DelServer(t) /\ p.use = "delserver"
      \/ \E f \in Client \cup Server, m \in Message : p = RelayOf(f, m) /\ p.use = "relay"
  BY DEF Packet, Add, Del, DelServer, RelayOf
<1> QED BY <1>1, <1>2, <1>3, <1>4

(* A message is known by its type.                                          *)
LEMMA MessageForms ==
  ASSUME NEW m \in Message
  PROVE  /\ m.type \in {"chat", "kill", "loc", "offline"}
         /\ m.type = "chat" => /\ m.id \in Chat /\ m = ChatMsg(m.id)
                               /\ m.source = Source[m.id] /\ m.dest = Dest[m.id]
         /\ m.type = "kill" => /\ m.id \in Conn /\ m = KillMsg(m.id)
                               /\ m.source = AddrOf[m.id] /\ m.dest = AddrOf[m.id]
         /\ m.type = "loc" => /\ m.target \in Client /\ m.peer \in Client
                              /\ m.in \in Server
         /\ m.type = "offline" => /\ m.id \in Conn /\ m.targets \subseteq Addr
                                  /\ m.peer = AddrOf[m.id]
<1>1. ASSUME NEW k \in Chat, m = ChatMsg(k)
      PROVE  m.type = "chat" /\ m.id = k /\ m.source = Source[k] /\ m.dest = Dest[k]
  BY <1>1 DEF ChatMsg
<1>2. ASSUME NEW c \in Conn, m = KillMsg(c)
      PROVE  m.type = "kill" /\ m.id = c /\ m.source = AddrOf[c] /\ m.dest = AddrOf[c]
  BY <1>2 DEF KillMsg
<1>3. ASSUME NEW a \in Client, NEW b \in Client, NEW s \in Server, m = LocMsg(a, b, s)
      PROVE  m.type = "loc" /\ m.target = a /\ m.peer = b /\ m.in = s
  BY <1>3 DEF LocMsg
<1>4. ASSUME NEW c \in Conn, NEW ts \in SUBSET Addr, m = OfflineMsg(c, ts)
      PROVE  m.type = "offline" /\ m.id = c /\ m.targets = ts /\ m.peer = AddrOf[c]
  BY <1>4 DEF OfflineMsg
<1>5. \/ \E k \in Chat : m = ChatMsg(k)
      \/ \E c \in Conn : m = KillMsg(c)
      \/ \E a, b \in Client, s \in Server : m = LocMsg(a, b, s)
      \/ \E c \in Conn, ts \in SUBSET Addr : m = OfflineMsg(c, ts)
  BY DEF Message
<1> QED BY <1>1, <1>2, <1>3, <1>4, <1>5

(* Who is not a client is everyone or a server; nobody is two of them.      *)
LEMMA Constants ==
  /\ \A c \in Conn : AddrOf[c] \in Client /\ AddrOf[c] \in Addr /\ HomeOf[c] \in Server
  /\ \A m \in Chat : /\ Source[m] \in Client /\ Source[m] \in Addr /\ Dest[m] \in Addr
                     /\ Entry(m) \in Server /\ Entering(m) \in Packet
  /\ Client \subseteq Addr /\ Everyone \in Addr /\ Everyone \notin Client
  /\ NoConn \notin Conn /\ NoServer \notin Server
<1>1. \A c \in Conn : AddrOf[c] \in Client /\ HomeOf[c] \in Server
  BY ConnAssumption
<1>2. ASSUME NEW m \in Chat
      PROVE  /\ Source[m] \in Client /\ Dest[m] \in Addr
             /\ Entry(m) \in Server /\ Entering(m) \in Packet
  <2>1. Via[m] \in Conn \cup Server /\ Source[m] \in Client /\ Dest[m] \in Addr
    BY ChatAssumption DEF Addr
  <2>2. Entry(m) \in Server
    BY <2>1, <1>1 DEF Entry
  <2>3. (IF Via[m] \in Conn THEN Source[m] ELSE Via[m]) \in Client \cup Server
    BY <2>1
  <2>4. Entering(m) \in Packet
    BY <2>3, Messages, Packets DEF Entering
  <2> QED BY <2>1, <2>2, <2>4
<1> QED BY <1>1, <1>2, ConnAssumption, DisjointAssumption DEF Addr
-----------------------------------------------------------------------------
Pushable == Message \cup {NoticeMsg(c) : c \in Conn}

(* What a handler leaves in the queues of the servers.                      *)
LEMMA HandledCalls ==
  ASSUME TypeOK, NEW s \in Server, NEW p, NEW out, Handled(s, p, out)
  PROVE  /\ \A t \in Server : calls'[t] \subseteq (calls[t] \ (IF t = s THEN {p} ELSE {})) \cup out[t]
         /\ calls'[s] = (calls[s] \ {p}) \cup out[s]
         /\ \A t \in Server : t # s => calls[t] \subseteq calls'[t]
         /\ \A t \in Server : t # s /\ link[s][t] = "up" => out[t] \subseteq calls'[t]
         /\ (\A t \in Server : out[t] \subseteq Packet) => calls' \in [Server -> SUBSET Packet]
<1>1. calls' = [t \in Server |->
              IF t = s THEN (calls[t] \ {p}) \cup out[t]
              ELSE IF link[s][t] = "up" THEN calls[t] \cup out[t] ELSE calls[t]]
  BY DEF Handled
<1>2. \A t \in Server : calls[t] \subseteq Packet
  BY DEF TypeOK
<1> QED BY <1>1, <1>2

(* What a push leaves at the connections.                                   *)
LEMMA PushGot ==
  ASSUME TypeOK, NEW cs, NEW msg, Push(cs, msg)
  PROVE  /\ \A c \in Conn : got'[c] = IF c \in cs THEN got[c] \cup {msg} ELSE got[c]
         /\ msg \in Pushable => got' \in [Conn -> SUBSET Pushable]
  BY DEF Push, TypeOK, Pushable

(* A handler stays where a push does not return.                            *)
LEMMA HangStatus ==
  ASSUME TypeOK, NEW s \in Server, NEW ended, HangIf(s, ended)
  PROVE  /\ status' \in [Server -> {"run", "hung", "crashed"}]
         /\ \A t \in Server : status'[t] = "run" => status[t] = "run"
         /\ status'[s] = "run" => ended = {}
  BY DEF HangIf, TypeOK

(* The connections of a client.                                             *)
LEMMA PeersType ==
  ASSUME TypeOK, NEW s \in Server, NEW a \in Addr
  PROVE  /\ Peers(s, a) \subseteq Conn
         /\ \A c \in Conn : c \in Peers(s, a) <=> clientPeers[s][a] = c
  BY Constants DEF Peers, TypeOK

(* Everything starts with its type.                                         *)
LEMMA TypeInit == Init => TypeOK
  BY Constants DEF Init, TypeOK, Others

(* What the clients do keeps the types.                                     *)
LEMMA TypeClients ==
  ASSUME TypeOK,
         (\E c \in Conn : Connect(c) \/ Disconnect(c)) \/ (\E m \in Chat : Send(m))
  PROVE  TypeOK'
<1>1. ASSUME NEW c \in Conn, Connect(c) PROVE TypeOK'
  BY <1>1, Constants, Packets DEF Connect, TypeOK, links
<1>2. ASSUME NEW c \in Conn, Disconnect(c) PROVE TypeOK'
  BY <1>2, Constants, Packets DEF Disconnect, TypeOK, links
<1>3. ASSUME NEW m \in Chat, Send(m) PROVE TypeOK'
  BY <1>3, Constants DEF Send, TypeOK, links
<1> QED BY <1>1, <1>2, <1>3

(* What the network does keeps the types.                                   *)
LEMMA TypeNetwork ==
  ASSUME TypeOK, NEW s \in Server, NEW t \in Server,
         Break(s, t) \/ (s # t /\ LinkEnds(s, t))
  PROVE  TypeOK'
<1>1. CASE Break(s, t)
  <2>1. \A u \in Server : link'[u] \in [Others(u) -> {"up", "cut", "ended"}]
    BY <1>1 DEF Break, TypeOK, Others
  <2>2. PICK lost, back : calls' = [calls EXCEPT ![t] = @ \ lost, ![s] = @ \ back]
    BY <1>1 DEF Break
  <2>3. calls' \in [Server -> SUBSET Packet]
    BY <2>2 DEF TypeOK
  <2> QED BY <1>1, <2>1, <2>3 DEF Break, TypeOK
<1>2. CASE s # t /\ LinkEnds(s, t)
  <2>1. \A u \in Server : link'[u] \in [Others(u) -> {"up", "cut", "ended"}]
    BY <1>2 DEF LinkEnds, TypeOK, Others
  <2> QED BY <1>2, <2>1, Packets DEF LinkEnds, TypeOK
<1> QED BY <1>1, <1>2

(* The handlers of logins, logouts and ends of links keep the types.        *)
LEMMA TypeRegister == ASSUME TypeOK, NEW s \in Server, NEW c \in Conn, Register(s, c) PROVE TypeOK'
<1> DEFINE old == Peers(s, AddrOf[c])
           scope == IF Ended(old) = {} THEN KillScope(s, old) ELSE {}
           stuck == Ended(old) \cup EndedLinks(s, scope)
<1>1. /\ Push(old \ Ended(old), KillMsg(c)) /\ HangIf(s, stuck)
      /\ clientPeers' = IF stuck = {} THEN [clientPeers EXCEPT ![s][AddrOf[c]] = c]
                        ELSE clientPeers
      /\ UNCHANGED <<conn, links, location, sessions, sent, told>>
  BY DEF Register
<1>2. PICK ts : Handled(s, Add(c), ToEach(ts, RelayOf(s, KillMsg(c))))
  BY DEF Register
<1>3. RelayOf(s, KillMsg(c)) \in Packet /\ KillMsg(c) \in Pushable
  BY Packets, Messages DEF Pushable
<1>4. calls' \in [Server -> SUBSET Packet]
  BY <1>2, <1>3, HandledCalls DEF ToEach
<1>5. got' \in [Conn -> SUBSET Pushable]
  BY <1>1, <1>3, PushGot
<1>6. clientPeers' \in [Server -> [Addr -> Conn \cup {NoConn}]]
  BY <1>1, Constants DEF TypeOK
<1>7. status' \in [Server -> {"run", "hung", "crashed"}]
  BY <1>1, HangStatus
<1> QED BY <1>1, <1>4, <1>5, <1>6, <1>7 DEF TypeOK, links, Pushable

(* handleClientPeerUnregistPacket keeps the types.                          *)
LEMMA TypeUnregister ==
  ASSUME TypeOK, NEW s \in Server, NEW c \in Conn, Unregister(s, c)
  PROVE  TypeOK'
<1> USE DEF links
<1> DEFINE alive == clientPeers[s][AddrOf[c]]
           Targets(t) == {a \in Addr : sessions[alive][a] = t}
           Offline(t) == RelayOf(s, OfflineMsg(c, Targets(t)))
           away == SessionServers(alive) \cap serverPeers[s]
           here == SessionServers(alive) \ away
           ended == EndedLinks(s, away)
<1>1. CASE ~IsAlive(s, c)
  <2>1. Handled(s, Del(c), Nothing)
    BY <1>1 DEF Unregister
  <2>2. calls' \in [Server -> SUBSET Packet]
    BY <2>1, HandledCalls DEF Nothing
  <2> QED BY <1>1, <2>2 DEF Unregister, TypeOK
<1>2. CASE IsAlive(s, c)
  <2>1. /\ clientPeers' = [clientPeers EXCEPT ![s][AddrOf[c]] = NoConn]
        /\ HangIf(s, ended)
        /\ UNCHANGED <<conn, links, location, sessions, got, again, sent>>
    BY <1>2 DEF Unregister
  <2>2. PICK ts \in Pushed(away \cup here, ended) :
          /\ Handled(s, Del(c),
               [t \in Server |->
                  IF t = s THEN {Offline(u) : u \in ts \cap here}
                  ELSE IF t \in ts \cap away THEN {Offline(t)} ELSE {}])
          /\ told' = told \cup {<<c, t>> : t \in ts}
    BY <1>2 DEF Unregister
  <2>3. ASSUME NEW t PROVE Offline(t) \in Packet
    <3>1. Targets(t) \in SUBSET Addr
      OBVIOUS
    <3>2. OfflineMsg(c, Targets(t)) \in Message
      BY <3>1, Messages
    <3> QED BY <3>2, Packets
  <2>4. calls' \in [Server -> SUBSET Packet]
    <3> DEFINE out == [t \in Server |->
                         IF t = s THEN {Offline(u) : u \in ts \cap here}
                         ELSE IF t \in ts \cap away THEN {Offline(t)} ELSE {}]
    <3>1. {Offline(u) : u \in ts \cap here} \subseteq Packet
      BY <2>3
    <3>2. \A t \in Server : {Offline(t)} \subseteq Packet
      BY <2>3
    <3>3. \A t \in Server : out[t] \subseteq Packet
      BY <3>1, <3>2
    <3>4. Handled(s, Del(c), out)
      BY <2>2
    <3> HIDE DEF out
    <3> QED BY <3>3, <3>4, HandledCalls
  <2>5. alive = c
    BY <1>2 DEF IsAlive
  <2>6. ts \subseteq Server
    <3>1. SessionServers(alive) \subseteq Server
      BY <2>5, Constants DEF SessionServers, TypeOK
    <3> QED BY <2>2, <3>1 DEF Pushed
  <2>7. status' \in [Server -> {"run", "hung", "crashed"}]
    BY <2>1, HangStatus
  <2>8. clientPeers' \in [Server -> [Addr -> Conn \cup {NoConn}]]
    BY <2>1, Constants DEF TypeOK
  <2>9. told' \subseteq Conn \X Server
    BY <2>2, <2>6 DEF TypeOK
  <2> QED BY <2>1, <2>4, <2>7, <2>8, <2>9 DEF TypeOK
<1> QED BY <1>1, <1>2

(* handleServerPeerUnregistPacket keeps the types.                          *)
LEMMA TypeUnregisterServer ==
  ASSUME TypeOK, NEW s \in Server, NEW t \in Server, UnregisterServer(s, t)
  PROVE  TypeOK'
<1>1. calls' \in [Server -> SUBSET Packet]
  BY HandledCalls DEF UnregisterServer, Nothing
<1> QED BY <1>1 DEF UnregisterServer, TypeOK

(* What a session or a location becomes.                                    *)
Sessions == [Conn -> [Addr -> Server \cup {NoServer}]]
(* AddSession notes the session of the clients it is given, and no other.   *)
LEMMA SessionsAdded ==
  \A ss \in Sessions, peer \in Addr, t \in Server : \A cs :
    /\ AddSession(ss, cs, peer, t) \in Sessions
    /\ \A c \in Conn, a \in Addr : AddSession(ss, cs, peer, t)[c][a] # ss[c][a] =>
         c \in cs /\ a = peer /\ AddSession(ss, cs, peer, t)[c][a] = t
  BY DEF AddSession, Sessions

(* DelSession, as it is written, changes nothing.                           *)
LEMMA SessionsDeleted ==
  \A ss \in Sessions, peer \in Addr : \A cs : DelSession(ss, cs, peer) = ss
<1> SUFFICES ASSUME NEW ss \in Sessions, NEW peer \in Addr, NEW cs
             PROVE  DelSession(ss, cs, peer) = ss
  OBVIOUS
<1>1. ASSUME NEW c \in Conn PROVE DelSession(ss, cs, peer)[c] = ss[c]
  <2>1. CASE c \in cs /\ ss[c][peer] = NoServer
    <3>1. [ss[c] EXCEPT ![peer] = NoServer] = ss[c]
      BY <2>1 DEF Sessions
    <3> QED BY <2>1, <3>1 DEF DelSession
  <2>2. CASE ~(c \in cs /\ ss[c][peer] = NoServer)
    BY <2>2 DEF DelSession
  <2> QED BY <2>1, <2>2
<1> QED BY <1>1 DEF DelSession, Sessions

(* A packet to be relayed, and what is in it.                               *)
LEMMA RelayForm ==
  ASSUME TypeOK, NEW s \in Server, NEW p \in calls[s], p.use = "relay",
         p.msg.type \in {"chat", "kill"}
  PROVE  /\ p.from \in Client \cup Server /\ p.msg \in Message
         /\ p = RelayOf(p.from, p.msg)
         /\ p.msg.source \in Client /\ p.msg.dest \in Addr
         /\ p.msg.source \in Addr
         /\ p.msg.type = "kill" => p.msg.dest \in Client
<1>1. p \in Packet
  BY DEF TypeOK
<1> QED BY <1>1, PacketForms, MessageForms, Constants

(* The connections that a message is pushed to.                             *)
LEMMA ReceiversHere ==
  ASSUME TypeOK, NEW s \in Server, NEW dest \in Addr
  PROVE  /\ Receivers(s, dest) \subseteq Conn
         /\ dest # Everyone => Receivers(s, dest) = Peers(s, dest)
         /\ \A c \in Receivers(s, dest) : \E a \in Client : c \in Peers(s, a)
<1>1. CASE dest = Everyone
  <2>1. \A a \in Client : Peers(s, a) \subseteq Conn
    BY PeersType, Constants
  <2> QED BY <1>1, <2>1 DEF Receivers
<1>2. CASE dest # Everyone
  BY <1>2, PeersType, Constants DEF Receivers, Addr
<1> QED BY <1>1, <1>2

(* Nobody logs in as everyone, so only a client is located.                 *)
NobodyIsEveryone == \A s \in Server : clientPeers[s][Everyone] = NoConn
(* Only a client is looked for, never everyone.                             *)
LEMMA LocatingClient ==
  ASSUME NobodyIsEveryone, NEW s \in Server, NEW from, NEW msg, msg.dest \in Addr,
         Locating(s, from, msg) # {}
  PROVE  msg.dest \in Client
  BY DEF NobodyIsEveryone, Locating, Peers, Addr

(* handleRelayPacket keeps the types.                                       *)
LEMMA TypeRelay ==
  ASSUME TypeOK, NobodyIsEveryone, NEW s \in Server, NEW p \in calls[s], Relay(s, p)
  PROVE  TypeOK'
<1> DEFINE asked == Locating(s, p.from, p.msg)
           unasked == EndedLinks(s, asked)
           on == IF unasked = {} THEN Forward(s, p.from, p.msg) ELSE {}
           cut == unasked \cup EndedLinks(s, on)
           cs == IF cut = {} THEN Receivers(s, p.msg.dest) ELSE {}
<1>1. /\ RecordSession(s, p.from, p.msg) /\ RecordLocation(s, p.from, p.msg)
      /\ HangIf(s, cut \cup Ended(cs))
      /\ UNCHANGED <<conn, links, clientPeers, sent, told>>
      /\ p.use = "relay" /\ p.msg.type \in {"chat", "kill"}
  BY DEF Relay
<1>2. PICK ts : Handled(s, p, Both(ToEach(asked \ unasked,
                                     RelayOf(s, LocMsg(p.msg.source, p.msg.dest, s))),
                                   ToEach(ts, RelayOf(s, p.msg))))
  BY DEF Relay
<1>3. PICK ds : Push(ds, p.msg)
  BY DEF Relay
<1>4. /\ p.from \in Client \cup Server /\ p.msg \in Message
      /\ p.msg.source \in Client /\ p.msg.dest \in Addr /\ p.msg.source \in Addr
  BY <1>1, RelayForm
<1>5. /\ asked # {} => RelayOf(s, LocMsg(p.msg.source, p.msg.dest, s)) \in Packet
      /\ RelayOf(s, p.msg) \in Packet
  BY <1>4, LocatingClient, Messages, Packets
<1>6. calls' \in [Server -> SUBSET Packet]
  BY <1>2, <1>5, HandledCalls DEF ToEach, Both
<1>7. got' \in [Conn -> SUBSET Pushable]
  BY <1>3, <1>4, PushGot DEF Pushable
<1>8. sessions' \in Sessions
  <2>1. sessions \in Sessions
    BY DEF Sessions, TypeOK
  <2>2. AddSession(sessions, Peers(s, p.msg.source), p.msg.dest, s) \in Sessions
    BY <1>4, <2>1, SessionsAdded
  <2>3. (IF p.from \in Client THEN s ELSE p.from) \in Server
    BY <1>4
  <2> QED BY <1>1, <1>4, <2>2, <2>3, SessionsAdded DEF RecordSession
<1>9. location' \in [Server -> [Addr -> Server \cup {NoServer}]]
  BY <1>1, <1>4 DEF RecordLocation, Learns, Learnt, TypeOK
<1>10. status' \in [Server -> {"run", "hung", "crashed"}]
  BY <1>1, HangStatus
<1> QED BY <1>1, <1>6, <1>7, <1>8, <1>9, <1>10 DEF TypeOK, links, Pushable, Sessions

(* handleLogicPacket keeps the types.                                       *)
LEMMA TypeLogic ==
  ASSUME TypeOK, NEW s \in Server, NEW p \in calls[s],
         HandleLoc(s, p) \/ HandleOffline(s, p)
  PROVE  TypeOK'
<1>1. p \in Packet /\ p.use = "relay"
  BY DEF TypeOK, HandleLoc, HandleOffline
<1>2. Handled(s, p, Nothing)
  BY DEF HandleLoc, HandleOffline
<1>3. calls' \in [Server -> SUBSET Packet]
  BY <1>2, HandledCalls DEF Nothing
<1>4. p.msg \in Message
  BY <1>1, PacketForms
<1>5. sessions \in Sessions
  BY DEF Sessions, TypeOK
<1>6. CASE HandleLoc(s, p)
  <2>1. p.msg.peer \in Addr /\ p.msg.in \in Server
    BY <1>4, <1>6, MessageForms, Constants DEF HandleLoc
  <2>2. sessions' \in Sessions
    BY <1>5, <1>6, <2>1, SessionsAdded DEF HandleLoc
  <2> QED BY <1>3, <1>6, <2>1, <2>2 DEF HandleLoc, TypeOK, links, Sessions
<1>7. CASE HandleOffline(s, p)
  <2> DEFINE here == UNION {Peers(s, a) : a \in p.msg.targets}
             notified == IF p.msg.id \in Notify THEN here ELSE {}
  <2>1. p.msg.peer \in Addr /\ p.msg.id \in Conn
    BY <1>4, <1>7, MessageForms, Constants DEF HandleOffline
  <2>2. /\ location' = [location EXCEPT ![s][p.msg.peer] = NoServer]
        /\ sessions' = DelSession(sessions, here, p.msg.peer)
        /\ HangIf(s, Ended(notified))
        /\ UNCHANGED <<conn, links, clientPeers, sent, told>>
    BY <1>7 DEF HandleOffline
  <2>3. PICK cs : Push(cs, NoticeMsg(p.msg.id))
    BY <1>7 DEF HandleOffline
  <2>4. got' \in [Conn -> SUBSET Pushable]
    BY <2>1, <2>3, PushGot DEF Pushable
  <2>5. sessions' = sessions
    BY <1>5, <2>1, <2>2, SessionsDeleted
  <2>6. status' \in [Server -> {"run", "hung", "crashed"}]
    BY <2>2, HangStatus
  <2> QED BY <1>3, <2>1, <2>2, <2>4, <2>5, <2>6 DEF TypeOK, links, Pushable
<1> QED BY <1>6, <1>7

(* A link breaks at both ends.                                              *)
LEMMA BreakLinks ==
  ASSUME TypeOK, NEW s \in Server, NEW t \in Server, Break(s, t)
  PROVE  \A u \in Server : \A v \in Others(u) :
           link'[u][v] = IF (u = s /\ v = t) \/ (u = t /\ v = s) THEN "cut" ELSE link[u][v]
<1>1. s # t /\ link' = [link EXCEPT ![s][t] = "cut", ![t][s] = "cut"]
  BY DEF Break
<1>2. DOMAIN link = Server /\ \A u \in Server : DOMAIN link[u] = Others(u)
  BY DEF TypeOK
<1>3. t \in Others(s) /\ s \in Others(t)
  BY <1>1 DEF Others
<1>4. link'[s] = [link[s] EXCEPT ![t] = "cut"] /\ link'[t] = [link[t] EXCEPT ![s] = "cut"]
      /\ \A u \in Server \ {s, t} : link'[u] = link[u]
  BY <1>1, <1>2
<1>5. \A v \in Others(s) : link'[s][v] = IF v = t THEN "cut" ELSE link[s][v]
  BY <1>2, <1>4
<1>6. \A v \in Others(t) : link'[t][v] = IF v = s THEN "cut" ELSE link[t][v]
  BY <1>2, <1>4
<1>7. ASSUME NEW u \in Server, NEW v \in Others(u)
      PROVE  link'[u][v] = IF (u = s /\ v = t) \/ (u = t /\ v = s) THEN "cut" ELSE link[u][v]
  <2>1. CASE u = s
    BY <1>1, <1>5, <2>1
  <2>2. CASE u = t
    BY <1>1, <1>6, <2>2
  <2>3. CASE u \in Server \ {s, t}
    BY <1>4, <2>3
  <2> QED BY <2>1, <2>2, <2>3
<1> QED BY <1>7

(* No step leaves the types, nor a link up at one of its ends only.         *)
Paired == \A s \in Server : \A t \in Others(s) : link[s][t] = "up" => link[t][s] = "up"
Types == TypeOK /\ NobodyIsEveryone /\ Paired
(* Every step keeps the types.                                              *)
LEMMA TypeStep == ASSUME Types, Next PROVE Types'
<1>1. TypeOK'
  BY TypeClients, TypeNetwork, TypeRegister, TypeUnregister, TypeUnregisterServer,
     TypeRelay, TypeLogic DEF Next, Hub, Types
<1>2. NobodyIsEveryone'
  <2>1. ASSUME NEW s \in Server, NEW c \in Conn, NEW k,
               clientPeers' = [clientPeers EXCEPT ![s][AddrOf[c]] = k]
        PROVE  NobodyIsEveryone'
    <3>1. AddrOf[c] # Everyone
      BY Constants
    <3>2. \A t \in Server : clientPeers'[t][Everyone] = clientPeers[t][Everyone]
      BY <2>1, <3>1 DEF Types, TypeOK
    <3> QED BY <3>2 DEF NobodyIsEveryone, Types
  <2>2. CASE UNCHANGED clientPeers
    BY <2>2 DEF NobodyIsEveryone, Types
  <2>3. ASSUME NEW s \in Server, NEW c \in Conn, Register(s, c) \/ Unregister(s, c)
        PROVE  NobodyIsEveryone'
    BY <2>1, <2>2, <2>3 DEF Register, Unregister
  <2>4. CASE \/ \E c \in Conn : Connect(c) \/ Disconnect(c)
             \/ \E m \in Chat : Send(m)
             \/ \E s, t \in Server : Break(s, t) \/ LinkEnds(s, t) \/ UnregisterServer(s, t)
    BY <2>2, <2>4 DEF Connect, Disconnect, Send, Break, LinkEnds, UnregisterServer
  <2>5. ASSUME NEW s \in Server, NEW p \in calls[s],
               Relay(s, p) \/ HandleLoc(s, p) \/ HandleOffline(s, p)
        PROVE  UNCHANGED clientPeers
    BY <2>5 DEF Relay, HandleLoc, HandleOffline
  <2> QED BY <2>2, <2>3, <2>4, <2>5 DEF Next, Hub
<1>3. Paired'
  <2>1. CASE UNCHANGED link
    BY <2>1 DEF Paired, Types
  <2>2. ASSUME NEW s \in Server, NEW t \in Server, Break(s, t) PROVE Paired'
    BY <2>2, BreakLinks DEF Paired, Types, Others
  <2>3. ASSUME NEW s \in Server, NEW t \in Server, s # t, LinkEnds(s, t) PROVE Paired'
    BY <2>3 DEF LinkEnds, Paired, Types, TypeOK, Others
  <2>4. ASSUME NEW s \in Server, NEW c \in Conn, Register(s, c) \/ Unregister(s, c)
        PROVE  Paired'
    BY <2>1, <2>4 DEF Register, Unregister, links
  <2>5. CASE \/ \E c \in Conn : Connect(c) \/ Disconnect(c)
             \/ \E m \in Chat : Send(m)
             \/ \E s, t \in Server : UnregisterServer(s, t)
    BY <2>1, <2>5 DEF Connect, Disconnect, Send, UnregisterServer, links
  <2>6. ASSUME NEW s \in Server, NEW p \in calls[s],
               Relay(s, p) \/ HandleLoc(s, p) \/ HandleOffline(s, p)
        PROVE  Paired'
    BY <2>1, <2>6 DEF Relay, HandleLoc, HandleOffline, links
  <2> QED BY <2>2, <2>3, <2>4, <2>5, <2>6 DEF Next, Hub
<1> QED BY <1>1, <1>2, <1>3 DEF Types

(* Nor does a step of somebody else.                                        *)
LEMMA TypeStutter == ASSUME Types, UNCHANGED vars PROVE Types'
  BY DEF Types, TypeOK, NobodyIsEveryone, Paired, vars, links

(* The maps have their types, and links are up at both ends, always.        *)
LEMMA TypesHold == Spec => []Types
<1>1. Init => Types
  BY TypeInit, Constants DEF Types, NobodyIsEveryone, Paired, Init, Others
<1> QED BY <1>1, TypeStep, TypeStutter, PTL DEF Spec

(* In every behaviour the hubs' maps hold what they are made for, and every *)
(* packet under way is one that some handler knows.                         *)
THEOREM ClusterTypeOK == Spec => []TypeOK
  BY TypesHold, PTL DEF Types
-----------------------------------------------------------------------------
(* What a step cannot take back.                                            *)
LEMMA Kept ==
  ASSUME Types, Next
  PROVE  /\ \A c \in Conn : /\ conn[c] # "new" => conn'[c] # "new"
                            /\ conn[c] = "down" => conn'[c] = "down"
                            /\ conn'[c] # conn[c] => Connect(c) \/ Disconnect(c)
         /\ sent \subseteq sent'
         /\ \A s \in Server : \A t \in Others(s) :
              link[s][t] = "ended" => link'[s][t] = "ended"
         /\ \A s \in Server : status'[s] = "run" => status[s] = "run"
<1> DEFINE Goal ==
      /\ \A c \in Conn : /\ conn[c] # "new" => conn'[c] # "new"
                         /\ conn[c] = "down" => conn'[c] = "down"
                         /\ conn'[c] # conn[c] => Connect(c) \/ Disconnect(c)
      /\ sent \subseteq sent'
      /\ \A s \in Server : \A t \in Others(s) :
           link[s][t] = "ended" => link'[s][t] = "ended"
      /\ \A s \in Server : status'[s] = "run" => status[s] = "run"
<1>1. ASSUME NEW c \in Conn, Connect(c) \/ Disconnect(c) PROVE Goal
  BY <1>1 DEF Connect, Disconnect, Types, TypeOK, links
<1>2. ASSUME NEW m \in Chat, Send(m) PROVE Goal
  BY <1>2 DEF Send, links
<1>3. ASSUME NEW s \in Server, NEW t \in Server, Break(s, t) PROVE Goal
  <2>1. /\ s # t /\ link[s][t] = "up" /\ UNCHANGED <<conn, sent, status>>
    BY <1>3 DEF Break
  <2>2. link[t][s] = "up"
    BY <2>1 DEF Types, Paired, Others
  <2> QED BY <1>3, <2>1, <2>2, BreakLinks DEF Types
<1>4. ASSUME NEW s \in Server, NEW t \in Server, s # t, LinkEnds(s, t) PROVE Goal
  BY <1>4 DEF LinkEnds, Types, TypeOK, Others
<1>5. ASSUME NEW s \in Server, UNCHANGED <<conn, link>>, sent' = sent,
             UNCHANGED status \/ (\E ended : HangIf(s, ended))
               \/ status' = [status EXCEPT ![s] = "crashed"]
      PROVE  Goal
  BY <1>5, HangStatus DEF Types, TypeOK
<1>6. ASSUME NEW s \in Server, NEW c \in Conn, Register(s, c) PROVE Goal
  BY <1>5, <1>6 DEF Register, links
<1>7. ASSUME NEW s \in Server, NEW c \in Conn, Unregister(s, c) PROVE Goal
  <2>1. UNCHANGED status \/ (\E ended : HangIf(s, ended))
    BY <1>7 DEF Unregister
  <2> QED BY <1>5, <1>7, <2>1 DEF Unregister, links
<1>8. ASSUME NEW s \in Server, NEW t \in Server, UnregisterServer(s, t) PROVE Goal
  BY <1>5, <1>8 DEF UnregisterServer
<1>9. ASSUME NEW s \in Server, NEW p \in calls[s], Relay(s, p) PROVE Goal
  BY <1>5, <1>9 DEF Relay, links
<1>10. ASSUME NEW s \in Server, NEW p \in calls[s], HandleLoc(s, p) PROVE Goal
  BY <1>5, <1>10 DEF HandleLoc, links
<1>11. ASSUME NEW s \in Server, NEW p \in calls[s], HandleOffline(s, p) PROVE Goal
  BY <1>5, <1>11 DEF HandleOffline, links
<1>12. Goal
  BY <1>1, <1>2, <1>3, <1>4, <1>6, <1>7, <1>8, <1>9, <1>10, <1>11 DEF Next, Hub
<1> QED BY <1>12

(* Where the packets come from that a step adds to those of server t.       *)
TargetsAt(c, u) == {a \in Addr : sessions[c][a] = u}
Located(s, p) == RelayOf(s, LocMsg(p.msg.source, p.msg.dest, s))
NewPacket(t, q) ==
  \/ \E c \in Conn : Connect(c) /\ t = HomeOf[c] /\ q = Add(c)
  \/ \E c \in Conn : Disconnect(c) /\ t = HomeOf[c] /\ q = Del(c)
  \/ \E m \in Chat : Send(m) /\ t = Entry(m) /\ q = Entering(m)
  \/ \E u \in Server : u # t /\ LinkEnds(t, u) /\ q = DelServer(u)
  \/ \E s \in Server, c \in Conn :
       Register(s, c) /\ t \in serverPeers[s] /\ q = RelayOf(s, KillMsg(c))
  \/ \E s \in Server, c \in Conn : /\ Unregister(s, c) /\ IsAlive(s, c)
       /\ \E u \in Server : /\ q = RelayOf(s, OfflineMsg(c, TargetsAt(c, u)))
                            /\ u = t \/ s = t
  \/ \E s \in Server : \E p \in calls[s] : /\ Relay(s, p)
       /\ \/ t \in Locating(s, p.from, p.msg) /\ q = Located(s, p)
          \/ t \in Forward(s, p.from, p.msg) /\ q = RelayOf(s, p.msg)

(* What a step adds is a packet that one of its handlers sends.             *)
LEMMA NewPackets ==
  ASSUME Types, Next, NEW t \in Server, NEW q \in calls'[t], q \notin calls[t]
  PROVE  NewPacket(t, q)
<1> USE DEF Types
<1>1. ASSUME NEW c \in Conn, Connect(c) \/ Disconnect(c) PROVE NewPacket(t, q)
  <2>1. ASSUME NEW k, calls' = [calls EXCEPT ![HomeOf[c]] = @ \cup {k}]
        PROVE  t = HomeOf[c] /\ q = k
    BY <2>1 DEF TypeOK
  <2> QED BY <1>1, <2>1 DEF Connect, Disconnect, NewPacket
<1>2. ASSUME NEW m \in Chat, Send(m) PROVE NewPacket(t, q)
  BY <1>2 DEF Send, NewPacket, TypeOK
<1>3. ASSUME NEW s \in Server, NEW u \in Server, Break(s, u) PROVE FALSE
  <2>1. PICK lost, back : calls' = [calls EXCEPT ![u] = @ \ lost, ![s] = @ \ back]
    BY <1>3 DEF Break
  <2> QED BY <2>1 DEF TypeOK
<1>4. ASSUME NEW s \in Server, NEW u \in Server, s # u, LinkEnds(s, u)
      PROVE  NewPacket(t, q)
  <2>1. t = s /\ q = DelServer(u)
    BY <1>4 DEF LinkEnds, TypeOK
  <2> QED BY <1>4, <2>1 DEF NewPacket
<1>5. ASSUME NEW s \in Server, NEW c \in Conn, Register(s, c) PROVE NewPacket(t, q)
  <2> DEFINE old == Peers(s, AddrOf[c])
             scope == IF Ended(old) = {} THEN KillScope(s, old) ELSE {}
  <2>1. PICK ts \in Pushed(scope, EndedLinks(s, scope)) :
          Handled(s, Add(c), ToEach(ts, RelayOf(s, KillMsg(c))))
    BY <1>5 DEF Register
  <2>2. q \in ToEach(ts, RelayOf(s, KillMsg(c)))[t]
    BY <2>1, HandledCalls
  <2>3. ts \subseteq serverPeers[s]
    BY <2>1 DEF Pushed, KillScope
  <2> QED BY <1>5, <2>2, <2>3 DEF NewPacket, ToEach
<1>6. ASSUME NEW s \in Server, NEW c \in Conn, Unregister(s, c) PROVE NewPacket(t, q)
  <2> DEFINE alive == clientPeers[s][AddrOf[c]]
             Targets(u) == {a \in Addr : sessions[alive][a] = u}
             Offline(u) == RelayOf(s, OfflineMsg(c, Targets(u)))
             away == SessionServers(alive) \cap serverPeers[s]
             here == SessionServers(alive) \ away
  <2>1. CASE ~IsAlive(s, c)
    BY <1>6, <2>1, HandledCalls DEF Unregister, Nothing
  <2>2. CASE IsAlive(s, c)
    <3>1. alive = c
      BY <2>2 DEF IsAlive
    <3>2. PICK ts \in Pushed(away \cup here, EndedLinks(s, away)) :
            Handled(s, Del(c), [u \in Server |->
               IF u = s THEN {Offline(v) : v \in ts \cap here}
               ELSE IF u \in ts \cap away THEN {Offline(u)} ELSE {}])
      BY <1>6, <2>2 DEF Unregister
    <3>3. here \subseteq Server /\ \A v : Offline(v) = RelayOf(s, OfflineMsg(c, TargetsAt(c, v)))
      BY <3>1 DEF SessionServers, TypeOK, TargetsAt
    <3>4. q \in IF t = s THEN {Offline(v) : v \in ts \cap here}
                ELSE IF t \in ts \cap away THEN {Offline(t)} ELSE {}
      <4> DEFINE out == [u \in Server |->
               IF u = s THEN {Offline(v) : v \in ts \cap here}
               ELSE IF u \in ts \cap away THEN {Offline(u)} ELSE {}]
      <4>1. Handled(s, Del(c), out)
        BY <3>2
      <4>2. q \in out[t]
        <5> HIDE DEF out
        <5> QED BY <4>1, HandledCalls
      <4> QED BY <4>2
    <3>5. \E u \in Server : q = RelayOf(s, OfflineMsg(c, TargetsAt(c, u))) /\ (u = t \/ s = t)
      BY <3>3, <3>4
    <3> QED BY <1>6, <2>2, <3>5 DEF NewPacket
  <2> QED BY <2>1, <2>2
<1>7. ASSUME NEW s \in Server, NEW u \in Server, UnregisterServer(s, u) PROVE FALSE
  BY <1>7, HandledCalls DEF UnregisterServer, Nothing
<1>8. ASSUME NEW s \in Server, NEW p \in calls[s], Relay(s, p) PROVE NewPacket(t, q)
  <2> DEFINE asked == Locating(s, p.from, p.msg)
             unasked == EndedLinks(s, asked)
             on == IF unasked = {} THEN Forward(s, p.from, p.msg) ELSE {}
             out(ts) == Both(ToEach(asked \ unasked, Located(s, p)), ToEach(ts, RelayOf(s, p.msg)))
  <2>1. PICK ts \in Pushed(on, EndedLinks(s, on)) : Handled(s, p, out(ts))
    BY <1>8 DEF Relay, Located
  <2>2. q \in out(ts)[t]
    <3> HIDE DEF out
    <3> QED BY <2>1, HandledCalls
  <2>3. ts \subseteq Forward(s, p.from, p.msg)
    BY <2>1 DEF Pushed
  <2>4. \/ t \in asked /\ q = Located(s, p)
        \/ t \in ts /\ q = RelayOf(s, p.msg)
    BY <2>2 DEF Both, ToEach
  <2> QED BY <1>8, <2>3, <2>4 DEF NewPacket
<1>9. ASSUME NEW s \in Server, NEW p \in calls[s], HandleLoc(s, p) \/ HandleOffline(s, p)
      PROVE  FALSE
  BY <1>9, HandledCalls DEF HandleLoc, HandleOffline, Nothing
<1> QED BY <1>1, <1>2, <1>3, <1>4, <1>5, <1>6, <1>7, <1>8, <1>9 DEF Next, Hub

(* Where a new location comes from.                                         *)
LEMMA NewLocations ==
  ASSUME Types, Next, NEW s \in Server, NEW a \in Addr,
         location'[s][a] # location[s][a], location'[s][a] # NoServer
  PROVE  \E p \in calls[s] :
           \/ /\ Relay(s, p) /\ p.from \in Server /\ p.msg.source = a
              /\ location'[s][a] = p.from
           \/ HandleLoc(s, p) /\ p.msg.peer = a /\ location'[s][a] = p.msg.in
<1> USE DEF Types
<1>1. ASSUME NEW t \in Server, NEW p \in calls[t], Relay(t, p)
      PROVE  s = t /\ p.from \in Server /\ p.msg.source = a /\ location'[s][a] = p.from
  <2>1. p.msg.source \in Addr /\ RecordLocation(t, p.from, p.msg)
    BY <1>1, RelayForm DEF Relay
  <2> QED BY <2>1 DEF RecordLocation, Learns, Learnt, TypeOK
<1>2. ASSUME NEW t \in Server, NEW p \in calls[t], HandleLoc(t, p)
      PROVE  s = t /\ p.msg.peer = a /\ location'[s][a] = p.msg.in
  BY <1>2 DEF HandleLoc, TypeOK
<1>3. ASSUME NEW t \in Server, NEW p \in calls[t], HandleOffline(t, p) PROVE FALSE
  BY <1>3 DEF HandleOffline, TypeOK
<1>4. ASSUME NEW t \in Server, NEW c \in Conn, Register(t, c) \/ Unregister(t, c) PROVE FALSE
  BY <1>4 DEF Register, Unregister
<1>5. CASE \/ \E c \in Conn : Connect(c) \/ Disconnect(c)
           \/ \E m \in Chat : Send(m)
           \/ \E t, u \in Server : Break(t, u) \/ LinkEnds(t, u) \/ UnregisterServer(t, u)
  BY <1>5 DEF Connect, Disconnect, Send, Break, LinkEnds, UnregisterServer
<1> QED BY <1>1, <1>2, <1>3, <1>4, <1>5 DEF Next, Hub

(* Where a new session comes from.                                          *)
LEMMA NewSessions ==
  ASSUME Types, Next, NEW c \in Conn, NEW a \in Addr,
         sessions'[c][a] # sessions[c][a]
  PROVE  \E s \in Server : \E p \in calls[s] :
           \/ /\ Relay(s, p) /\ c \in Peers(s, p.msg.source) /\ sessions'[c][a] = s
           \/ /\ Relay(s, p) /\ c \in Peers(s, p.msg.dest) /\ p.msg.source = a
              /\ sessions'[c][a] = IF p.from \in Client THEN s ELSE p.from
           \/ HandleLoc(s, p) /\ p.msg.peer = a /\ sessions'[c][a] = p.msg.in
<1> USE DEF Types
<1>0. sessions \in Sessions
  BY DEF Sessions, TypeOK
<1>1. ASSUME NEW s \in Server, NEW p \in calls[s], Relay(s, p)
      PROVE  \/ c \in Peers(s, p.msg.source) /\ sessions'[c][a] = s
             \/ /\ c \in Peers(s, p.msg.dest) /\ p.msg.source = a
                /\ sessions'[c][a] = IF p.from \in Client THEN s ELSE p.from
  <2> DEFINE first == AddSession(sessions, Peers(s, p.msg.source), p.msg.dest, s)
             from == IF p.from \in Client THEN s ELSE p.from
  <2>1. p.msg.source \in Addr /\ p.msg.dest \in Addr /\ from \in Server
    BY <1>1, RelayForm DEF Relay
  <2>2. sessions' = AddSession(first, Peers(s, p.msg.dest), p.msg.source, from)
    BY <1>1 DEF Relay, RecordSession
  <2>3. first \in Sessions /\ (first[c][a] # sessions[c][a] =>
                                 c \in Peers(s, p.msg.source) /\ first[c][a] = s)
    BY <1>0, <2>1, SessionsAdded
  <2>4. sessions'[c][a] # first[c][a] =>
          c \in Peers(s, p.msg.dest) /\ a = p.msg.source /\ sessions'[c][a] = from
    <3> HIDE DEF first, from
    <3> QED BY <2>1, <2>2, <2>3, SessionsAdded
  <2> QED BY <2>3, <2>4
<1>2. ASSUME NEW s \in Server, NEW p \in calls[s], HandleLoc(s, p)
      PROVE  p.msg.peer = a /\ sessions'[c][a] = p.msg.in
  <2>1. p \in Packet
    BY DEF TypeOK
  <2>2. p.msg.peer \in Addr /\ p.msg.in \in Server
    BY <1>2, <2>1, PacketForms, MessageForms, Constants DEF HandleLoc
  <2>3. sessions' = AddSession(sessions, Peers(s, p.msg.target), p.msg.peer, p.msg.in)
    BY <1>2 DEF HandleLoc
  <2> QED BY <1>0, <2>2, <2>3, SessionsAdded
<1>3. ASSUME NEW s \in Server, NEW p \in calls[s], HandleOffline(s, p) PROVE FALSE
  <2>1. p \in Packet
    BY DEF TypeOK
  <2>2. p.msg.peer \in Addr
    BY <1>3, <2>1, PacketForms, MessageForms, Constants DEF HandleOffline
  <2>3. sessions' = DelSession(sessions, UNION {Peers(s, b) : b \in p.msg.targets}, p.msg.peer)
    BY <1>3 DEF HandleOffline
  <2> QED BY <1>0, <2>2, <2>3, SessionsDeleted
<1>4. ASSUME NEW s \in Server, NEW d \in Conn, Register(s, d) \/ Unregister(s, d) PROVE FALSE
  BY <1>4 DEF Register, Unregister
<1>5. CASE \/ \E d \in Conn : Connect(d) \/ Disconnect(d)
           \/ \E m \in Chat : Send(m)
           \/ \E t, u \in Server : Break(t, u) \/ LinkEnds(t, u) \/ UnregisterServer(t, u)
  BY <1>5 DEF Connect, Disconnect, Send, Break, LinkEnds, UnregisterServer
<1> QED BY <1>1, <1>2, <1>3, <1>4, <1>5 DEF Next, Hub

(* How the connection changes that is registered for a client.              *)
LEMMA NewPeers ==
  ASSUME Types, Next, NEW s \in Server, NEW a \in Addr,
         clientPeers'[s][a] # clientPeers[s][a]
  PROVE  \E c \in Conn : /\ AddrOf[c] = a
           /\ \/ Register(s, c) /\ clientPeers'[s][a] = c
              \/ /\ Unregister(s, c) /\ clientPeers[s][a] = c
                 /\ clientPeers'[s][a] = NoConn
<1> USE DEF Types
<1>0. ASSUME NEW t \in Server, NEW c \in Conn, NEW k,
             clientPeers' = [clientPeers EXCEPT ![t][AddrOf[c]] = k]
      PROVE  t = s /\ AddrOf[c] = a /\ clientPeers'[s][a] = k
  <2>1. AddrOf[c] \in Addr
    BY Constants
  <2>2. \A u \in Server : \A b \in Addr :
          clientPeers'[u][b] = IF u = t /\ b = AddrOf[c] THEN k ELSE clientPeers[u][b]
    BY <1>0, <2>1 DEF TypeOK
  <2> QED BY <2>2
<1>1. ASSUME NEW t \in Server, NEW c \in Conn, Register(t, c)
      PROVE  t = s /\ AddrOf[c] = a /\ clientPeers'[s][a] = c
  <2>1. UNCHANGED clientPeers \/ clientPeers' = [clientPeers EXCEPT ![t][AddrOf[c]] = c]
    BY <1>1 DEF Register
  <2> QED BY <1>0, <2>1
<1>2. ASSUME NEW t \in Server, NEW c \in Conn, Unregister(t, c)
      PROVE  /\ t = s /\ AddrOf[c] = a /\ clientPeers[s][a] = c
             /\ clientPeers'[s][a] = NoConn
  <2>1. \/ UNCHANGED clientPeers
        \/ /\ clientPeers[t][AddrOf[c]] = c
           /\ clientPeers' = [clientPeers EXCEPT ![t][AddrOf[c]] = NoConn]
    BY <1>2 DEF Unregister, IsAlive
  <2> QED BY <1>0, <2>1
<1>3. ASSUME NEW t \in Server, NEW p \in calls[t],
             Relay(t, p) \/ HandleLoc(t, p) \/ HandleOffline(t, p)
      PROVE  FALSE
  BY <1>3 DEF Relay, HandleLoc, HandleOffline
<1>4. CASE \/ \E d \in Conn : Connect(d) \/ Disconnect(d)
           \/ \E m \in Chat : Send(m)
           \/ \E t, u \in Server : Break(t, u) \/ LinkEnds(t, u) \/ UnregisterServer(t, u)
  BY <1>4 DEF Connect, Disconnect, Send, Break, LinkEnds, UnregisterServer
<1> QED BY <1>1, <1>2, <1>3, <1>4 DEF Next, Hub
-----------------------------------------------------------------------------
(* Every packet under way speaks of what was there when it was sent.        *)
ChatTrue(s, f, m) ==
  /\ m \in sent
  /\ IF f \in Client THEN Via[m] \in Conn /\ HomeOf[Via[m]] = s /\ conn[Via[m]] # "new"
     ELSE Visited(Source[m], f) \/ (f = s /\ SpokenFor(Source[m], s))
KillTrue(s, f, c) == f = HomeOf[c] /\ f # s /\ conn[c] # "new"

RelayTrue(s, f, msg) ==
  /\ msg.type = "chat" => ChatTrue(s, f, msg.id)
  /\ msg.type = "kill" => KillTrue(s, f, msg.id)
  /\ msg.type = "loc" => Visited(msg.peer, msg.in)

PacketTrue(s, p) ==
  /\ p.use = "add" => HomeOf[p.conn] = s /\ conn[p.conn] # "new"
  /\ p.use = "del" => HomeOf[p.conn] = s /\ conn[p.conn] = "down"
  /\ p.use = "delserver" => p.server \in Others(s) /\ link[s][p.server] = "ended"
  /\ p.use = "relay" => RelayTrue(s, p.from, p.msg)

PacketsTrue == \A s \in Server : \A p \in calls[s] : PacketTrue(s, p)
MInv == Types /\ PacketsTrue /\ MapsTrue

(* Who has been there stays one who has been there.                         *)
LEMMA VisitedKept ==
  ASSUME Types, Next
  PROVE  \A a, t : /\ Visited(a, t) => Visited(a, t)'
                   /\ SpokenFor(a, t) => SpokenFor(a, t)'
<1>1. ASSUME NEW a, NEW t, Visited(a, t) PROVE Visited(a, t)'
  BY <1>1, Kept DEF Visited
<1>2. ASSUME NEW a, NEW t, SpokenFor(a, t) PROVE SpokenFor(a, t)'
  BY <1>2, Kept DEF SpokenFor
<1> QED BY <1>1, <1>2

(* A packet that is true stays true while it is under way.                  *)
LEMMA PacketKept ==
  ASSUME Types, Next, NEW s \in Server, NEW p \in calls[s], PacketTrue(s, p)
  PROVE  PacketTrue(s, p)'
<1>1. p \in Packet
  BY DEF Types, TypeOK
<1>2. p.use = "add" => HomeOf[p.conn] = s /\ conn'[p.conn] # "new"
  BY <1>1, PacketForms, Kept DEF PacketTrue
<1>3. p.use = "del" => HomeOf[p.conn] = s /\ conn'[p.conn] = "down"
  BY <1>1, PacketForms, Kept DEF PacketTrue
<1>4. p.use = "delserver" => p.server \in Others(s) /\ link'[s][p.server] = "ended"
  BY <1>1, PacketForms, Kept DEF PacketTrue
<1>5. ASSUME p.use = "relay" PROVE RelayTrue(s, p.from, p.msg)'
  <2>1. p.msg \in Message
    BY <1>1, <1>5, PacketForms
  <2>2. p.msg.type = "chat" => ChatTrue(s, p.from, p.msg.id)'
    BY <1>5, <2>1, MessageForms, Kept, VisitedKept DEF PacketTrue, RelayTrue, ChatTrue
  <2>3. p.msg.type = "kill" => KillTrue(s, p.from, p.msg.id)'
    BY <1>5, <2>1, MessageForms, Kept DEF PacketTrue, RelayTrue, KillTrue
  <2>4. p.msg.type = "loc" => Visited(p.msg.peer, p.msg.in)'
    BY <1>5, VisitedKept DEF PacketTrue, RelayTrue
  <2> QED BY <2>2, <2>3, <2>4 DEF RelayTrue
<1> QED BY <1>2, <1>3, <1>4, <1>5 DEF PacketTrue

(* Who a relayed message is from has been at the server that sends it on.   *)
LEMMA SourceHere ==
  ASSUME Types, PacketsTrue, NEW s \in Server, NEW p \in calls[s], Relay(s, p)
  PROVE  /\ p.from \in Server => \/ Visited(p.msg.source, p.from)
                                 \/ p.from = s /\ SpokenFor(p.msg.source, s)
         /\ p.from \notin Server => /\ p.from \in Client /\ p.msg.type = "chat"
                                    /\ p.msg.id \in sent /\ Visited(p.msg.source, s)
<1>1. /\ p.from \in Client \cup Server /\ p.msg \in Message /\ p.use = "relay"
      /\ p.msg.type \in {"chat", "kill"} /\ RelayTrue(s, p.from, p.msg)
  BY RelayForm DEF Relay, Types, PacketsTrue, PacketTrue
<1>2. CASE p.msg.type = "chat"
  <2>1. /\ p.msg.id \in Chat /\ p.msg.source = Source[p.msg.id]
        /\ ChatTrue(s, p.from, p.msg.id)
    BY <1>1, <1>2, MessageForms DEF RelayTrue
  <2>2. p.from \in Server => p.from \notin Client
    BY DisjointAssumption
  <2>3. ASSUME p.from \in Client PROVE Visited(p.msg.source, s)
    BY <2>1, <2>3, ChatAssumption DEF ChatTrue, Visited
  <2> QED BY <1>1, <1>2, <2>1, <2>2, <2>3 DEF ChatTrue
<1>3. CASE p.msg.type = "kill"
  <2>1. /\ p.msg.id \in Conn /\ p.msg.source = AddrOf[p.msg.id]
        /\ KillTrue(s, p.from, p.msg.id)
    BY <1>1, <1>3, MessageForms DEF RelayTrue
  <2>2. p.from \in Server /\ Visited(p.msg.source, p.from)
    BY <2>1, Constants DEF KillTrue, Visited
  <2> QED BY <2>2
<1> QED BY <1>1, <1>2, <1>3

(* What is sent is true when it is sent.                                    *)
LEMMA PacketsStep == ASSUME MInv, Next PROVE PacketsTrue'
<1> USE DEF MInv
<1> SUFFICES ASSUME NEW t \in Server, NEW q \in calls'[t], q \notin calls[t]
             PROVE  PacketTrue(t, q)'
  BY PacketKept DEF PacketsTrue
<1>0. NewPacket(t, q)
  BY NewPackets
<1>1. ASSUME NEW c \in Conn, Connect(c), t = HomeOf[c], q = Add(c)
      PROVE  PacketTrue(t, q)'
  <2>1. conn'[c] = "up"
    BY <1>1 DEF Connect, Types, TypeOK
  <2> QED BY <1>1, <2>1 DEF PacketTrue, Add
<1>2. ASSUME NEW c \in Conn, Disconnect(c), t = HomeOf[c], q = Del(c)
      PROVE  PacketTrue(t, q)'
  <2>1. conn'[c] = "down"
    BY <1>2 DEF Disconnect, Types, TypeOK
  <2> QED BY <1>2, <2>1 DEF PacketTrue, Del
<1>3. ASSUME NEW m \in Chat, Send(m), t = Entry(m), q = Entering(m)
      PROVE  PacketTrue(t, q)'
  <2>1. /\ q.use = "relay" /\ q.msg.type = "chat" /\ q.msg.id = m
        /\ q.from = IF Via[m] \in Conn THEN Source[m] ELSE Via[m]
    BY <1>3 DEF Entering, RelayOf, ChatMsg
  <2>2. m \in sent' /\ (Via[m] \in Conn => conn'[Via[m]] # "new")
    BY <1>3 DEF Send
  <2>3. ChatTrue(t, q.from, m)'
    <3>1. CASE Via[m] \in Conn
      BY <1>3, <2>1, <2>2, <3>1, Constants DEF ChatTrue, Entry
    <3>2. CASE Via[m] \notin Conn
      <4>1. q.from = t /\ q.from \notin Client
        BY <1>3, <2>1, <3>2, DisjointAssumption DEF Entry
      <4>2. SpokenFor(Source[m], t)'
        BY <1>3, <2>2, <3>2 DEF SpokenFor, Entry
      <4> QED BY <2>2, <4>1, <4>2 DEF ChatTrue
    <3> QED BY <3>1, <3>2
  <2> QED BY <2>1, <2>3 DEF PacketTrue, RelayTrue
<1>4. ASSUME NEW u \in Server, u # t, LinkEnds(t, u), q = DelServer(u)
      PROVE  PacketTrue(t, q)'
  <2>1. u \in Others(t) /\ link'[t][u] = "ended"
    BY <1>4 DEF LinkEnds, Types, TypeOK, Others
  <2> QED BY <1>4, <2>1 DEF PacketTrue, DelServer
<1>5. ASSUME NEW s \in Server, NEW c \in Conn, Register(s, c), t \in serverPeers[s],
             q = RelayOf(s, KillMsg(c))
      PROVE  PacketTrue(t, q)'
  <2>1. HomeOf[c] = s /\ conn[c] # "new"
    BY <1>5 DEF Register, PacketsTrue, PacketTrue, Add
  <2>2. conn'[c] # "new"
    BY <1>5, <2>1, Kept
  <2>3. s # t
    BY <1>5 DEF Types, TypeOK, Others
  <2>4. /\ q.use = "relay" /\ q.from = s /\ q.msg.type = "kill" /\ q.msg.id = c
    BY <1>5 DEF RelayOf, KillMsg
  <2> QED BY <2>1, <2>2, <2>3, <2>4 DEF PacketTrue, RelayTrue, KillTrue
<1>6. ASSUME NEW s \in Server, NEW c \in Conn, NEW u \in Server,
             q = RelayOf(s, OfflineMsg(c, TargetsAt(c, u)))
      PROVE  PacketTrue(t, q)'
  BY <1>6 DEF RelayOf, OfflineMsg, PacketTrue, RelayTrue
<1>7. ASSUME NEW s \in Server, NEW p \in calls[s], Relay(s, p),
             t \in Locating(s, p.from, p.msg), q = Located(s, p)
      PROVE  PacketTrue(t, q)'
  <2>1. p.msg.dest \in Addr
    BY <1>7, RelayForm DEF Relay, Types
  <2>2. p.msg.dest \in Client /\ Peers(s, p.msg.dest) # {}
    BY <1>7, <2>1, LocatingClient DEF Types, Locating
  <2>3. PICK c \in Conn : c \in Peers(s, p.msg.dest)
    BY <2>1, <2>2, PeersType DEF Types
  <2>4. Visited(p.msg.dest, s)
    BY <2>2, <2>3 DEF MapsTrue, Visited
  <2>5. Visited(p.msg.dest, s)'
    BY <2>4, VisitedKept
  <2>6. q.use = "relay" /\ q.msg.type = "loc" /\ q.msg.peer = p.msg.dest /\ q.msg.in = s
    BY <1>7 DEF Located, RelayOf, LocMsg
  <2> QED BY <2>5, <2>6 DEF PacketTrue, RelayTrue
<1>8. ASSUME NEW s \in Server, NEW p \in calls[s], Relay(s, p),
             t \in Forward(s, p.from, p.msg), q = RelayOf(s, p.msg)
      PROVE  PacketTrue(t, q)'
  <2>1. p.from \notin Server
    BY <1>8 DEF Forward
  <2>2. p.msg.type = "chat" /\ p.msg.id \in sent /\ Visited(p.msg.source, s)
    BY <1>8, <2>1, SourceHere
  <2>3. p.msg.source = Source[p.msg.id]
    BY <1>8, <2>2, RelayForm, MessageForms DEF Relay, Types
  <2>4. Visited(Source[p.msg.id], s)' /\ p.msg.id \in sent'
    BY <2>2, <2>3, VisitedKept, Kept
  <2>5. s \notin Client
    BY DisjointAssumption
  <2>6. q.use = "relay" /\ q.from = s /\ q.msg = p.msg
    BY <1>8 DEF RelayOf
  <2> QED BY <2>2, <2>4, <2>5, <2>6 DEF PacketTrue, RelayTrue, ChatTrue
<1> QED BY <1>0, <1>1, <1>2, <1>3, <1>4, <1>5, <1>6, <1>7, <1>8 DEF NewPacket

(* What a handler writes down is true when it writes it.                    *)
LEMMA MapsStep == ASSUME MInv, Next PROVE MapsTrue'
<1> USE DEF MInv
<1>1. ASSUME NEW s \in Server, NEW a \in Client, NEW c \in Peers(s, a)'
      PROVE  AddrOf[c] = a /\ HomeOf[c] = s /\ conn'[c] # "new"
  <2>1. c = clientPeers'[s][a] /\ c # NoConn /\ a \in Addr
    BY <1>1, Constants DEF Peers
  <2>2. CASE clientPeers'[s][a] = clientPeers[s][a]
    <3>1. c \in Peers(s, a)
      BY <2>1, <2>2 DEF Peers
    <3>2. c \in Conn /\ AddrOf[c] = a /\ HomeOf[c] = s /\ conn[c] # "new"
      BY <2>1, <3>1, PeersType DEF MapsTrue, Types
    <3> QED BY <3>2, Kept
  <2>3. CASE clientPeers'[s][a] # clientPeers[s][a]
    <3>1. c \in Conn /\ AddrOf[c] = a /\ Register(s, c)
      BY <2>1, <2>3, NewPeers
    <3>2. HomeOf[c] = s /\ conn[c] # "new"
      BY <3>1 DEF Register, PacketsTrue, PacketTrue, Add
    <3> QED BY <3>1, <3>2, Kept
  <2> QED BY <2>2, <2>3
<1>2. ASSUME NEW s \in Server, NEW a \in Client, location'[s][a] # NoServer
      PROVE  \/ \E c \in Conn : AddrOf[c] = a /\ HomeOf[c] = location'[s][a] /\ conn'[c] # "new"
             \/ location'[s][a] = s /\ SpokenFor(a, s)'
  <2> PICK t : t = location'[s][a]
    OBVIOUS
  <2> SUFFICES Visited(a, t)' \/ (t = s /\ SpokenFor(a, s)')
    BY DEF Visited
  <2>1. CASE location'[s][a] = location[s][a]
    <3>1. Visited(a, t) \/ (t = s /\ SpokenFor(a, s))
      BY <1>2, <2>1 DEF MapsTrue
    <3> QED BY <3>1, VisitedKept
  <2>2. CASE location'[s][a] # location[s][a]
    <3>1. PICK p \in calls[s] :
            \/ /\ Relay(s, p) /\ p.from \in Server /\ p.msg.source = a
               /\ location'[s][a] = p.from
            \/ HandleLoc(s, p) /\ p.msg.peer = a /\ location'[s][a] = p.msg.in
      BY <1>2, <2>2, NewLocations, Constants
    <3>2. CASE Relay(s, p)
      <4>1. p.use = "relay" /\ p.msg.type # "loc"
        BY <3>2 DEF Relay
      <4>2. p.from \in Server /\ p.msg.source = a /\ location'[s][a] = p.from
        BY <3>1, <4>1 DEF HandleLoc
      <4> QED BY <3>2, <4>2, SourceHere, VisitedKept
    <3>3. CASE HandleLoc(s, p)
      <4>1. p.use = "relay" /\ p.msg.type = "loc"
        BY <3>3 DEF HandleLoc
      <4>2. Visited(p.msg.peer, p.msg.in)
        BY <4>1 DEF PacketsTrue, PacketTrue, RelayTrue
      <4>3. p.msg.peer = a /\ location'[s][a] = p.msg.in
        BY <3>1, <4>1 DEF Relay
      <4> QED BY <4>2, <4>3, VisitedKept
    <3> QED BY <3>1, <3>2, <3>3
  <2> QED BY <2>1, <2>2
<1>3. ASSUME NEW c \in Conn, NEW a \in Client,
             sessions'[c][a] \notin {NoServer, HomeOf[c]}
      PROVE  \E d \in Conn : AddrOf[d] = a /\ HomeOf[d] = sessions'[c][a] /\ conn'[d] # "new"
  <2> PICK t : t = sessions'[c][a]
    OBVIOUS
  <2> SUFFICES Visited(a, t)'
    BY DEF Visited
  <2>1. CASE sessions'[c][a] = sessions[c][a]
    <3>1. Visited(a, t)
      BY <1>3, <2>1 DEF MapsTrue
    <3> QED BY <3>1, VisitedKept
  <2>2. CASE sessions'[c][a] # sessions[c][a]
    <3>1. PICK s \in Server : \E p \in calls[s] :
            \/ /\ Relay(s, p) /\ c \in Peers(s, p.msg.source) /\ sessions'[c][a] = s
            \/ /\ Relay(s, p) /\ c \in Peers(s, p.msg.dest) /\ p.msg.source = a
               /\ sessions'[c][a] = IF p.from \in Client THEN s ELSE p.from
            \/ HandleLoc(s, p) /\ p.msg.peer = a /\ sessions'[c][a] = p.msg.in
      BY <2>2, NewSessions, Constants
    <3>2. PICK p \in calls[s] :
            \/ /\ Relay(s, p) /\ c \in Peers(s, p.msg.source) /\ sessions'[c][a] = s
            \/ /\ Relay(s, p) /\ c \in Peers(s, p.msg.dest) /\ p.msg.source = a
               /\ sessions'[c][a] = IF p.from \in Client THEN s ELSE p.from
            \/ HandleLoc(s, p) /\ p.msg.peer = a /\ sessions'[c][a] = p.msg.in
      BY <3>1
    <3>3. CASE Relay(s, p)
      <4>1. /\ p.use = "relay" /\ p.msg.type # "loc"
            /\ p.msg.source \in Client /\ p.msg.dest \in Addr
        BY <3>3, RelayForm DEF Relay, Types
      <4>2. ASSUME c \in Peers(s, p.msg.source) \/ c \in Peers(s, p.msg.dest)
            PROVE  HomeOf[c] = s
        <5>1. \A b \in Addr : c \in Peers(s, b) => b \in Client
          BY Constants DEF Types, NobodyIsEveryone, Peers, Addr
        <5> QED BY <4>1, <4>2, <5>1, Constants DEF MapsTrue
      <4>3. /\ HomeOf[c] = s /\ p.msg.source = a
            /\ sessions'[c][a] = IF p.from \in Client THEN s ELSE p.from
        BY <1>3, <3>2, <4>1, <4>2 DEF HandleLoc
      <4>4. sessions'[c][a] = p.from /\ p.from \notin Client
        BY <1>3, <4>3
      <4>5. Visited(a, p.from)
        BY <1>3, <3>3, <4>3, <4>4, SourceHere
      <4> QED BY <4>4, <4>5, VisitedKept
    <3>4. CASE HandleLoc(s, p)
      <4>1. p.use = "relay" /\ p.msg.type = "loc"
        BY <3>4 DEF HandleLoc
      <4>2. Visited(p.msg.peer, p.msg.in)
        BY <4>1 DEF PacketsTrue, PacketTrue, RelayTrue
      <4>3. p.msg.peer = a /\ sessions'[c][a] = p.msg.in
        BY <3>2, <4>1 DEF Relay
      <4> QED BY <4>2, <4>3, VisitedKept
    <3> QED BY <3>2, <3>3, <3>4
  <2> QED BY <2>1, <2>2
<1> QED BY <1>1, <1>2, <1>3 DEF MapsTrue, Visited

(* A step of somebody else changes nothing.                                 *)
LEMMA MapsStutter == ASSUME MInv, UNCHANGED vars PROVE MInv'
<1> USE DEF vars, links
<1>1. Types'
  BY TypeStutter DEF MInv
<1>2. PacketsTrue'
  BY DEF MInv, PacketsTrue, PacketTrue, RelayTrue, ChatTrue, KillTrue, Visited, SpokenFor
<1>3. MapsTrue'
  BY DEF MInv, MapsTrue, Visited, SpokenFor, Peers
<1> QED BY <1>1, <1>2, <1>3 DEF MInv

(* What is under way and what is written down is true, always.              *)
LEMMA MapsHold == Spec => []MInv
<1>1. Init => MInv
  <2> SUFFICES ASSUME Init PROVE MInv
    OBVIOUS
  <2>1. Types
    BY TypeInit, Constants DEF Types, NobodyIsEveryone, Paired, Init, Others
  <2> QED BY <2>1, Constants DEF Init, MInv, PacketsTrue, MapsTrue, Peers
<1>2. MInv /\ [Next]_vars => MInv'
  BY TypeStep, PacketsStep, MapsStep, MapsStutter DEF MInv
<1> QED BY <1>1, <1>2, PTL DEF Spec

(* What a hub knows of clients is true: who is registered is a connection   *)
(* of that client to that server, and where a client is located, or a       *)
(* session leads, the client has logged in (or somebody spoke for it by     *)
(* HTTP there), whatever is late, lost or cut.                              *)
THEOREM ClusterMapsTrue == Spec => []MapsTrue
  BY MapsHold, PTL DEF MInv
-----------------------------------------------------------------------------
(* A step that handles packet p of server s.                                *)
Handles(s, p) ==
  \/ \E c \in Conn : p = Add(c) /\ Register(s, c)
  \/ \E c \in Conn : p = Del(c) /\ Unregister(s, c)
  \/ \E t \in Server : p = DelServer(t) /\ UnregisterServer(s, t)
  \/ p \in calls[s] /\ (Relay(s, p) \/ HandleLoc(s, p) \/ HandleOffline(s, p))

(* A packet goes when it is handled, or is lost with the link it is on.     *)
LEMMA GonePackets ==
  ASSUME Types, Next, NEW t \in Server, NEW q \in calls[t], q \notin calls'[t]
  PROVE  \/ Handles(t, q)
         \/ \E s \in Server : /\ Break(s, t) \/ Break(t, s)
                              /\ q.use = "relay" /\ q.from = s
<1> USE DEF Types
<1>0. ASSUME NEW s \in Server, NEW p, NEW out, Handled(s, p, out) PROVE s = t /\ q = p
  BY <1>0, HandledCalls
<1>1. ASSUME NEW c \in Conn, Connect(c) \/ Disconnect(c) PROVE FALSE
  <2>1. ASSUME NEW s, NEW k, calls' = [calls EXCEPT ![s] = @ \cup {k}] PROVE FALSE
    BY <2>1 DEF TypeOK
  <2> QED BY <1>1, <2>1 DEF Connect, Disconnect
<1>2. ASSUME NEW m \in Chat, Send(m) PROVE FALSE
  BY <1>2 DEF Send, TypeOK
<1>3. ASSUME NEW s \in Server, NEW u \in Server, Break(s, u)
      PROVE  q.use = "relay" /\ ((t = u /\ q.from = s) \/ (t = s /\ q.from = u))
  <2>1. PICK lost \in SUBSET {p \in calls[u] : p.use = "relay" /\ p.from = s},
             back \in SUBSET {p \in calls[s] : p.use = "relay" /\ p.from = u} :
          calls' = [calls EXCEPT ![u] = @ \ lost, ![s] = @ \ back]
    BY <1>3 DEF Break
  <2>2. s # u /\ DOMAIN calls = Server
    BY <1>3 DEF Break, TypeOK
  <2>3. \/ t = u /\ q \in lost
        \/ t = s /\ q \in back
    BY <2>1, <2>2
  <2> QED BY <2>3
<1>4. ASSUME NEW s \in Server, NEW u \in Server, LinkEnds(s, u) PROVE FALSE
  BY <1>4 DEF LinkEnds, TypeOK
<1>5. ASSUME NEW s \in Server, NEW c \in Conn, Register(s, c) PROVE Handles(t, q)
  <2>1. \E out : Handled(s, Add(c), out)
    BY <1>5 DEF Register
  <2> QED BY <1>0, <1>5, <2>1 DEF Handles
<1>6. ASSUME NEW s \in Server, NEW c \in Conn, Unregister(s, c) PROVE Handles(t, q)
  <2>1. \E out : Handled(s, Del(c), out)
    <3>1. CASE IsAlive(s, c)
      <4> DEFINE alive == clientPeers[s][AddrOf[c]]
                 Targets(u) == {a \in Addr : sessions[alive][a] = u}
                 Offline(u) == RelayOf(s, OfflineMsg(c, Targets(u)))
                 away == SessionServers(alive) \cap serverPeers[s]
                 here == SessionServers(alive) \ away
      <4>1. PICK ts : Handled(s, Del(c), [u \in Server |->
               IF u = s THEN {Offline(v) : v \in ts \cap here}
               ELSE IF u \in ts \cap away THEN {Offline(u)} ELSE {}])
        BY <1>6, <3>1 DEF Unregister
      <4> QED BY <4>1
    <3>2. CASE ~IsAlive(s, c)
      BY <1>6, <3>2 DEF Unregister
    <3> QED BY <3>1, <3>2
  <2> QED BY <1>0, <1>6, <2>1 DEF Handles
<1>7. ASSUME NEW s \in Server, NEW u \in Server, UnregisterServer(s, u) PROVE Handles(t, q)
  BY <1>0, <1>7 DEF UnregisterServer, Handles
<1>8. ASSUME NEW s \in Server, NEW p \in calls[s],
             Relay(s, p) \/ HandleLoc(s, p) \/ HandleOffline(s, p)
      PROVE  Handles(t, q)
  <2>1. \E out : Handled(s, p, out)
    <3>1. CASE Relay(s, p)
      <4> DEFINE asked == Locating(s, p.from, p.msg)
      <4>1. PICK ts : Handled(s, p, Both(ToEach(asked \ EndedLinks(s, asked), Located(s, p)),
                                         ToEach(ts, RelayOf(s, p.msg))))
        BY <3>1 DEF Relay, Located
      <4> QED BY <4>1
    <3>2. CASE HandleLoc(s, p) \/ HandleOffline(s, p)
      BY <3>2 DEF HandleLoc, HandleOffline
    <3> QED BY <1>8, <3>1, <3>2
  <2>2. s = t /\ q = p
    BY <1>0, <2>1
  <2> QED BY <1>8, <2>2 DEF Handles
<1>9. \/ Handles(t, q)
      \/ \E s \in Server, u \in Server : Break(s, u)
  BY <1>1, <1>2, <1>4, <1>5, <1>6, <1>7, <1>8 DEF Next, Hub
<1> QED BY <1>3, <1>9

(* What a step pushes to the connections, and to which.                     *)
Gets(c, msg) ==
  \/ \E s \in Server, d \in Conn :
       Register(s, d) /\ c \in Peers(s, AddrOf[d]) /\ msg = KillMsg(d)
  \/ \E s \in Server : \E p \in calls[s] :
       Relay(s, p) /\ c \in Receivers(s, p.msg.dest) /\ msg = p.msg
  \/ \E s \in Server : \E p \in calls[s] : \E a \in p.msg.targets :
       HandleOffline(s, p) /\ c \in Peers(s, a) /\ msg = NoticeMsg(p.msg.id)

(* A step only adds to what was pushed, and only what it pushes.            *)
LEMMA Pushes ==
  ASSUME Types, Next
  PROVE  /\ \A c \in Conn : got[c] \subseteq got'[c]
         /\ \A c \in Conn : \A msg \in got'[c] : msg \notin got[c] => Gets(c, msg)
         /\ \A x \in again' : x \notin again =>
              \E c \in Conn : \E msg \in got[c] : Gets(c, msg)
<1> USE DEF Types
<1> DEFINE Goal ==
      /\ \A c \in Conn : got[c] \subseteq got'[c]
      /\ \A c \in Conn : \A msg \in got'[c] : msg \notin got[c] => Gets(c, msg)
      /\ \A x \in again' : x \notin again =>
           \E c \in Conn : \E msg \in got[c] : Gets(c, msg)
<1>0. CASE UNCHANGED <<got, again>>
  BY <1>0
<1>1. ASSUME NEW cs, NEW msg, Push(cs, msg), cs \subseteq Conn,
             \A c \in cs : Gets(c, msg)
      PROVE  Goal
  <2>1. \A c \in Conn : got'[c] = IF c \in cs THEN got[c] \cup {msg} ELSE got[c]
    BY <1>1 DEF Push
  <2>2. \A x \in again' : x \notin again => \E c \in cs : msg \in got[c]
    BY <1>1 DEF Push
  <2>3. /\ \A c \in Conn : got[c] \subseteq got'[c]
        /\ \A c \in Conn : \A m \in got'[c] : m \notin got[c] => Gets(c, m)
    BY <1>1, <2>1
  <2> HIDE DEF Gets
  <2>4. \A x \in again' : x \notin again =>
          \E c \in Conn : \E m \in got[c] : Gets(c, m)
    BY <1>1, <2>2
  <2> QED BY <2>3, <2>4
<1>2. ASSUME NEW s \in Server, NEW d \in Conn, Register(s, d) PROVE Goal
  <2> DEFINE cs == Peers(s, AddrOf[d]) \ Ended(Peers(s, AddrOf[d]))
  <2>1. Push(cs, KillMsg(d))
    BY <1>2 DEF Register
  <2>2. cs \subseteq Conn /\ \A c \in cs : Gets(c, KillMsg(d))
    BY <1>2, PeersType, Constants DEF Gets
  <2> HIDE DEF cs
  <2> QED BY <1>1, <2>1, <2>2
<1>3. ASSUME NEW s \in Server, NEW p \in calls[s], Relay(s, p) PROVE Goal
  <2> DEFINE asked == Locating(s, p.from, p.msg)
             unasked == EndedLinks(s, asked)
             on == IF unasked = {} THEN Forward(s, p.from, p.msg) ELSE {}
             cut == unasked \cup EndedLinks(s, on)
             cs == IF cut = {} THEN Receivers(s, p.msg.dest) ELSE {}
  <2>1. PICK ds \in Pushed(cs, Ended(cs)) : Push(ds, p.msg)
    BY <1>3 DEF Relay
  <2>2. p.msg.dest \in Addr
    BY <1>3, RelayForm DEF Relay
  <2>3. ds \subseteq Receivers(s, p.msg.dest)
    BY <2>1 DEF Pushed
  <2>4. ds \subseteq Conn /\ \A c \in ds : Gets(c, p.msg)
    BY <1>3, <2>2, <2>3, ReceiversHere DEF Gets
  <2> QED BY <1>1, <2>1, <2>4
<1>4. ASSUME NEW s \in Server, NEW p \in calls[s], HandleOffline(s, p) PROVE Goal
  <2> DEFINE here == UNION {Peers(s, a) : a \in p.msg.targets}
             notified == IF p.msg.id \in Notify THEN here ELSE {}
  <2>1. PICK cs \in Pushed(notified, Ended(notified)) : Push(cs, NoticeMsg(p.msg.id))
    BY <1>4 DEF HandleOffline
  <2>2. cs \subseteq here
    BY <2>1 DEF Pushed
  <2>3. p \in Packet /\ p.use = "relay" /\ p.msg.type = "offline"
    BY <1>4 DEF TypeOK, HandleOffline
  <2>4. p.msg.targets \subseteq Addr
    BY <2>3, PacketForms, MessageForms
  <2>5. cs \subseteq Conn /\ \A c \in cs : \E a \in p.msg.targets : c \in Peers(s, a)
    BY <2>2, <2>4, PeersType
  <2>6. \A c \in cs : Gets(c, NoticeMsg(p.msg.id))
    BY <1>4, <2>5 DEF Gets
  <2> QED BY <1>1, <2>1, <2>5, <2>6
<1>5. CASE UNCHANGED <<got, again>>
  BY <1>5
<1>6. ASSUME NEW s \in Server, NEW c \in Conn, Unregister(s, c) PROVE Goal
  BY <1>5, <1>6 DEF Unregister
<1>7. ASSUME NEW s \in Server, NEW p \in calls[s], HandleLoc(s, p) PROVE Goal
  BY <1>5, <1>7 DEF HandleLoc
<1>8. CASE \/ \E c \in Conn : Connect(c) \/ Disconnect(c)
           \/ \E m \in Chat : Send(m)
           \/ \E t, u \in Server : Break(t, u) \/ LinkEnds(t, u) \/ UnregisterServer(t, u)
  BY <1>5, <1>8 DEF Connect, Disconnect, Send, Break, LinkEnds, UnregisterServer
<1>9. Goal
  BY <1>2, <1>3, <1>4, <1>6, <1>7, <1>8 DEF Next, Hub
<1> QED BY <1>9
-----------------------------------------------------------------------------
(* A handler takes its packet out of the queue, and does not send it again. *)
LEMMA HandledGone ==
  ASSUME Types, NEW s \in Server, NEW p, Handles(s, p)
  PROVE  p \in calls[s] /\ p \notin calls'[s]
<1> USE DEF Types
<1>1. s \notin serverPeers[s]
  BY DEF TypeOK, Others
<1>2. ASSUME NEW out, Handled(s, p, out), p \notin out[s] PROVE p \notin calls'[s]
  BY <1>2, HandledCalls
<1>3. ASSUME NEW c \in Conn, p = Add(c), Register(s, c) PROVE p \notin calls'[s]
  <2> DEFINE old == Peers(s, AddrOf[c])
             scope == IF Ended(old) = {} THEN KillScope(s, old) ELSE {}
  <2>1. PICK ts : Handled(s, Add(c), ToEach(ts, RelayOf(s, KillMsg(c))))
    BY <1>3 DEF Register
  <2>2. p # RelayOf(s, KillMsg(c))
    BY <1>3 DEF Add, RelayOf
  <2>3. p \notin ToEach(ts, RelayOf(s, KillMsg(c)))[s]
    BY <2>2 DEF ToEach
  <2> QED BY <1>2, <1>3, <2>1, <2>3
<1>4. ASSUME NEW c \in Conn, p = Del(c), Unregister(s, c) PROVE p \notin calls'[s]
  <2>1. CASE IsAlive(s, c)
    <3> DEFINE alive == clientPeers[s][AddrOf[c]]
               Targets(u) == {a \in Addr : sessions[alive][a] = u}
               Offline(u) == RelayOf(s, OfflineMsg(c, Targets(u)))
               away == SessionServers(alive) \cap serverPeers[s]
               here == SessionServers(alive) \ away
               Out(ts) == [u \in Server |->
                 IF u = s THEN {Offline(v) : v \in ts \cap here}
                 ELSE IF u \in ts \cap away THEN {Offline(u)} ELSE {}]
    <3>1. PICK ts : Handled(s, Del(c), Out(ts))
      BY <1>4, <2>1 DEF Unregister
    <3>2. \A v : p # Offline(v)
      BY <1>4 DEF Del, RelayOf
    <3>3. Out(ts)[s] = {Offline(v) : v \in ts \cap here}
      OBVIOUS
    <3>4. p \notin Out(ts)[s]
      <4> HIDE DEF Offline, here
      <4> QED BY <3>2, <3>3
    <3> HIDE DEF Out
    <3> QED BY <1>2, <1>4, <3>1, <3>4
  <2>2. CASE ~IsAlive(s, c)
    BY <1>2, <1>4, <2>2 DEF Unregister, Nothing
  <2> QED BY <2>1, <2>2
<1>5. ASSUME NEW t \in Server, p = DelServer(t), UnregisterServer(s, t) PROVE p \notin calls'[s]
  BY <1>2, <1>5 DEF UnregisterServer, Nothing
<1>6. ASSUME p \in calls[s], Relay(s, p) PROVE p \notin calls'[s]
  <2> DEFINE asked == Locating(s, p.from, p.msg)
             unasked == EndedLinks(s, asked)
             on == IF unasked = {} THEN Forward(s, p.from, p.msg) ELSE {}
             Out(ts) == Both(ToEach(asked \ unasked, Located(s, p)), ToEach(ts, RelayOf(s, p.msg)))
  <2>1. PICK ts \in Pushed(on, EndedLinks(s, on)) : Handled(s, p, Out(ts))
    BY <1>6 DEF Relay, Located
  <2>2. s \notin asked /\ s \notin ts
    BY <1>1, <2>1 DEF Locating, Pushed, Forward, Towards
  <2>3. p \notin Out(ts)[s]
    BY <2>2 DEF Both, ToEach
  <2> HIDE DEF Out
  <2> QED BY <1>2, <2>1, <2>3
<1>7. ASSUME p \in calls[s], HandleLoc(s, p) \/ HandleOffline(s, p) PROVE p \notin calls'[s]
  BY <1>2, <1>7 DEF HandleLoc, HandleOffline, Nothing
<1>8. p \in calls[s]
  BY DEF Handles, Register, Unregister, UnregisterServer
<1> QED BY <1>3, <1>4, <1>5, <1>6, <1>7, <1>8 DEF Handles

(* A login whose handler returns is registered and has told whom it replaces.*)
LEMMA LoggedIn ==
  ASSUME Types, NEW s \in Server, NEW c \in Conn, Register(s, c), status'[s] = "run"
  PROVE  /\ clientPeers'[s][AddrOf[c]] = c
         /\ \A d \in Peers(s, AddrOf[c]) : KillMsg(c) \in got'[d]
         /\ \A t \in serverPeers[s] :
              link[s][t] = "up" => RelayOf(s, KillMsg(c)) \in calls'[t]
<1> USE DEF Types
<1> DEFINE old == Peers(s, AddrOf[c])
           scope == IF Ended(old) = {} THEN KillScope(s, old) ELSE {}
           stuck == Ended(old) \cup EndedLinks(s, scope)
<1>1. stuck = {}
  <2>1. HangIf(s, stuck)
    BY DEF Register
  <2> HIDE DEF stuck
  <2> QED BY <2>1, HangStatus
<1>2. Ended(old) = {} /\ scope = serverPeers[s] /\ EndedLinks(s, scope) = {}
  BY <1>1 DEF KillScope
<1>3. clientPeers' = [clientPeers EXCEPT ![s][AddrOf[c]] = c]
  <2>1. clientPeers' = IF stuck = {} THEN [clientPeers EXCEPT ![s][AddrOf[c]] = c]
                       ELSE clientPeers
    BY DEF Register
  <2> HIDE DEF stuck
  <2> QED BY <1>1, <2>1
<1>4. Push(old, KillMsg(c))
  <2>1. Push(old \ Ended(old), KillMsg(c))
    BY DEF Register
  <2>2. old \ Ended(old) = old
    BY <1>2
  <2> QED BY <2>1, <2>2
<1>5. Handled(s, Add(c), ToEach(serverPeers[s], RelayOf(s, KillMsg(c))))
  <2>1. PICK ts \in Pushed(scope, EndedLinks(s, scope)) :
          Handled(s, Add(c), ToEach(ts, RelayOf(s, KillMsg(c))))
    BY DEF Register
  <2>2. ts = serverPeers[s]
    BY <1>2, <2>1 DEF Pushed
  <2> QED BY <2>1, <2>2
<1>6. clientPeers'[s][AddrOf[c]] = c
  BY <1>3, Constants DEF TypeOK
<1>7. \A d \in old : KillMsg(c) \in got'[d]
  <2>1. old \subseteq Conn
    BY PeersType, Constants
  <2> QED BY <1>4, <2>1 DEF Push
<1>8. ASSUME NEW t \in serverPeers[s], link[s][t] = "up"
      PROVE  RelayOf(s, KillMsg(c)) \in calls'[t]
  <2>1. t \in Server /\ t # s
    BY DEF TypeOK, Others
  <2>2. RelayOf(s, KillMsg(c)) \in ToEach(serverPeers[s], RelayOf(s, KillMsg(c)))[t]
    BY <2>1 DEF ToEach
  <2> QED BY <1>5, <1>8, <2>1, <2>2, HandledCalls
<1> QED BY <1>6, <1>7, <1>8

(* The replaced connection is up, else its end blocks the handler: it gets  *)
(* the kill; and only its own end unregisters a connection.                 *)
LEMMA SupersededStep == ASSUME MInv, SupersededKilled, Next PROVE SupersededKilled'
<1> USE DEF MInv
<1> SUFFICES ASSUME NEW c \in Conn, conn'[c] = "up",
                    Add(c) \notin calls'[HomeOf[c]], status'[HomeOf[c]] = "run"
             PROVE  clientPeers'[HomeOf[c]][AddrOf[c]] = c \/ Killed(c)'
  BY DEF SupersededKilled, Registered
<1> DEFINE s == HomeOf[c]
           a == AddrOf[c]
<1>1. s \in Server /\ a \in Addr /\ Add(c) \in Packet
  BY Constants, Packets
<1>2. status[s] = "run" /\ conn[c] # "down"
  BY <1>1, Kept
<1>3. Killed(c) => Killed(c)'
  BY Pushes DEF Killed
<1>4. CASE conn[c] = "new"
  <2>1. Connect(c)
    BY <1>4, Kept DEF Disconnect
  <2>2. Add(c) \in calls'[s]
    BY <1>1, <2>1 DEF Connect, Types, TypeOK
  <2> QED BY <2>2
<1>5. CASE Add(c) \in calls[s]
  <2>1. Handles(s, Add(c))
    <3>1. Add(c).use # "relay"
      BY DEF Add
    <3> QED BY <1>1, <1>5, <3>1, GonePackets
  <2>2. Register(s, c)
    <3>1. PICK d \in Conn : Add(c) = Add(d) /\ Register(s, d)
      BY <2>1 DEF Handles, Add, Del, DelServer, Relay, HandleLoc, HandleOffline
    <3>2. d = c
      BY <3>1 DEF Add
    <3> QED BY <3>1, <3>2
  <2> QED BY <1>1, <2>2, LoggedIn
<1>6. CASE conn[c] = "up" /\ Add(c) \notin calls[s]
  <2>1. clientPeers[s][a] = c \/ Killed(c)
    BY <1>2, <1>6 DEF SupersededKilled, Registered
  <2>2. ASSUME clientPeers[s][a] = c, clientPeers'[s][a] # c PROVE Killed(c)'
    <3>1. PICK d \in Conn : /\ AddrOf[d] = a
            /\ \/ Register(s, d) /\ clientPeers'[s][a] = d
               \/ Unregister(s, d) /\ clientPeers[s][a] = d
      BY <1>1, <2>2, NewPeers
    <3>2. CASE Register(s, d) /\ clientPeers'[s][a] = d
      <4>1. d # c /\ c \in Peers(s, AddrOf[d])
        BY <1>1, <2>2, <3>1, <3>2, PeersType DEF Types
      <4>2. KillMsg(d) \in got'[c]
        BY <1>1, <3>2, <4>1, LoggedIn
      <4> QED BY <4>1, <4>2 DEF Killed
    <3>3. CASE Unregister(s, d) /\ clientPeers[s][a] = d
      <4>1. Del(c) \in calls[s]
        BY <2>2, <3>3 DEF Unregister
      <4>2. conn[c] = "down"
        BY <1>1, <4>1 DEF PacketsTrue, PacketTrue, Del
      <4> QED BY <1>2, <4>2
    <3> QED BY <3>1, <3>2, <3>3
  <2> QED BY <1>3, <2>1, <2>2
<1>7. conn[c] \in {"new", "up", "down"}
  BY DEF Types, TypeOK
<1> QED BY <1>2, <1>4, <1>5, <1>6, <1>7

(* On one server, every connection that is up and was registered is the     *)
(* registered one, or has been sent the kill of the login that replaced it. *)
THEOREM ClusterSupersededKilled == Spec => []SupersededKilled
<1>1. Init => SupersededKilled
  BY DEF Init, SupersededKilled
<1>2. MInv /\ SupersededKilled /\ [Next]_vars => SupersededKilled'
  <2>1. MInv /\ SupersededKilled /\ UNCHANGED vars => SupersededKilled'
    BY DEF vars, SupersededKilled, Registered, Killed
  <2> QED BY <2>1, SupersededStep
<1> QED BY <1>1, <1>2, MapsHold, PTL DEF Spec
-----------------------------------------------------------------------------
(* A hub forgets a server only when it has seen the link to it end.         *)
LinksKnown == \A s \in Server : \A t \in Others(s) :
                link[s][t] # "ended" => t \in serverPeers[s]

(* Of two logins of one client the later one was broadcast, and its kill is *)
(* at the server of the other or has been pushed.                           *)
ToldBy(d, c) == \/ KillMsg(d) \in got[c]
                \/ RelayOf(HomeOf[d], KillMsg(d)) \in calls[HomeOf[c]]
BothIn(c, d) ==
  /\ c # d /\ AddrOf[c] = AddrOf[d] /\ Linked(HomeOf[c], HomeOf[d])
  /\ clientPeers[HomeOf[c]][AddrOf[c]] = c /\ clientPeers[HomeOf[d]][AddrOf[d]] = d
  /\ status[HomeOf[c]] = "run" /\ status[HomeOf[d]] = "run"
RaceInv == \A c, d \in Conn : BothIn(c, d) => ToldBy(d, c) \/ ToldBy(c, d)

(* A link that is broken stays broken.                                      *)
LEMMA LinksDown ==
  ASSUME Types, Next, NEW s \in Server, NEW t \in Others(s), link'[s][t] = "up"
  PROVE  link[s][t] = "up"
<1>1. ASSUME NEW u \in Server, NEW v \in Server, Break(u, v) PROVE link[s][t] = "up"
  BY <1>1, BreakLinks DEF Types
<1>2. ASSUME NEW u \in Server, NEW v \in Server, u # v, LinkEnds(u, v)
      PROVE  link[s][t] = "up"
  BY <1>2 DEF LinkEnds, Types, TypeOK, Others
<1>3. ASSUME NEW u \in Server, NEW c \in Conn, Register(u, c) \/ Unregister(u, c)
      PROVE  UNCHANGED link
  BY <1>3 DEF Register, Unregister, links
<1>4. ASSUME NEW u \in Server, NEW p \in calls[u],
             Relay(u, p) \/ HandleLoc(u, p) \/ HandleOffline(u, p)
      PROVE  UNCHANGED link
  BY <1>4 DEF Relay, HandleLoc, HandleOffline, links
<1>5. CASE \/ \E c \in Conn : Connect(c) \/ Disconnect(c)
           \/ \E m \in Chat : Send(m)
           \/ \E u, v \in Server : UnregisterServer(u, v)
  BY <1>5 DEF Connect, Disconnect, Send, UnregisterServer, links
<1> QED BY <1>1, <1>2, <1>3, <1>4, <1>5 DEF Next, Hub

(* The end of a link is under way before the hub forgets the server.        *)
LEMMA LinksKnownStep == ASSUME MInv, LinksKnown, Next PROVE LinksKnown'
<1> USE DEF MInv, Types
<1> SUFFICES ASSUME NEW s \in Server, NEW t \in Others(s), link'[s][t] # "ended"
             PROVE  t \in serverPeers'[s]
  BY DEF LinksKnown
<1>1. t \in serverPeers[s] /\ link[s][t] # "ended"
  BY Kept DEF LinksKnown
<1>2. ASSUME NEW u \in Server, NEW v \in Server, UnregisterServer(u, v)
      PROVE  t \in serverPeers'[s]
  <2>1. DelServer(v) \in calls[u]
    BY <1>2 DEF UnregisterServer
  <2>2. link[u][v] = "ended"
    BY <2>1 DEF PacketsTrue, PacketTrue, DelServer
  <2>3. serverPeers'[s] = serverPeers[s] \/ (u = s /\ serverPeers'[s] = serverPeers[s] \ {v})
    BY <1>2 DEF UnregisterServer, TypeOK
  <2> QED BY <1>1, <2>2, <2>3
<1>3. ASSUME NEW u \in Server, NEW c \in Conn, Register(u, c) \/ Unregister(u, c)
      PROVE  UNCHANGED serverPeers
  BY <1>3 DEF Register, Unregister, links
<1>4. ASSUME NEW u \in Server, NEW p \in calls[u],
             Relay(u, p) \/ HandleLoc(u, p) \/ HandleOffline(u, p)
      PROVE  UNCHANGED serverPeers
  BY <1>4 DEF Relay, HandleLoc, HandleOffline, links
<1>5. CASE \/ \E c \in Conn : Connect(c) \/ Disconnect(c)
           \/ \E m \in Chat : Send(m)
           \/ \E u, v \in Server : Break(u, v) \/ LinkEnds(u, v)
  BY <1>1, <1>5 DEF Connect, Disconnect, Send, Break, LinkEnds, links
<1> QED BY <1>1, <1>2, <1>3, <1>4, <1>5 DEF Next, Hub

(* What tells c of the login of d is not lost while the link holds, and     *)
(* whoever handles it at c's server pushes it to c, which is registered.    *)
LEMMA ToldKept ==
  ASSUME MInv, Next, NEW c \in Conn, NEW d \in Conn, AddrOf[c] = AddrOf[d],
         HomeOf[c] # HomeOf[d], link'[HomeOf[d]][HomeOf[c]] = "up",
         status'[HomeOf[c]] = "run", clientPeers[HomeOf[c]][AddrOf[c]] = c,
         ToldBy(d, c)
  PROVE  ToldBy(d, c)'
<1> USE DEF MInv
<1> DEFINE s == HomeOf[c]
           q == RelayOf(HomeOf[d], KillMsg(d))
<1>1. s \in Server /\ HomeOf[d] \in Server /\ AddrOf[c] \in Addr /\ AddrOf[c] \in Client
  BY Constants
<1>2. KillMsg(d) \in got[c] => KillMsg(d) \in got'[c]
  BY Pushes
<1>3. ASSUME q \in calls[s], q \notin calls'[s] PROVE KillMsg(d) \in got'[c]
  <2>0. /\ q.use = "relay" /\ q.from = HomeOf[d] /\ q.msg = KillMsg(d)
        /\ q.msg.type = "kill" /\ q.msg.dest = AddrOf[d]
    BY DEF RelayOf, KillMsg
  <2>1. ASSUME NEW u \in Server, Break(u, s) \/ Break(s, u), q.from = u PROVE FALSE
    <3>1. u = HomeOf[d] /\ s \in Others(u)
      BY <1>1, <2>0, <2>1 DEF Others
    <3>2. link'[u][s] = "cut"
      BY <1>1, <2>1, <3>1, BreakLinks DEF Types
    <3> QED BY <3>1, <3>2
  <2>2. Relay(s, q)
    <3>1. Handles(s, q)
      BY <1>1, <1>3, <2>1, GonePackets
    <3>2. \A k : q # Add(k) /\ q # Del(k) /\ q # DelServer(k)
      BY <2>0 DEF Add, Del, DelServer
    <3> QED BY <2>0, <3>1, <3>2 DEF Handles, HandleLoc, HandleOffline
  <2> DEFINE asked == Locating(s, q.from, q.msg)
             unasked == EndedLinks(s, asked)
             on == IF unasked = {} THEN Forward(s, q.from, q.msg) ELSE {}
             cut == unasked \cup EndedLinks(s, on)
             cs == IF cut = {} THEN Receivers(s, q.msg.dest) ELSE {}
  <2>3. HangIf(s, cut \cup Ended(cs))
    BY <2>2 DEF Relay
  <2>4. PICK ds \in Pushed(cs, Ended(cs)) : Push(ds, q.msg)
    BY <2>2 DEF Relay
  <2>5. cut \cup Ended(cs) = {}
    <3> HIDE DEF cut, cs
    <3> QED BY <1>1, <2>3, HangStatus DEF Types
  <2>6. ds = cs /\ cs = Receivers(s, AddrOf[c])
    BY <2>0, <2>4, <2>5 DEF Pushed
  <2>7. c \in Receivers(s, AddrOf[c])
    <3>1. c \in Peers(s, AddrOf[c])
      BY <1>1, PeersType DEF Types
    <3> QED BY <1>1, <3>1, Constants DEF Receivers
  <2>8. c \in ds /\ Push(ds, KillMsg(d))
    BY <2>0, <2>4, <2>6, <2>7
  <2> QED BY <2>8 DEF Push
<1> QED BY <1>2, <1>3 DEF ToldBy

(* Whoever logs in tells the other one.                                     *)
LEMMA LoginTells ==
  ASSUME MInv, LinksKnown, Next, NEW c \in Conn, NEW d \in Conn,
         HomeOf[c] # HomeOf[d], link'[HomeOf[c]][HomeOf[d]] = "up",
         status'[HomeOf[c]] = "run", clientPeers'[HomeOf[c]][AddrOf[c]] = c,
         clientPeers[HomeOf[c]][AddrOf[c]] # c
  PROVE  ToldBy(c, d)'
<1> USE DEF MInv
<1> DEFINE s == HomeOf[c]
           t == HomeOf[d]
<1>1. s \in Server /\ t \in Server /\ t \in Others(s) /\ AddrOf[c] \in Addr /\ c # NoConn
  BY Constants DEF Others
<1>2. Register(s, c)
  BY <1>1, NewPeers
<1>3. link[s][t] = "up" /\ t \in serverPeers[s]
  BY <1>1, LinksDown DEF LinksKnown
<1>4. RelayOf(s, KillMsg(c)) \in calls'[t]
  BY <1>1, <1>2, <1>3, LoggedIn
<1> QED BY <1>4 DEF ToldBy

(* Of two logins one told the other, whichever was handled last.            *)
LEMMA RaceStep == ASSUME MInv, LinksKnown, RaceInv, Next PROVE RaceInv'
<1> USE DEF MInv
<1> SUFFICES ASSUME NEW c \in Conn, NEW d \in Conn, BothIn(c, d)'
             PROVE  ToldBy(d, c)' \/ ToldBy(c, d)'
  BY DEF RaceInv
<1> DEFINE s == HomeOf[c]
           t == HomeOf[d]
<1>1. s \in Server /\ t \in Server /\ c # d /\ AddrOf[c] = AddrOf[d]
  BY Constants DEF BothIn
<1>2. /\ clientPeers'[s][AddrOf[c]] = c /\ clientPeers'[t][AddrOf[d]] = d
      /\ status'[s] = "run" /\ status'[t] = "run"
      /\ s # t
  BY <1>1 DEF BothIn
<1>3. s \in Others(t) /\ t \in Others(s) /\ link'[s][t] = "up" /\ link'[t][s] = "up"
  BY <1>1, <1>2 DEF BothIn, Linked, Others
<1>4. CASE clientPeers[s][AddrOf[c]] # c
  BY <1>2, <1>3, <1>4, LoginTells
<1>5. CASE clientPeers[t][AddrOf[d]] # d
  BY <1>2, <1>3, <1>5, LoginTells
<1>6. CASE clientPeers[s][AddrOf[c]] = c /\ clientPeers[t][AddrOf[d]] = d
  <2>1. BothIn(c, d)
    BY <1>1, <1>2, <1>3, <1>6, LinksDown, Kept DEF BothIn, Linked
  <2>2. ToldBy(d, c) \/ ToldBy(c, d)
    BY <2>1 DEF RaceInv
  <2> QED BY <1>1, <1>2, <1>3, <1>6, <2>2, ToldKept
<1> QED BY <1>4, <1>5, <1>6

(* When one client is registered on two servers whose link was never        *)
(* broken, one of its connections has got the kill of the other's login or  *)
(* its server still has that kill to handle.                                *)
THEOREM ClusterDoubleLoginKilled == Spec => []DoubleLoginKilled
<1>1. Init => LinksKnown /\ RaceInv
  BY Constants DEF Init, LinksKnown, RaceInv, BothIn
<1>2. MInv /\ LinksKnown /\ RaceInv /\ [Next]_vars => (LinksKnown /\ RaceInv)'
  <2>1. LinksKnown /\ RaceInv /\ UNCHANGED vars => (LinksKnown /\ RaceInv)'
    BY DEF vars, links, LinksKnown, RaceInv, BothIn, Linked, ToldBy
  <2> QED BY <2>1, LinksKnownStep, RaceStep
<1>3. RaceInv => DoubleLoginKilled
  <2> SUFFICES ASSUME RaceInv, NEW c \in Conn, NEW d \in Conn, BothIn(c, d)
               PROVE  BeingKilled(c) \/ BeingKilled(d)
    BY DEF DoubleLoginKilled, BothIn
  <2>1. ASSUME NEW e \in Conn, NEW f \in Conn, BothIn(e, f) \/ BothIn(f, e), ToldBy(f, e)
        PROVE  BeingKilled(e)
    <3>1. f # e /\ AddrOf[f] = AddrOf[e] /\ HomeOf[f] \in Server
      BY <2>1, Constants DEF BothIn
    <3> QED BY <2>1, <3>1 DEF ToldBy, BeingKilled, Killed
  <2> QED BY <2>1 DEF RaceInv
<1> QED BY <1>1, <1>2, <1>3, MapsHold, PTL DEF Spec
-----------------------------------------------------------------------------
(* Copies of a message under way to a server, and whether a connection of a *)
(* server has it already.                                                   *)
Copies(t, msg) == {p \in calls[t] : p.use = "relay" /\ p.msg = msg}
Offlines(t, c) ==
  {p \in calls[t] : p.use = "relay" /\ p.msg.type = "offline" /\ p.msg.id = c}
GotAt(t, msg) == \E c \in Conn : HomeOf[c] = t /\ msg \in got[c]
Untouched(msg) == \A t \in Server : ~GotAt(t, msg) /\ Copies(t, msg) = {}

(* A chat message waits where it entered, alone; then one copy is under way *)
(* to each server, none where it has been pushed.                           *)
Waiting(m) == Entering(m) \in calls[Entry(m)]
CopyOf(m, t) == IF t = Entry(m) THEN Entering(m) ELSE RelayOf(Entry(m), ChatMsg(m))
ChatOnce(m) ==
  /\ (m \notin sent \/ Waiting(m)) =>
       \A t \in Server : /\ ~GotAt(t, ChatMsg(m))
                         /\ t # Entry(m) => Copies(t, ChatMsg(m)) = {}
  /\ \A t \in Server : \A p \in Copies(t, ChatMsg(m)) :
       p = CopyOf(m, t) /\ ~GotAt(t, ChatMsg(m)) /\ m \in sent

(* A kill is sent once, when the login is handled, and to other servers.    *)
KillOnce(c) ==
  /\ (conn[c] = "new" \/ Add(c) \in calls[HomeOf[c]]) => Untouched(KillMsg(c))
  /\ \A t \in Server : Copies(t, KillMsg(c)) # {} => ~GotAt(t, KillMsg(c))

(* A logout is told once, and no client of a server in two messages.        *)
NoticeOnce(c) ==
  /\ (conn[c] # "down" \/ Del(c) \in calls[HomeOf[c]]) =>
       \A t \in Server : ~GotAt(t, NoticeMsg(c)) /\ Offlines(t, c) = {}
  /\ \A t \in Server : \A p \in Offlines(t, c) :
       /\ \A d \in Conn : HomeOf[d] = t /\ AddrOf[d] \in p.msg.targets =>
                            NoticeMsg(c) \notin got[d]
       /\ \A q \in Offlines(t, c) : q # p => q.msg.targets \cap p.msg.targets = {}

Once == /\ \A m \in Chat : ChatOnce(m)
        /\ \A c \in Conn : KillOnce(c) /\ NoticeOnce(c)

(* Where a message that is pushed comes from: a packet of that server.      *)
LEMMA GetsHere ==
  ASSUME MInv, Next, NEW c \in Conn, NEW msg, Gets(c, msg)
  PROVE  \/ \E d \in Conn : /\ Handles(HomeOf[d], Add(d)) /\ msg = KillMsg(d)
                            /\ HomeOf[c] = HomeOf[d]
         \/ \E p \in Copies(HomeOf[c], msg) :
              Handles(HomeOf[c], p) /\ msg.type \in {"chat", "kill"}
         \/ \E d \in Conn : \E p \in Offlines(HomeOf[c], d) :
              /\ Handles(HomeOf[c], p) /\ msg = NoticeMsg(d)
              /\ AddrOf[c] \in p.msg.targets
<1> USE DEF MInv, Types
<1>0. ASSUME NEW s \in Server, NEW a \in Addr, c \in Peers(s, a)
      PROVE  HomeOf[c] = s /\ AddrOf[c] = a
  <2>1. a \in Client
    BY <1>0, Constants DEF NobodyIsEveryone, Peers, Addr
  <2> QED BY <1>0, <2>1 DEF MapsTrue
<1>1. ASSUME NEW s \in Server, NEW d \in Conn, Register(s, d), c \in Peers(s, AddrOf[d]),
             msg = KillMsg(d)
      PROVE  Handles(HomeOf[d], Add(d)) /\ HomeOf[c] = HomeOf[d]
  <2>1. HomeOf[d] = s
    BY <1>1 DEF Register, PacketsTrue, PacketTrue, Add
  <2> QED BY <1>0, <1>1, <2>1, Constants DEF Handles
<1>2. ASSUME NEW s \in Server, NEW p \in calls[s], Relay(s, p),
             c \in Receivers(s, p.msg.dest), msg = p.msg
      PROVE  /\ p \in Copies(HomeOf[c], msg) /\ Handles(HomeOf[c], p)
             /\ msg.type \in {"chat", "kill"}
  <2>1. p.use = "relay" /\ p.msg.type \in {"chat", "kill"} /\ p.msg.dest \in Addr
    BY <1>2, RelayForm DEF Relay
  <2>2. HomeOf[c] = s
    BY <1>0, <1>2, <2>1, ReceiversHere, Constants
  <2> QED BY <1>2, <2>1, <2>2 DEF Copies, Handles
<1>3. ASSUME NEW s \in Server, NEW p \in calls[s], NEW a \in p.msg.targets,
             HandleOffline(s, p), c \in Peers(s, a), msg = NoticeMsg(p.msg.id)
      PROVE  /\ p \in Offlines(HomeOf[c], p.msg.id) /\ Handles(HomeOf[c], p)
             /\ AddrOf[c] \in p.msg.targets /\ p.msg.id \in Conn
  <2>1. p.use = "relay" /\ p.msg.type = "offline" /\ p \in Packet
    BY <1>3 DEF HandleOffline, TypeOK
  <2>2. p.msg.targets \subseteq Addr /\ p.msg.id \in Conn
    BY <2>1, PacketForms, MessageForms
  <2>3. HomeOf[c] = s /\ AddrOf[c] = a
    BY <1>0, <1>3, <2>2
  <2> QED BY <1>3, <2>1, <2>2, <2>3 DEF Offlines, Handles
<1> QED BY <1>1, <1>2, <1>3 DEF Gets

(* Where a new copy of a chat message comes from.                           *)
LEMMA NewCopies ==
  ASSUME MInv, Next, NEW m \in Chat, ChatOnce(m), NEW t \in Server,
         NEW q \in Copies(t, ChatMsg(m))', q \notin calls[t]
  PROVE  \/ Send(m) /\ t = Entry(m) /\ q = Entering(m)
         \/ /\ Handles(Entry(m), Entering(m)) /\ Waiting(m)
            /\ t # Entry(m) /\ q = RelayOf(Entry(m), ChatMsg(m))
<1> USE DEF MInv, Types
<1>1. q \in calls'[t] /\ q.use = "relay" /\ q.msg = ChatMsg(m) /\ q.msg.type = "chat"
      /\ q.msg.id = m
  BY DEF Copies, ChatMsg
<1>2. NewPacket(t, q)
  BY <1>1, NewPackets
<1>3. ASSUME NEW n \in Chat, Send(n), q = Entering(n) PROVE n = m
  BY <1>1, <1>3 DEF Entering, RelayOf, ChatMsg
<1>4. ASSUME NEW s \in Server, NEW p \in calls[s], Relay(s, p),
             t \in Forward(s, p.from, p.msg), q = RelayOf(s, p.msg)
      PROVE  /\ Handles(Entry(m), Entering(m)) /\ Waiting(m)
             /\ t # Entry(m) /\ q = RelayOf(Entry(m), ChatMsg(m))
  <2>1. p \in Copies(s, ChatMsg(m))
    BY <1>1, <1>4 DEF Copies, Relay, RelayOf
  <2>2. p.from \notin Server /\ t \in serverPeers[s]
    BY <1>4 DEF Forward, Towards
  <2>3. p = CopyOf(m, s)
    BY <2>1 DEF ChatOnce
  <2>4. RelayOf(Entry(m), ChatMsg(m)).from \in Server
    BY Constants DEF RelayOf
  <2>5. s = Entry(m) /\ p = Entering(m)
    BY <2>2, <2>3, <2>4 DEF CopyOf
  <2>6. t # s
    BY <2>2 DEF TypeOK, Others
  <2>7. q = RelayOf(s, ChatMsg(m))
    BY <1>1, <1>4 DEF RelayOf
  <2> QED BY <1>4, <2>5, <2>6, <2>7 DEF Handles, Waiting
<1>5. /\ \A c \in Conn : q # Add(c) /\ q # Del(c)
      /\ \A u \in Server : q # DelServer(u)
      /\ \A s \in Server, c \in Conn : q # RelayOf(s, KillMsg(c))
      /\ \A s \in Server : \A c \in Conn : \A u \in Server :
            q # RelayOf(s, OfflineMsg(c, TargetsAt(c, u)))
      /\ \A s \in Server : \A p \in calls[s] : q # Located(s, p)
  BY <1>1 DEF Add, Del, DelServer, RelayOf, KillMsg, OfflineMsg, Located, LocMsg
<1> QED BY <1>2, <1>3, <1>4, <1>5 DEF NewPacket

(* A chat message is sent on once, by the server where it entered.          *)
LEMMA ChatOnceStep == ASSUME MInv, Next, NEW m \in Chat, ChatOnce(m) PROVE ChatOnce(m)'
<1> USE DEF MInv, Types
<1> DEFINE E == Entry(m)
           M == ChatMsg(m)
<1>0. E \in Server /\ Entering(m).use = "relay" /\ Entering(m).msg = M /\ M.type = "chat"
  BY Constants DEF Entering, RelayOf, ChatMsg
<1>1. ASSUME NEW c \in Conn, M \in got'[c], M \notin got[c]
      PROVE  \E p \in Copies(HomeOf[c], M) : Handles(HomeOf[c], p)
  <2>1. Gets(c, M)
    BY <1>1, Pushes
  <2>2. \A d \in Conn : M # KillMsg(d) /\ M # NoticeMsg(d)
    BY DEF ChatMsg, KillMsg, NoticeMsg
  <2> QED BY <2>1, <2>2, GetsHere
<1>2. ASSUME Waiting(m) PROVE Handles(E, Entering(m)) => ~Waiting(m)'
  BY <1>0, HandledGone DEF Waiting
<1>3. ASSUME NEW t \in Server, NEW p \in Copies(t, M)'
      PROVE  p = CopyOf(m, t) /\ ~GotAt(t, M)' /\ m \in sent'
  <2>1. CASE p \in calls[t]
    <3>1. p \in Copies(t, M)
      BY <1>3, <2>1 DEF Copies
    <3>2. p = CopyOf(m, t) /\ ~GotAt(t, M) /\ m \in sent
      BY <3>1 DEF ChatOnce
    <3>3. ASSUME NEW c \in Conn, HomeOf[c] = t, M \in got'[c] PROVE FALSE
      <4>1. PICK q \in Copies(t, M) : Handles(t, q)
        BY <1>1, <3>2, <3>3 DEF GotAt
      <4>2. q = p
        BY <3>2, <4>1 DEF ChatOnce
      <4>3. p \notin calls'[t]
        BY <4>1, <4>2, HandledGone
      <4> QED BY <1>3, <4>3 DEF Copies
    <3> QED BY <3>2, <3>3, Kept DEF GotAt
  <2>2. CASE Send(m) /\ t = E /\ p = Entering(m)
    BY <2>2 DEF Send, ChatOnce, GotAt, CopyOf
  <2>3. CASE /\ Handles(E, Entering(m)) /\ Waiting(m)
             /\ t # E /\ p = RelayOf(E, M)
    <3>1. /\ \A u \in Server : ~GotAt(u, M)
          /\ \A u \in Server : u # E => Copies(u, M) = {}
      BY <2>3 DEF ChatOnce
    <3>2. Entering(m) \in Copies(E, M)
      BY <1>0, <2>3 DEF Waiting, Copies
    <3>3. m \in sent
      BY <1>0, <3>2 DEF ChatOnce
    <3>4. \A c \in Conn : HomeOf[c] = t => M \notin got'[c]
      BY <1>1, <2>3, <3>1, Constants DEF GotAt
    <3> QED BY <2>3, <3>3, <3>4, Kept DEF CopyOf, GotAt
  <2> QED BY <2>1, <2>2, <2>3, NewCopies
<1>4. ASSUME m \notin sent' \/ Waiting(m)', NEW t \in Server
      PROVE  ~GotAt(t, M)' /\ (t # E => Copies(t, M)' = {})
  <2>1. CASE m \notin sent \/ Waiting(m)
    <3>1. \A u \in Server : ~GotAt(u, M) /\ (u # E => Copies(u, M) = {})
      BY <2>1 DEF ChatOnce
    <3>2. CASE Send(m)
      <4>1. UNCHANGED got /\ \A u \in Server : u # E => calls'[u] = calls[u]
        BY <1>0, <3>2 DEF Send, TypeOK
      <4> QED BY <3>1, <4>1 DEF GotAt, Copies
    <3>3. CASE ~Send(m)
      <4>1. ~Handles(E, Entering(m))
        <5>1. CASE Waiting(m)
          <6>1. m \in sent
            BY <1>0, <5>1 DEF Waiting, Copies, ChatOnce
          <6> QED BY <1>2, <1>4, <5>1, <6>1, Kept
        <5>2. CASE ~Waiting(m)
          BY <1>0, <5>2, HandledGone DEF Waiting
        <5> QED BY <5>1, <5>2
      <4>2. \A u \in Server : \A p \in Copies(u, M) : u = E /\ p = Entering(m)
        BY <3>1 DEF ChatOnce, CopyOf
      <4>3. \A c \in Conn : M \notin got'[c]
        BY <1>1, <3>1, <4>1, <4>2, Constants DEF GotAt
      <4>4. t # E => Copies(t, M)' = {}
        <5> SUFFICES ASSUME t # E, NEW p \in Copies(t, M)' PROVE FALSE
          OBVIOUS
        <5>1. p \notin calls[t]
          BY <3>1 DEF Copies
        <5> QED BY <3>3, <4>1, <5>1, NewCopies
      <4> QED BY <4>3, <4>4 DEF GotAt
    <3> QED BY <3>2, <3>3
  <2>2. CASE m \in sent /\ ~Waiting(m)
    <3>1. Waiting(m)'
      BY <1>4, <2>2, Kept
    <3>2. Entering(m) \in Copies(E, M)' /\ Entering(m) \notin calls[E]
      BY <1>0, <2>2, <3>1 DEF Waiting, Copies
    <3>3. ~Send(m)
      BY <2>2 DEF Send
    <3> QED BY <1>0, <2>2, <3>2, <3>3, NewCopies
  <2> QED BY <2>1, <2>2
<1> QED BY <1>3, <1>4 DEF ChatOnce, CopyOf

(* A kill is sent once, and what is forwarded is not forwarded again.       *)
LEMMA KillOnceStep == ASSUME MInv, Next, NEW c \in Conn, KillOnce(c) PROVE KillOnce(c)'
<1> USE DEF MInv, Types
<1> DEFINE H == HomeOf[c]
           K == KillMsg(c)
<1>0. H \in Server /\ Add(c).use = "add" /\ Add(c).conn = c /\ K.type = "kill" /\ K.id = c
  BY Constants DEF Add, KillMsg
<1>1. Handles(H, Add(c)) => conn'[c] # "new" /\ Add(c) \notin calls'[H] /\ Add(c) \in calls[H]
  <2>1. Handles(H, Add(c)) => Add(c) \in calls[H] /\ Add(c) \notin calls'[H]
    BY <1>0, HandledGone
  <2>2. Add(c) \in calls[H] => conn[c] # "new"
    BY <1>0 DEF PacketsTrue, PacketTrue
  <2> QED BY <2>1, <2>2, Kept
<1>2. ASSUME NEW d \in Conn, K \in got'[d], K \notin got[d]
      PROVE  \/ Handles(H, Add(c)) /\ HomeOf[d] = H
             \/ \E p \in Copies(HomeOf[d], K) : Handles(HomeOf[d], p)
  <2>1. Gets(d, K)
    BY <1>2, Pushes
  <2>2. /\ \A e \in Conn : K = KillMsg(e) => e = c
        /\ \A e \in Conn : K # NoticeMsg(e)
    BY DEF KillMsg, NoticeMsg
  <2> QED BY <2>1, <2>2, GetsHere
<1>3. ASSUME NEW t \in Server, NEW p \in Copies(t, K)
      PROVE  p = RelayOf(H, K) /\ t # H
  <2>1. p.use = "relay" /\ p.msg = K /\ p \in Packet /\ PacketTrue(t, p)
    BY <1>3 DEF Copies, PacketsTrue, TypeOK
  <2>2. KillTrue(t, p.from, c)
    BY <1>0, <2>1 DEF PacketTrue, RelayTrue
  <2> QED BY <2>1, <2>2, PacketForms DEF KillTrue
<1>4. ASSUME NEW t \in Server, NEW p \in Copies(t, K)', p \notin calls[t]
      PROVE  Handles(H, Add(c)) /\ t # H
  <2>1. p \in calls'[t] /\ p.use = "relay" /\ p.msg = K
    BY <1>4 DEF Copies
  <2>2. NewPacket(t, p)
    BY <1>4, <2>1, NewPackets
  <2>3. ASSUME NEW s \in Server, NEW d \in Conn, Register(s, d), t \in serverPeers[s],
               p = RelayOf(s, KillMsg(d))
        PROVE  Handles(H, Add(c)) /\ t # H
    <3>1. d = c
      BY <1>0, <2>1, <2>3 DEF RelayOf, KillMsg
    <3>2. HomeOf[d] = s
      BY <2>3 DEF Register, PacketsTrue, PacketTrue, Add
    <3> QED BY <2>3, <3>1, <3>2 DEF Handles, TypeOK, Others
  <2>4. ASSUME NEW s \in Server, NEW q \in calls[s], Relay(s, q),
               t \in Forward(s, q.from, q.msg), p = RelayOf(s, q.msg)
        PROVE  FALSE
    <3>1. q \in Copies(s, K)
      BY <2>1, <2>4 DEF Copies, Relay, RelayOf
    <3>2. q = RelayOf(H, K)
      BY <1>3, <3>1
    <3>3. q.from \in Server
      BY <1>0, <3>2 DEF RelayOf
    <3> QED BY <2>4, <3>3 DEF Forward
  <2>5. /\ \A d \in Conn : p # Add(d) /\ p # Del(d)
        /\ \A u \in Server : p # DelServer(u)
        /\ \A m \in Chat : p # Entering(m)
        /\ \A s \in Server : \A d \in Conn : \A u \in Server :
              p # RelayOf(s, OfflineMsg(d, TargetsAt(d, u)))
        /\ \A s \in Server : \A q \in calls[s] : p # Located(s, q)
    BY <1>0, <2>1 DEF Add, Del, DelServer, RelayOf, ChatMsg, OfflineMsg, Located, LocMsg,
                      Entering
  <2> QED BY <2>2, <2>3, <2>4, <2>5 DEF NewPacket
<1>5. ASSUME conn'[c] = "new" \/ Add(c) \in calls'[H]
      PROVE  conn[c] = "new" \/ Add(c) \in calls[H]
  <2> SUFFICES ASSUME Add(c) \in calls'[H], Add(c) \notin calls[H] PROVE conn[c] = "new"
    BY <1>5, Kept
  <2>1. NewPacket(H, Add(c))
    BY <1>0, NewPackets
  <2>2. PICK d \in Conn : Connect(d) /\ Add(c) = Add(d)
    BY <1>0, <2>1 DEF NewPacket, Del, DelServer, RelayOf, Entering, Located
  <2>3. d = c
    BY <2>2 DEF Add
  <2> QED BY <2>2, <2>3 DEF Connect
<1>6. ASSUME conn'[c] = "new" \/ Add(c) \in calls'[H], NEW t \in Server
      PROVE  ~GotAt(t, K)' /\ Copies(t, K)' = {}
  <2>1. \A u \in Server : ~GotAt(u, K) /\ Copies(u, K) = {}
    BY <1>5, <1>6 DEF KillOnce, Untouched
  <2>2. ~Handles(H, Add(c))
    BY <1>1, <1>6
  <2>3. \A d \in Conn : K \notin got'[d]
    BY <1>2, <2>1, <2>2, Constants DEF GotAt
  <2>4. \A p \in Copies(t, K)' : p \in calls[t]
    BY <1>4, <2>2
  <2>5. Copies(t, K)' \subseteq Copies(t, K)
    BY <2>4 DEF Copies
  <2> QED BY <2>1, <2>3, <2>5 DEF GotAt
<1>7. ASSUME NEW t \in Server, NEW p \in Copies(t, K)', NEW d \in Conn, HomeOf[d] = t,
             K \in got'[d]
      PROVE  FALSE
  <2>1. CASE p \in calls[t]
    <3>1. p \in Copies(t, K)
      BY <1>7, <2>1 DEF Copies
    <3>2. K \notin got[d]
      BY <1>7, <3>1 DEF KillOnce, GotAt
    <3>3. PICK q \in Copies(t, K) : Handles(t, q)
      BY <1>2, <1>3, <1>7, <3>1, <3>2
    <3>4. q = p
      BY <1>3, <3>1, <3>3
    <3> QED BY <1>7, <3>3, <3>4, HandledGone DEF Copies
  <2>2. CASE p \notin calls[t]
    <3>1. Handles(H, Add(c)) /\ t # H
      BY <1>4, <1>7, <2>2
    <3>2. \A u \in Server : ~GotAt(u, K) /\ Copies(u, K) = {}
      BY <1>1, <3>1 DEF KillOnce, Untouched
    <3> QED BY <1>2, <1>7, <3>1, <3>2 DEF GotAt
  <2> QED BY <2>1, <2>2
<1>8. (conn'[c] = "new" \/ Add(c) \in calls'[H]) => Untouched(K)'
  BY <1>6 DEF Untouched
<1>9. \A t \in Server : Copies(t, K)' # {} => ~GotAt(t, K)'
  BY <1>7 DEF GotAt
<1> QED BY <1>8, <1>9 DEF KillOnce

(* A logout is told by the one connection that ended.                       *)
LEMMA NoticeOnceStep == ASSUME MInv, Next, NEW c \in Conn, NoticeOnce(c) PROVE NoticeOnce(c)'
<1> USE DEF MInv, Types
<1> DEFINE H == HomeOf[c]
           N == NoticeMsg(c)
           P(u) == RelayOf(H, OfflineMsg(c, TargetsAt(c, u)))
<1>0. H \in Server /\ Del(c).use = "del" /\ Del(c).conn = c /\ N.type = "notice" /\ N.id = c
  BY Constants DEF Del, NoticeMsg
<1>1. Handles(H, Del(c)) => /\ conn'[c] = "down" /\ Del(c) \notin calls'[H]
                            /\ Del(c) \in calls[H]
  <2>1. Handles(H, Del(c)) => Del(c) \in calls[H] /\ Del(c) \notin calls'[H]
    BY <1>0, HandledGone
  <2>2. Del(c) \in calls[H] => conn[c] = "down"
    BY <1>0 DEF PacketsTrue, PacketTrue
  <2> QED BY <2>1, <2>2, Kept
<1>2. ASSUME NEW d \in Conn, N \in got'[d], N \notin got[d]
      PROVE  \E p \in Offlines(HomeOf[d], c) :
               Handles(HomeOf[d], p) /\ AddrOf[d] \in p.msg.targets
  <2>1. Gets(d, N)
    BY <1>2, Pushes
  <2>2. /\ \A e \in Conn : N = NoticeMsg(e) => e = c
        /\ \A e \in Conn : N # KillMsg(e)
        /\ N.type \notin {"chat", "kill"}
    BY DEF KillMsg, NoticeMsg
  <2> QED BY <2>1, <2>2, GetsHere
<1>3. ASSUME NEW t \in Server, NEW p \in Offlines(t, c)', p \notin calls[t]
      PROVE  Handles(H, Del(c)) /\ \E u \in Server : p = P(u)
  <2>1. p \in calls'[t] /\ p.use = "relay" /\ p.msg.type = "offline" /\ p.msg.id = c
    BY <1>3 DEF Offlines
  <2>2. NewPacket(t, p)
    BY <1>3, <2>1, NewPackets
  <2>3. ASSUME NEW s \in Server, NEW d \in Conn, Unregister(s, d), NEW u \in Server,
               p = RelayOf(s, OfflineMsg(d, TargetsAt(d, u)))
        PROVE  Handles(H, Del(c)) /\ p = P(u)
    <3>1. d = c
      BY <2>1, <2>3 DEF RelayOf, OfflineMsg
    <3>2. HomeOf[d] = s
      BY <2>3 DEF Unregister, PacketsTrue, PacketTrue, Del
    <3> QED BY <2>3, <3>1, <3>2 DEF Handles
  <2>4. \A s \in Server : \A q \in calls[s] : Relay(s, q) => p # RelayOf(s, q.msg)
    BY <2>1 DEF Relay, RelayOf
  <2>5. /\ \A d \in Conn : p # Add(d) /\ p # Del(d)
        /\ \A u \in Server : p # DelServer(u)
        /\ \A m \in Chat : p # Entering(m)
        /\ \A s \in Server, d \in Conn : p # RelayOf(s, KillMsg(d))
        /\ \A s \in Server : \A q \in calls[s] : p # Located(s, q)
    BY <2>1 DEF Add, Del, DelServer, RelayOf, ChatMsg, KillMsg, Located, LocMsg, Entering
  <2> QED BY <2>2, <2>3, <2>4, <2>5 DEF NewPacket
<1>4. ASSUME conn'[c] # "down" \/ Del(c) \in calls'[H]
      PROVE  conn[c] # "down" \/ Del(c) \in calls[H]
  <2> SUFFICES ASSUME Del(c) \in calls'[H], Del(c) \notin calls[H] PROVE conn[c] # "down"
    BY <1>4, Kept
  <2>1. NewPacket(H, Del(c))
    BY <1>0, NewPackets
  <2>2. PICK d \in Conn : Disconnect(d) /\ Del(c) = Del(d)
    BY <1>0, <2>1 DEF NewPacket, Add, DelServer, RelayOf, Entering, Located
  <2>3. d = c
    BY <2>2 DEF Del
  <2> QED BY <2>2, <2>3 DEF Disconnect
<1>5. ASSUME conn'[c] # "down" \/ Del(c) \in calls'[H], NEW t \in Server
      PROVE  ~GotAt(t, N)' /\ Offlines(t, c)' = {}
  <2>1. \A u \in Server : ~GotAt(u, N) /\ Offlines(u, c) = {}
    BY <1>4, <1>5 DEF NoticeOnce
  <2>2. \A d \in Conn : N \notin got'[d]
    BY <1>2, <2>1, Constants DEF GotAt
  <2>3. \A p \in Offlines(t, c)' : p \in calls[t]
    BY <1>1, <1>3, <1>5
  <2>4. Offlines(t, c)' \subseteq Offlines(t, c)
    BY <2>3 DEF Offlines
  <2> QED BY <2>1, <2>2, <2>4 DEF GotAt
<1>6. ASSUME Handles(H, Del(c)), NEW t \in Server
      PROVE  Offlines(t, c) = {} /\ ~GotAt(t, N)
  BY <1>1, <1>6 DEF NoticeOnce
<1>7. ASSUME NEW t \in Server, NEW p \in Offlines(t, c)', NEW d \in Conn, HomeOf[d] = t,
             AddrOf[d] \in p.msg.targets, N \in got'[d]
      PROVE  FALSE
  <2>1. CASE p \in calls[t]
    <3>1. p \in Offlines(t, c)
      BY <1>7, <2>1 DEF Offlines
    <3>2. N \notin got[d]
      BY <1>7, <3>1 DEF NoticeOnce
    <3>3. PICK q \in Offlines(t, c) : Handles(t, q) /\ AddrOf[d] \in q.msg.targets
      BY <1>2, <1>7, <3>2
    <3>4. q = p
      BY <1>7, <3>1, <3>3 DEF NoticeOnce
    <3> QED BY <1>7, <3>3, <3>4, HandledGone DEF Offlines
  <2>2. CASE p \notin calls[t]
    <3>1. Offlines(t, c) = {} /\ ~GotAt(t, N)
      BY <1>3, <1>6, <1>7, <2>2
    <3> QED BY <1>2, <1>7, <3>1 DEF GotAt
  <2> QED BY <2>1, <2>2
<1>8. ASSUME NEW t \in Server, NEW p \in Offlines(t, c)', NEW q \in Offlines(t, c)', q # p
      PROVE  q.msg.targets \cap p.msg.targets = {}
  <2>1. CASE p \in calls[t] /\ q \in calls[t]
    <3>1. p \in Offlines(t, c) /\ q \in Offlines(t, c)
      BY <1>8, <2>1 DEF Offlines
    <3> QED BY <1>8, <3>1 DEF NoticeOnce
  <2>2. CASE p \notin calls[t] \/ q \notin calls[t]
    <3>1. Handles(H, Del(c)) /\ Offlines(t, c) = {}
      BY <1>3, <1>6, <1>8, <2>2
    <3>2. p \notin calls[t] /\ q \notin calls[t]
      BY <1>8, <3>1 DEF Offlines
    <3>3. PICK u \in Server : p = P(u)
      BY <1>3, <1>8, <3>2
    <3>4. PICK v \in Server : q = P(v)
      BY <1>3, <1>8, <3>2
    <3>5. p.msg.targets = TargetsAt(c, u) /\ q.msg.targets = TargetsAt(c, v) /\ u # v
      BY <1>8, <3>3, <3>4 DEF RelayOf, OfflineMsg
    <3> QED BY <3>5 DEF TargetsAt
  <2> QED BY <2>1, <2>2
<1>9. (conn'[c] # "down" \/ Del(c) \in calls'[H]) =>
        \A t \in Server : ~GotAt(t, N)' /\ Offlines(t, c)' = {}
  BY <1>5
<1>10. \A t \in Server : \A p \in Offlines(t, c)' :
         /\ \A d \in Conn : HomeOf[d] = t /\ AddrOf[d] \in p.msg.targets => N \notin got'[d]
         /\ \A q \in Offlines(t, c)' : q # p => q.msg.targets \cap p.msg.targets = {}
  BY <1>7, <1>8
<1> QED BY <1>9, <1>10 DEF NoticeOnce

(* So nothing that is handled finds its message pushed already.             *)
LEMMA OnceStep == ASSUME MInv, Once, Next PROVE Once' /\ (NoDuplicates => NoDuplicates')
<1>1. Once'
  BY ChatOnceStep, KillOnceStep, NoticeOnceStep DEF Once
<1>2. ASSUME NEW c \in Conn, NEW msg \in got[c], Gets(c, msg) PROVE FALSE
  <2>0. HomeOf[c] \in Server
    BY Constants
  <2>1. ASSUME NEW d \in Conn, Handles(HomeOf[d], Add(d)), msg = KillMsg(d) PROVE FALSE
    <3>1. Add(d) \in calls[HomeOf[d]]
      BY <2>1, HandledGone, Constants DEF MInv
    <3> QED BY <1>2, <2>0, <2>1, <3>1 DEF Once, KillOnce, Untouched, GotAt
  <2>2. ASSUME NEW p \in Copies(HomeOf[c], msg), msg.type \in {"chat", "kill"} PROVE FALSE
    <3>1. p \in Packet /\ p.use = "relay" /\ p.msg = msg
      BY <2>0, <2>2 DEF Copies, MInv, Types, TypeOK
    <3>2. msg \in Message
      BY <3>1, PacketForms
    <3>3. \/ msg.id \in Chat /\ msg = ChatMsg(msg.id)
          \/ msg.id \in Conn /\ msg = KillMsg(msg.id)
      BY <2>2, <3>2, MessageForms
    <3>4. GotAt(HomeOf[c], msg)
      BY <1>2 DEF GotAt
    <3> QED BY <2>0, <2>2, <3>3, <3>4 DEF Once, ChatOnce, KillOnce
  <2>3. ASSUME NEW d \in Conn, NEW p \in Offlines(HomeOf[c], d), msg = NoticeMsg(d),
               AddrOf[c] \in p.msg.targets
        PROVE  FALSE
    BY <1>2, <2>0, <2>3 DEF Once, NoticeOnce
  <2> QED BY <1>2, <2>1, <2>2, <2>3, GetsHere
<1>3. NoDuplicates => NoDuplicates'
  BY <1>2, Pushes DEF NoDuplicates, MInv
<1> QED BY <1>1, <1>3

(* However a message is forwarded, broadcast or located, and wherever links *)
(* break, no connection is pushed the same message twice.                   *)
THEOREM ClusterNoDuplicates == Spec => []NoDuplicates
<1>1. Init => Once /\ NoDuplicates
  <2> SUFFICES ASSUME Init PROVE Once /\ NoDuplicates
    OBVIOUS
  <2>1. \A t \in Server : calls[t] = {}
    BY DEF Init
  <2>2. \A t \in Server : \A msg : ~GotAt(t, msg)
    BY DEF Init, GotAt
  <2>3. \A m \in Chat : ChatOnce(m)
    BY <2>1, <2>2 DEF ChatOnce, Copies
  <2>4. \A c \in Conn : KillOnce(c) /\ NoticeOnce(c)
    BY <2>1, <2>2 DEF KillOnce, NoticeOnce, Untouched, Copies, Offlines
  <2> QED BY <2>3, <2>4 DEF Once, NoDuplicates, Init
<1>2. MInv /\ Once /\ NoDuplicates /\ [Next]_vars => (Once /\ NoDuplicates)'
  <2>1. Once /\ NoDuplicates /\ UNCHANGED vars => (Once /\ NoDuplicates)'
    BY DEF vars, Once, ChatOnce, KillOnce, NoticeOnce, Untouched, Copies, Offlines,
           GotAt, Waiting, CopyOf, NoDuplicates
  <2> QED BY <2>1, OnceStep
<1> QED BY <1>1, <1>2, MapsHold, PTL DEF Spec
=============================================================================
