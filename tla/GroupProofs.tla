---------------------------- MODULE GroupProofs ----------------------------
(***************************************************************************)
(* Proofs about Group: its type, that the peer's set of groups and the      *)
(* group's own map of members agree, and that members get the messages in   *)
(* the hub's order, for any connections, buffer size and bounds.            *)
(*                                                                          *)
(* The argument is about UnderWay, the packets that the group has not taken *)
(* yet: a step of the handler appends to it, the send on the channel moves  *)
(* a packet within it, and the group's goroutine takes its first one.       *)
(***************************************************************************)
EXTENDS Group, ChannelFacts

(* No goroutine is told to exit while it is in the map or before it is      *)
(* started.                                                                 *)
Told ==
  /\ current # 0 => ~exit[current]
  /\ \A g \in Gen : loop[g] = "new" => ~exit[g]

(* A goroutine that was not started has no packets and no members.          *)
Quiet ==
  \A g \in Gen : loop[g] = "new" => packet[g] = <<>> /\ members[g] = NoMembers

(* A client is registered with a connection of its own that logged in.      *)
Registered ==
  \A a \in Client : clientPeers[a] # NoConn
                      => AddrOf[clientPeers[a]] = a /\ conn[clientPeers[a]] # "new"

(* While nothing was cleaned, only the goroutine in the map was started.    *)
Alone == NothingCleaned => \A g \in Gen : g # current => loop[g] = "new"

(* The inductive invariant the other proofs rest on.                        *)
GInv == TypeOK /\ Told /\ Quiet /\ Registered /\ Alone

(* What a packet to the group carries.                                      *)
LEMMA PacketParts ==
  ASSUME NEW p \in GroupPacket
  PROVE  /\ p.use \in {"join", "leave"} => p.conn \in Conn
         /\ p.use = "message" => p.message \in Message
         /\ p.use \in {"join", "leave", "message"}
  BY DEF GroupPacket, Join, Leave, Post

(* The packets the handler makes are packets to the group.                  *)
LEMMA PacketsMade ==
  /\ \A c \in Conn : Join(c) \in GroupPacket /\ Leave(c) \in GroupPacket
  /\ \A m \in Message : Post(m) \in GroupPacket
  BY DEF GroupPacket

(* The initial states satisfy the inductive invariant.                      *)
LEMMA InitGInv == Init => GInv
<1> SUFFICES ASSUME Init PROVE GInv
  OBVIOUS
<1> USE DEF Init, NoMembers
<1>1. TypeOK
  BY AddrAssumption, BoundAssumption DEF TypeOK, Gen
<1>2. Told /\ Quiet /\ Registered /\ Alone
  BY DEF Told, Quiet, Registered, Alone
<1> QED
  BY <1>1, <1>2 DEF GInv

(* Every step keeps the types; that no goroutine in the map is told to exit *)
(* keeps the one in the map in its loop.                                    *)
LEMMA NextTypeOK ==
  ASSUME TypeOK, Told, [Next]_vars
  PROVE  TypeOK'
<1> USE AddrAssumption, BoundAssumption
<1>0. CASE UNCHANGED vars
  BY <1>0 DEF TypeOK, vars, peers, channels, looping, handled
<1>1. ASSUME NEW c \in Conn, Login(c)
      PROVE  TypeOK'
  BY <1>1 DEF Login, TypeOK, channels, looping, handled
<1>2. ASSUME NEW c \in Conn, Drop(c)
      PROVE  TypeOK'
  BY <1>2 DEF Drop, TypeOK, channels, looping, handled
<1>3. ASSUME NEW c \in Conn, Logout(c)
      PROVE  TypeOK'
  <2>1. /\ conn' \in [Conn -> {"new", "up", "down", "gone"}]
        /\ clientPeers' \in [Client -> Conn \cup {NoConn}]
    BY <1>3 DEF Logout, TypeOK
  <2>2. /\ hub' \in {"idle", "send", "sendout", "clean"}
        /\ hub' # "idle" => current # 0
        /\ outgoing' \in Seq(GroupPacket)
        /\ Len(outgoing') = IF hub' \in {"send", "sendout"} THEN 1 ELSE 0
    <3>1. \/ hub' = "send" /\ outgoing' = <<Leave(c)>> /\ current # 0
          \/ UNCHANGED <<hub, outgoing>>
      BY <1>3 DEF Logout, LeavesGroups, Sending
    <3>2. Leave(c) \in GroupPacket
      BY PacketsMade
    <3>3. <<Leave(c)>> \in Seq(GroupPacket) /\ Len(<<Leave(c)>>) = 1
      BY <3>2, Single
    <3> QED
      BY <3>1, <3>3 DEF TypeOK
  <2>3. UNCHANGED <<inGroup, current, packet, exit, loop, members, memCount, requests,
                    messages, got>>
    BY <1>3 DEF Logout, channels, looping, handled
  <2> QED
    BY <2>1, <2>2, <2>3 DEF TypeOK
<1>4. ASSUME NEW a \in Client, GroupIn(a)
      PROVE  TypeOK'
  <2> DEFINE Fresh(g) == loop[g] = "new" /\ \A k \in 1..(g - 1) : loop[k] # "new"
             next == CHOOSE g \in Gen : Fresh(g)
  <2>1. clientPeers[a] \in Conn
    BY <1>4 DEF GroupIn, Request, TypeOK
  <2>2. (\E g \in Gen : Fresh(g)) => next \in Gen /\ loop[next] = "new"
    OBVIOUS
  <2>3. \/ UNCHANGED <<current, loop>> /\ current # 0
        \/ next \in Gen /\ current' = next /\ loop' = [loop EXCEPT ![next] = "select"]
    BY <1>4, <2>2 DEF GroupIn
  <2> HIDE DEF next
  <2>4. /\ current' \in 1..MaxGen /\ loop' \in [Gen -> {"new", "select", "hung", "exited"}]
        /\ loop'[current'] \in {"select", "hung"}
    <3>1. CASE UNCHANGED <<current, loop>> /\ current # 0
      BY <3>1 DEF TypeOK
    <3>2. CASE next \in Gen /\ current' = next /\ loop' = [loop EXCEPT ![next] = "select"]
      <4>1. loop' \in [Gen -> {"new", "select", "hung", "exited"}]
        BY <3>2 DEF TypeOK
      <4>2. loop'[current'] = "select" /\ current' \in 1..MaxGen
        BY <3>2 DEF TypeOK, Gen
      <4> QED
        BY <4>1, <4>2
    <3> QED
      BY <2>3, <3>1, <3>2
  <2>5. /\ hub' = "send" /\ outgoing' \in Seq(GroupPacket) /\ Len(outgoing') = 1
        /\ inGroup' \in [Conn -> BOOLEAN] /\ requests' \in 0..MaxRequest
    <3>1. outgoing' = <<Join(clientPeers[a])>> /\ hub' = "send"
      BY <1>4 DEF GroupIn, Sending
    <3>2. inGroup' \in [Conn -> BOOLEAN]
      BY <1>4 DEF GroupIn, TypeOK
    <3>3. requests' \in 0..MaxRequest
      BY <1>4 DEF GroupIn, Request, TypeOK
    <3> QED
      BY <2>1, <3>1, <3>2, <3>3, PacketsMade, Single
  <2>6. UNCHANGED <<conn, clientPeers, packet, exit, members, memCount, messages, got>>
    BY <1>4 DEF GroupIn, channels
  <2> QED
    BY <2>4, <2>5, <2>6 DEF TypeOK
<1>5. ASSUME NEW a \in Client, GroupOut(a)
      PROVE  TypeOK'
  <2>1. clientPeers[a] \in Conn
    BY <1>5 DEF GroupOut, Request, TypeOK
  <2>2. inGroup' \in [Conn -> BOOLEAN] /\ requests' \in 0..MaxRequest
    <3>1. inGroup' \in [Conn -> BOOLEAN]
      BY <1>5 DEF GroupOut, TypeOK
    <3>2. requests' \in 0..MaxRequest
      BY <1>5 DEF GroupOut, Request, TypeOK
    <3> QED
      BY <3>1, <3>2
  <2>3. \/ current # 0 /\ hub' = "sendout" /\ outgoing' = <<Leave(clientPeers[a])>>
        \/ UNCHANGED <<hub, outgoing>>
    BY <1>5 DEF GroupOut
  <2>4. UNCHANGED <<conn, clientPeers, current, packet, exit, loop, members, memCount,
                    messages, got>>
    BY <1>5 DEF GroupOut, channels, looping
  <2>5. /\ hub' \in {"idle", "send", "sendout", "clean"}
        /\ hub' # "idle" => current' # 0
        /\ outgoing' \in Seq(GroupPacket)
        /\ Len(outgoing') = IF hub' \in {"send", "sendout"} THEN 1 ELSE 0
    <3>1. Leave(clientPeers[a]) \in GroupPacket
      BY <2>1, PacketsMade
    <3>2. <<Leave(clientPeers[a])>> \in Seq(GroupPacket) /\ Len(<<Leave(clientPeers[a])>>) = 1
      BY <3>1, Single
    <3> QED
      BY <2>3, <2>4, <3>2 DEF TypeOK
  <2> QED
    BY <2>2, <2>4, <2>5 DEF TypeOK
<1>6. CASE SendToGroup
  <2>1. messages' \in 0..MaxMessage /\ messages + 1 \in Message
    BY <1>6 DEF SendToGroup, TypeOK, Message
  <2>2. \/ current # 0 /\ hub' = "send" /\ outgoing' = <<Post(messages + 1)>>
        \/ UNCHANGED <<hub, outgoing>>
    BY <1>6 DEF SendToGroup, Sending
  <2>3. UNCHANGED <<conn, clientPeers, inGroup, current, packet, exit, loop, members,
                    memCount, requests, got>>
    BY <1>6 DEF SendToGroup, peers, channels, looping
  <2>4. /\ hub' \in {"idle", "send", "sendout", "clean"}
        /\ hub' # "idle" => current' # 0
        /\ outgoing' \in Seq(GroupPacket)
        /\ Len(outgoing') = IF hub' \in {"send", "sendout"} THEN 1 ELSE 0
    <3>1. Post(messages + 1) \in GroupPacket
      BY <2>1, PacketsMade
    <3>2. <<Post(messages + 1)>> \in Seq(GroupPacket) /\ Len(<<Post(messages + 1)>>) = 1
      BY <3>1, Single
    <3> QED
      BY <2>2, <2>3, <3>2 DEF TypeOK
  <2> QED
    BY <2>1, <2>3, <2>4 DEF TypeOK
<1>7. CASE HubSend
  <2>1. /\ current \in Gen /\ Len(packet[current]) < BufferSize /\ Len(outgoing) = 1
        /\ packet' = [packet EXCEPT ![current] = @ \o outgoing]
        /\ outgoing' = <<>> /\ hub' \in {"idle", "clean"}
        /\ outgoing \in Seq(GroupPacket) /\ packet[current] \in Seq(GroupPacket)
    BY <1>7 DEF HubSend, TypeOK, Gen
  <2>2. /\ packet[current] \o outgoing \in Seq(GroupPacket)
        /\ Len(packet[current] \o outgoing) = Len(packet[current]) + 1
    <3>1. PICK s \in Seq(GroupPacket) : s = packet[current]
      BY <2>1
    <3>2. PICK t \in Seq(GroupPacket) : t = outgoing
      BY <2>1
    <3>3. s \o t \in Seq(GroupPacket) /\ Len(s \o t) = Len(s) + Len(t)
      BY ConcatProperties
    <3> QED
      BY <2>1, <3>1, <3>2, <3>3
  <2>2a. Len(packet[current]) \in Nat
    BY <2>1, LenProperties
  <2>3. /\ packet' \in [Gen -> Seq(GroupPacket)]
        /\ \A g \in Gen : Len(packet'[g]) <= BufferSize
    BY <2>1, <2>2, <2>2a DEF TypeOK
  <2>4. UNCHANGED <<conn, clientPeers, inGroup, current, exit, loop, members, memCount,
                    requests, messages, got>>
    BY <1>7 DEF HubSend, peers, looping, handled
  <2>5. hub' # "idle" => current # 0
    BY <2>1 DEF Gen
  <2> QED
    BY <2>1, <2>3, <2>4, <2>5, EmptySeq DEF TypeOK
<1>8. CASE HubClean
  <2>1. /\ hub = "clean" /\ hub' = "idle"
        /\ exit' \in [Gen -> BOOLEAN] /\ current' \in {0, current}
        /\ UNCHANGED <<conn, clientPeers, inGroup, outgoing, packet, loop, members, memCount,
                       requests, messages, got>>
    BY <1>8 DEF HubClean, TypeOK, Cleaned, peers, looping, handled, Gen
  <2> QED
    BY <2>1 DEF TypeOK
<1>9. ASSUME NEW g \in Gen, Loop(g)
      PROVE  TypeOK'
  <2>1. ASSUME Took(g)
        PROVE  /\ packet[g] \in Seq(GroupPacket) /\ Head(packet[g]) \in GroupPacket
               /\ packet' \in [Gen -> Seq(GroupPacket)]
               /\ \A h \in Gen : Len(packet'[h]) <= BufferSize
    <3>1. packet[g] \in Seq(GroupPacket) /\ packet[g] # <<>>
          /\ packet' = [packet EXCEPT ![g] = Tail(@)] /\ Len(packet[g]) <= BufferSize
      BY <2>1 DEF Took, TypeOK
    <3>2. /\ Head(packet[g]) \in GroupPacket /\ Tail(packet[g]) \in Seq(GroupPacket)
          /\ Len(Tail(packet[g])) = Len(packet[g]) - 1 /\ Len(packet[g]) \in Nat
      BY <3>1, HeadTailProperties, LenProperties
    <3> QED
      BY <3>1, <3>2 DEF TypeOK
  <2>2. CASE LoopJoin(g)
    <3>1. Head(packet[g]).conn \in Conn
      BY <2>1, <2>2, PacketParts DEF LoopJoin
    <3>2. members' \in [Gen -> [Client -> Conn \cup {NoConn}]]
      BY <2>2, <3>1 DEF LoopJoin, TypeOK
    <3>3. memCount' \in [Gen -> Int]
      BY <2>2 DEF LoopJoin, TypeOK
    <3>4. UNCHANGED <<conn, clientPeers, inGroup, current, hub, outgoing, exit, loop,
                      requests, messages, got>>
      BY <2>2 DEF LoopJoin, peers, handled
    <3>5. Took(g)
      BY <2>2 DEF LoopJoin
    <3> QED
      BY <2>1, <3>2, <3>3, <3>4, <3>5 DEF TypeOK
  <2>3. CASE LoopLeave(g)
    <3>1. Head(packet[g]).conn \in Conn
      BY <2>1, <2>3, PacketParts DEF LoopLeave
    <3>2. members' \in [Gen -> [Client -> Conn \cup {NoConn}]]
      BY <2>3, <3>1 DEF LoopLeave, TypeOK
    <3>3. memCount' \in [Gen -> Int]
      BY <2>3 DEF LoopLeave, TypeOK
    <3>4. UNCHANGED <<conn, clientPeers, inGroup, current, hub, outgoing, exit, loop,
                      requests, messages, got>>
      BY <2>3 DEF LoopLeave, peers, handled
    <3>5. Took(g)
      BY <2>3 DEF LoopLeave
    <3> QED
      BY <2>1, <3>2, <3>3, <3>4, <3>5 DEF TypeOK
  <2>4. CASE LoopMessage(g)
    <3> DEFINE m == Head(packet[g]).message
    <3>1. Took(g) /\ m \in Message
      BY <2>1, <2>4, PacketParts DEF LoopMessage
    <3>2. PICK cs \in SUBSET Members(g) : PushTo(cs, m)
      BY <2>4 DEF LoopMessage
    <3> HIDE DEF m
    <3>3. \A c \in Conn : got[c] \in Seq(Message) /\ got[c] \o <<m>> \in Seq(Message)
      <4> SUFFICES ASSUME NEW c \in Conn
                   PROVE  got[c] \in Seq(Message) /\ got[c] \o <<m>> \in Seq(Message)
        OBVIOUS
      <4>1. got[c] \in Seq(Message) /\ <<m>> \in Seq(Message)
        BY <3>1, Single DEF TypeOK
      <4> QED
        BY <4>1, ConcatProperties
    <3>4. got' \in [Conn -> Seq(Message)]
      BY <3>2, <3>3 DEF PushTo, Pushed
    <3>5. /\ loop' \in [Gen -> {"new", "select", "hung", "exited"}]
          /\ current # 0 => loop'[current] \in {"select", "hung"}
      <4>1. CASE UNCHANGED loop
        BY <4>1 DEF TypeOK
      <4>2. CASE loop' = [loop EXCEPT ![g] = "hung"]
        BY <4>2 DEF TypeOK
      <4> QED
        BY <2>4, <4>1, <4>2 DEF LoopMessage
    <3>6. UNCHANGED <<conn, clientPeers, inGroup, current, hub, outgoing, exit, members,
                      memCount, requests, messages>>
      BY <2>4 DEF LoopMessage, peers, handled
    <3> QED
      BY <2>1, <3>1, <3>4, <3>5, <3>6 DEF TypeOK
  <2>5. CASE LoopExit(g)
    <3>1. g # current
      BY <2>5 DEF LoopExit, Told, Gen
    <3>2. /\ exit' \in [Gen -> BOOLEAN]
          /\ loop' \in [Gen -> {"new", "select", "hung", "exited"}]
          /\ current # 0 => loop'[current] \in {"select", "hung"}
      BY <2>5, <3>1 DEF LoopExit, TypeOK, Gen
    <3>3. UNCHANGED <<conn, clientPeers, inGroup, current, hub, outgoing, packet, members,
                      memCount, requests, messages, got>>
      BY <2>5 DEF LoopExit, peers, handled
    <3> QED
      BY <3>2, <3>3 DEF TypeOK
  <2> QED
    BY <1>9, <2>2, <2>3, <2>4, <2>5 DEF Loop
<1> QED
  BY <1>0, <1>1, <1>2, <1>3, <1>4, <1>5, <1>6, <1>7, <1>8, <1>9 DEF Next

(* What was cleaned stays cleaned: a told goroutine exits and stays so.     *)
LEMMA StillClean ==
  ASSUME TypeOK, [Next]_vars, NothingCleaned'
  PROVE  NothingCleaned
<1> SUFFICES ASSUME NEW g \in Gen
             PROVE  ~exit[g] /\ loop[g] # "exited"
  BY DEF NothingCleaned
<1>1. ~exit'[g] /\ loop'[g] # "exited"
  BY DEF NothingCleaned
<1>2. CASE UNCHANGED <<exit, loop>>
  BY <1>1, <1>2
<1>3. ASSUME NEW a \in Client, GroupIn(a)
      PROVE  ~exit[g] /\ loop[g] # "exited"
  <2>1. UNCHANGED exit
    BY <1>3 DEF GroupIn, channels
  <2>2. \/ UNCHANGED loop
        \/ \E h \in Gen : loop[h] = "new" /\ loop' = [loop EXCEPT ![h] = "select"]
    BY <1>3 DEF GroupIn
  <2> QED
    BY <1>1, <2>1, <2>2 DEF TypeOK
<1>4. CASE HubClean
  BY <1>1, <1>4 DEF HubClean, looping, TypeOK, Gen
<1>5. ASSUME NEW h \in Gen, LoopMessage(h)
      PROVE  ~exit[g] /\ loop[g] # "exited"
  <2>1. loop[h] = "select" /\ UNCHANGED exit
        /\ (UNCHANGED loop \/ loop' = [loop EXCEPT ![h] = "hung"])
    BY <1>5 DEF LoopMessage, Took
  <2> QED
    BY <1>1, <2>1 DEF TypeOK
<1>6. ASSUME NEW h \in Gen, LoopExit(h)
      PROVE  ~exit[g] /\ loop[g] # "exited"
  BY <1>1, <1>6 DEF LoopExit, TypeOK
<1>7. ASSUME NEW h \in Gen, LoopJoin(h) \/ LoopLeave(h)
      PROVE  ~exit[g] /\ loop[g] # "exited"
  BY <1>1, <1>7 DEF LoopJoin, LoopLeave
<1> QED
  BY <1>2, <1>3, <1>4, <1>5, <1>6, <1>7
     DEF Next, Loop, Login, Drop, Logout, GroupOut, SendToGroup, HubSend, channels,
         looping, vars

(* Every step keeps the inductive invariant.                                *)
LEMMA NextGInv ==
  ASSUME GInv, [Next]_vars
  PROVE  GInv'
<1> USE AddrAssumption, BoundAssumption DEF GInv
<1>1. TypeOK'
  BY NextTypeOK
<1>2. \/ UNCHANGED <<current, exit, loop>>
      \/ HubClean
      \/ \E a \in Client : GroupIn(a)
      \/ \E g \in Gen : LoopMessage(g) \/ LoopExit(g)
  BY DEF Next, Loop, Login, Drop, Logout, GroupOut, SendToGroup, HubSend, LoopJoin,
         LoopLeave, channels, looping, vars
<1>3. ASSUME NEW a \in Client, GroupIn(a)
      PROVE  /\ UNCHANGED exit
             /\ \/ UNCHANGED <<current, loop>>
                \/ \E h \in Gen : /\ current = 0 /\ loop[h] = "new"
                                  /\ current' = h /\ loop' = [loop EXCEPT ![h] = "select"]
  <2> DEFINE Fresh(g) == loop[g] = "new" /\ \A k \in 1..(g - 1) : loop[k] # "new"
             next == CHOOSE g \in Gen : Fresh(g)
  <2>1. (\E g \in Gen : Fresh(g)) => next \in Gen /\ loop[next] = "new"
    OBVIOUS
  <2>2. \/ UNCHANGED <<current, loop>>
        \/ /\ current = 0 /\ next \in Gen /\ loop[next] = "new"
           /\ current' = next /\ loop' = [loop EXCEPT ![next] = "select"]
    BY <1>3, <2>1 DEF GroupIn
  <2> HIDE DEF next
  <2> QED
    BY <1>3, <2>2 DEF GroupIn, channels
<1>4. ASSUME NEW g \in Gen, LoopMessage(g)
      PROVE  /\ UNCHANGED <<current, exit>> /\ loop[g] = "select"
             /\ UNCHANGED loop \/ loop' = [loop EXCEPT ![g] = "hung"]
  BY <1>4 DEF LoopMessage, Took
<1>5. Told'
  <2>1. CASE UNCHANGED <<current, exit, loop>>
    BY <2>1 DEF Told
  <2>2. CASE HubClean
    BY <2>2 DEF HubClean, Told, TypeOK, Cleaned, Gen, looping
  <2>3. ASSUME NEW a \in Client, GroupIn(a)
        PROVE  Told'
    <3>1. CASE UNCHANGED <<current, loop>>
      BY <2>3, <1>3, <3>1 DEF Told
    <3>2. ASSUME NEW h \in Gen, loop[h] = "new", current' = h,
                 loop' = [loop EXCEPT ![h] = "select"]
          PROVE  Told'
      <4>1. exit' = exit /\ ~exit[h]
        BY <2>3, <1>3, <3>2 DEF Told
      <4>2. ASSUME NEW g \in Gen, loop'[g] = "new" PROVE loop[g] = "new"
        BY <3>2, <4>2 DEF TypeOK
      <4> QED BY <3>2, <4>1, <4>2 DEF Told
    <3> QED
      BY <2>3, <1>3, <3>1, <3>2
  <2>4. ASSUME NEW g \in Gen, LoopMessage(g)
        PROVE  Told'
    <3>1. UNCHANGED <<current, exit>>
          /\ (UNCHANGED loop \/ loop' = [loop EXCEPT ![g] = "hung"])
      BY <1>4, <2>4
    <3>2. ASSUME NEW h \in Gen, loop'[h] = "new" PROVE loop[h] = "new"
      BY <2>4, <3>1, <3>2 DEF TypeOK
    <3> QED BY <3>1, <3>2 DEF Told
  <2>5. ASSUME NEW g \in Gen, LoopExit(g)
        PROVE  Told'
    BY <2>5 DEF LoopExit, Told, TypeOK, Gen
  <2> QED
    BY <1>2, <2>1, <2>2, <2>3, <2>4, <2>5
<1>6. Quiet'
  <2> SUFFICES ASSUME NEW g \in Gen, loop'[g] = "new"
               PROVE  packet'[g] = <<>> /\ members'[g] = NoMembers
    BY DEF Quiet, NoMembers
  <2>1. loop[g] = "new"
    <3>1. ASSUME NEW h \in Gen, LoopExit(h)
          PROVE  loop[g] = "new"
      BY <3>1 DEF LoopExit, TypeOK
    <3>2. ASSUME NEW h \in Gen, LoopMessage(h)
          PROVE  loop[g] = "new"
      BY <1>4, <3>2 DEF TypeOK
    <3>3. ASSUME NEW a \in Client, GroupIn(a)
          PROVE  loop[g] = "new"
      BY <1>3, <3>3 DEF TypeOK
    <3> QED
      BY <1>2, <3>1, <3>2, <3>3 DEF HubClean, looping
  <2>2. packet[g] = <<>> /\ members[g] = NoMembers
    BY <2>1 DEF Quiet
  <2>3. CASE UNCHANGED <<packet, members>>
    BY <2>2, <2>3
  <2>4. CASE HubSend
    BY <2>1, <2>2, <2>4 DEF HubSend, TypeOK, looping, Gen
  <2>5. ASSUME NEW h \in Gen, LoopJoin(h) \/ LoopLeave(h) \/ LoopMessage(h)
        PROVE  packet'[g] = <<>> /\ members'[g] = NoMembers
    <3>1. loop[h] = "select" /\ packet' = [packet EXCEPT ![h] = Tail(@)]
      BY <2>5 DEF LoopJoin, LoopLeave, LoopMessage, Took
    <3>2. h # g
      BY <2>1, <3>1
    <3>3. packet'[g] = packet[g]
      BY <3>1, <3>2 DEF TypeOK
    <3>4. members'[g] = members[g]
      BY <2>5, <3>2 DEF LoopJoin, LoopLeave, LoopMessage, TypeOK
    <3> QED
      BY <2>2, <3>3, <3>4
  <2> QED
    BY <2>3, <2>4, <2>5
       DEF Next, Loop, Login, Drop, Logout, GroupIn, GroupOut, SendToGroup, HubClean,
           LoopExit, channels, looping, vars
<1>7. Registered'
  <2> SUFFICES ASSUME NEW a \in Client, clientPeers'[a] # NoConn
               PROVE  AddrOf[clientPeers'[a]] = a /\ conn'[clientPeers'[a]] # "new"
    BY DEF Registered
  <2>1. CASE UNCHANGED <<conn, clientPeers>>
    BY <2>1 DEF Registered
  <2>2. ASSUME NEW c \in Conn, Login(c)
        PROVE  AddrOf[clientPeers'[a]] = a /\ conn'[clientPeers'[a]] # "new"
    BY <2>2 DEF Login, Registered, TypeOK
  <2>3. ASSUME NEW c \in Conn, Drop(c)
        PROVE  AddrOf[clientPeers'[a]] = a /\ conn'[clientPeers'[a]] # "new"
    BY <2>3 DEF Drop, Registered, TypeOK
  <2>4. ASSUME NEW c \in Conn, Logout(c)
        PROVE  AddrOf[clientPeers'[a]] = a /\ conn'[clientPeers'[a]] # "new"
    BY <2>4 DEF Logout, Registered, TypeOK
  <2> QED
    BY <2>1, <2>2, <2>3, <2>4
       DEF Next, Loop, GroupIn, GroupOut, SendToGroup, HubSend, HubClean, LoopJoin,
           LoopLeave, LoopMessage, LoopExit, peers, vars
<1>8. Alone'
  <2> SUFFICES ASSUME NothingCleaned', NEW g \in Gen, g # current'
               PROVE  loop'[g] = "new"
    BY DEF Alone
  <2>1. NothingCleaned
    BY StillClean
  <2>2. CASE UNCHANGED <<current, exit, loop>>
    BY <2>1, <2>2 DEF Alone
  <2>3. CASE HubClean
    <3>1. CASE exit' = [exit EXCEPT ![current] = TRUE]
      <4>1. current \in Gen
        BY <2>3 DEF HubClean, TypeOK, Gen
      <4>2. exit'[current]
        BY <3>1, <4>1 DEF TypeOK
      <4> QED
        BY <4>1, <4>2 DEF NothingCleaned
    <3>2. CASE UNCHANGED <<exit, current>>
      BY <2>1, <2>3, <3>2 DEF HubClean, Alone, looping
    <3> QED
      BY <2>3, <3>1, <3>2 DEF HubClean
  <2>4. ASSUME NEW a \in Client, GroupIn(a)
        PROVE  loop'[g] = "new"
    <3>1. CASE UNCHANGED <<current, loop>>
      BY <2>1, <3>1 DEF Alone
    <3>2. ASSUME NEW h \in Gen, current = 0, current' = h,
                 loop' = [loop EXCEPT ![h] = "select"]
          PROVE  loop'[g] = "new"
      BY <2>1, <3>2 DEF Alone, TypeOK, Gen
    <3> QED
      BY <1>3, <2>4, <3>1, <3>2
  <2>5. ASSUME NEW h \in Gen, LoopMessage(h)
        PROVE  loop'[g] = "new"
    <3>1. h = current
      BY <1>4, <2>1, <2>5 DEF Alone
    <3> QED
      BY <1>4, <2>1, <2>5, <3>1 DEF Alone, TypeOK
  <2>6. ASSUME NEW h \in Gen, LoopExit(h)
        PROVE  loop'[g] = "new"
    BY <2>6 DEF LoopExit, NothingCleaned, TypeOK
  <2> QED
    BY <1>2, <2>2, <2>3, <2>4, <2>5, <2>6
<1> QED
  BY <1>1, <1>5, <1>6, <1>7, <1>8

(* The inductive invariant holds in every reachable state.                  *)
LEMMA AlwaysGInv == Spec => []GInv
<1>1. Init => GInv
  BY InitGInv
<1>2. GInv /\ [Next]_vars => GInv'
  BY NextGInv
<1> QED
  BY <1>1, <1>2, PTL DEF Spec

(* Type correctness of the handler and of every generation of the group's   *)
(* goroutine (hub/group.go, and hub.go where it sends to groups): in        *)
(* particular a goroutine in the hub's map has not left its loop, and a     *)
(* packet waits only for a group that is in the map.                        *)
THEOREM GroupTypeOK == Spec => []TypeOK
<1>1. GInv => TypeOK
  BY DEF GInv
<1> QED
  BY <1>1, AlwaysGInv, PTL

-----------------------------------------------------------------------------
(* What is under way is a sequence of packets.                              *)
LEMMA UnderWayTyped ==
  ASSUME TypeOK
  PROVE  UnderWay \in Seq(GroupPacket)
<1>1. outgoing \in Seq(GroupPacket)
  BY DEF TypeOK
<1>2. CASE current = 0
  BY <1>1, <1>2 DEF UnderWay
<1>3. CASE current # 0
  <2>1. packet[current] \in Seq(GroupPacket)
    BY <1>3, BoundAssumption DEF TypeOK, Gen
  <2> QED
    BY <1>1, <1>3, <2>1, ConcatProperties DEF UnderWay
<1> QED
  BY <1>2, <1>3

(* The handler has a packet in hand only while it sends.                    *)
LEMMA NothingOutgoing ==
  ASSUME TypeOK, hub \notin {"send", "sendout"}
  PROVE  outgoing = <<>>
<1>1. outgoing \in Seq(GroupPacket) /\ Len(outgoing) = 0
  BY DEF TypeOK
<1> QED
  BY <1>1, EmptySeq

(* A packet the handler begins to send comes after all that is under way,   *)
(* also when it starts the goroutine for it.                                *)
LEMMA SentIsAppended ==
  ASSUME GInv, hub = "idle", NEW p \in GroupPacket, outgoing' = <<p>>,
         packet' = packet,
         \/ current # 0 /\ current' = current
         \/ current = 0 /\ current' \in Gen /\ loop[current'] = "new"
  PROVE  UnderWay' = Append(UnderWay, p)
<1>1. outgoing = <<>> /\ TypeOK
  BY NothingOutgoing DEF GInv
<1>2. CASE current # 0 /\ current' = current
  <2>1. packet[current] \in Seq(GroupPacket)
    BY <1>1, <1>2, BoundAssumption DEF TypeOK, Gen
  <2>2. UnderWay = packet[current]
    BY <1>1, <1>2, <2>1, ConcatEmptySeq DEF UnderWay
  <2>3. UnderWay' = packet[current] \o <<p>>
    BY <1>2 DEF UnderWay
  <2> QED
    BY <2>1, <2>2, <2>3, AppendIsConcat
<1>3. CASE current = 0 /\ current' \in Gen /\ loop[current'] = "new"
  <2>1. UnderWay = <<>>
    BY <1>1, <1>3 DEF UnderWay
  <2>2. packet[current'] = <<>>
    BY <1>3 DEF GInv, Quiet
  <2>3. UnderWay' = <<>> \o <<p>>
    BY <1>3, <2>2 DEF UnderWay, Gen
  <2>4. <<>> \in Seq(GroupPacket)
    BY EmptySeq
  <2> QED
    BY <2>1, <2>3, <2>4, AppendIsConcat
<1> QED
  BY <1>2, <1>3

(* The send on the channel changes nothing of what is under way.            *)
LEMMA HandedOver ==
  ASSUME TypeOK, HubSend
  PROVE  UnderWay' = UnderWay
<1>1. /\ current \in Gen /\ current # 0 /\ current' = current
      /\ packet' = [packet EXCEPT ![current] = @ \o outgoing] /\ outgoing' = <<>>
      /\ outgoing \in Seq(GroupPacket) /\ packet[current] \in Seq(GroupPacket)
  BY BoundAssumption DEF HubSend, TypeOK, Gen
<1>2. packet'[current] = packet[current] \o outgoing
  BY <1>1 DEF TypeOK
<1>3. packet[current] \o outgoing \in Seq(GroupPacket)
  BY <1>1, ConcatProperties
<1>4. (packet[current] \o outgoing) \o <<>> = packet[current] \o outgoing
  BY <1>3, ConcatEmptySeq
<1> QED
  BY <1>1, <1>2, <1>4 DEF UnderWay

(* While nothing was cleaned, what a goroutine takes is the first packet    *)
(* under way.                                                               *)
LEMMA TakenIsFirst ==
  ASSUME GInv, NEW g \in Gen, Took(g), NothingCleaned, UNCHANGED <<current, outgoing>>
  PROVE  /\ g = current /\ UnderWay # <<>>
         /\ Head(UnderWay) = Head(packet[g]) /\ Head(UnderWay) \in GroupPacket
         /\ UnderWay' = Tail(UnderWay)
<1>1. g = current /\ current # 0
  BY BoundAssumption DEF GInv, Alone, Took, Gen
<1>2. packet[g] \in Seq(GroupPacket) /\ packet[g] # <<>> /\ outgoing \in Seq(GroupPacket)
  BY DEF GInv, TypeOK, Took
<1>3. UnderWay = packet[g] \o outgoing
  BY <1>1 DEF UnderWay
<1>4. UnderWay' = Tail(packet[g]) \o outgoing
  BY <1>1 DEF UnderWay, Took, GInv, TypeOK
<1>5. Head(packet[g]) \in GroupPacket
  BY <1>2, HeadTailProperties
<1> QED
  BY <1>1, <1>2, <1>3, <1>4, <1>5, HeadOfConcat

-----------------------------------------------------------------------------
(* The messages in U are at most n and in their order.                      *)
Rising(U, n) ==
  /\ \A i \in 1..Len(U) : U[i].use = "message" => U[i].message <= n
  /\ \A i, j \in 1..Len(U) : i < j /\ U[i].use = "message" /\ U[j].use = "message"
                                => U[i].message < U[j].message

(* The messages of s are at most n, in order, and before all of U.          *)
InTurn(s, U, n) ==
  /\ \A i, j \in 1..Len(s) : i < j => s[i] < s[j]
  /\ \A k \in 1..Len(s) : /\ s[k] <= n
                          /\ \A i \in 1..Len(U) : U[i].use = "message" => s[k] < U[i].message

(* The order survives a packet at the end: the next message or none.        *)
LEMMA TurnAppend ==
  ASSUME NEW U \in Seq(GroupPacket), NEW n \in Nat, NEW m \in Nat, NEW p \in GroupPacket,
         \/ p.use # "message" /\ m = n
         \/ p.use = "message" /\ p.message = n + 1 /\ m = n + 1,
         Rising(U, n)
  PROVE  /\ Rising(Append(U, p), m)
         /\ \A s \in Seq(Message) : InTurn(s, U, n) => InTurn(s, Append(U, p), m)
<1>1. /\ Len(Append(U, p)) = Len(U) + 1 /\ Len(U) \in Nat
      /\ \A i \in 1..Len(U) : Append(U, p)[i] = U[i]
      /\ Append(U, p)[Len(U) + 1] = p
  BY AppendProperties, LenProperties
<1>2. \A i \in 1..Len(U) : U[i] \in GroupPacket
  BY ElementOfSeq
<1>3. \A i \in 1..Len(U) : U[i].use = "message" => U[i].message \in Nat
  BY <1>2, PacketParts DEF Message
<1> DEFINE V == Append(U, p)
<1>4. \A i \in 1..Len(V) : \/ i \in 1..Len(U) /\ V[i] = U[i]
                           \/ i = Len(U) + 1 /\ V[i] = p
  BY <1>1
<1>5. Len(V) = Len(U) + 1
  BY <1>1
<1> HIDE DEF V
<1>6. Rising(V, m)
  <2>1. \A i \in 1..Len(V) : V[i].use = "message" => V[i].message <= m
    BY <1>3, <1>4 DEF Rising
  <2>2. ASSUME NEW i \in 1..Len(V), NEW j \in 1..Len(V), i < j,
               V[i].use = "message", V[j].use = "message"
        PROVE  V[i].message < V[j].message
    <3>1. i \in 1..Len(U) /\ V[i] = U[i]
      BY <1>1, <1>4, <1>5, <2>2
    <3>2. CASE j \in 1..Len(U) /\ V[j] = U[j]
      BY <2>2, <3>1, <3>2 DEF Rising
    <3>3. CASE j = Len(U) + 1 /\ V[j] = p
      BY <1>3, <2>2, <3>1, <3>3 DEF Rising
    <3> QED
      BY <1>4, <3>2, <3>3
  <2> QED
    BY <2>1, <2>2 DEF Rising
<1>7. ASSUME NEW s \in Seq(Message), InTurn(s, U, n)
      PROVE  InTurn(s, V, m)
  <2>1. \A k \in 1..Len(s) : s[k] \in Nat /\ s[k] <= n
    <3>1. \A k \in 1..Len(s) : s[k] \in Message
      BY ElementOfSeq
    <3> QED
      BY <1>7, <3>1 DEF InTurn, Message
  <2>2. ASSUME NEW k \in 1..Len(s), NEW i \in 1..Len(V), V[i].use = "message"
        PROVE  s[k] < V[i].message
    BY <1>4, <1>7, <2>1, <2>2 DEF InTurn
  <2>3. \A k \in 1..Len(s) : s[k] <= m
    BY <2>1
  <2> QED
    BY <1>7, <2>2, <2>3 DEF InTurn
<1> QED
  BY <1>6, <1>7 DEF V

(* The order survives the first packet being taken, whether a connection is *)
(* pushed its message or not.                                               *)
LEMMA TurnTail ==
  ASSUME NEW U \in Seq(GroupPacket), U # <<>>, NEW n \in Nat, Rising(U, n)
  PROVE  /\ Rising(Tail(U), n)
         /\ \A s \in Seq(Message) : InTurn(s, U, n) => InTurn(s, Tail(U), n)
         /\ Head(U).use = "message" =>
              \A s \in Seq(Message) :
                InTurn(s, U, n) => InTurn(s \o <<Head(U).message>>, Tail(U), n)
<1> DEFINE V == Tail(U)
<1>1. /\ Len(V) = Len(U) - 1 /\ Len(U) \in Nat \ {0}
      /\ \A i \in 1..Len(V) : V[i] = U[i + 1]
  BY HeadTailProperties, EmptySeq
<1>2. Head(U) = U[1] /\ U[1] \in GroupPacket
  BY <1>1, HeadTailProperties
<1> HIDE DEF V
<1>3. \A i \in 1..Len(V) : i + 1 \in 1..Len(U) /\ 1 < i + 1 /\ V[i] = U[i + 1]
  BY <1>1
<1>4. Rising(V, n)
  <2>1. \A i \in 1..Len(V) : V[i].use = "message" => V[i].message <= n
    BY <1>3 DEF Rising
  <2>2. ASSUME NEW i \in 1..Len(V), NEW j \in 1..Len(V), i < j,
               V[i].use = "message", V[j].use = "message"
        PROVE  V[i].message < V[j].message
    <3>1. i + 1 < j + 1
      BY <2>2
    <3> QED
      BY <1>3, <2>2, <3>1 DEF Rising
  <2> QED
    BY <2>1, <2>2 DEF Rising
<1>5. \A s \in Seq(Message) : InTurn(s, U, n) => InTurn(s, V, n)
  <2> SUFFICES ASSUME NEW s \in Seq(Message), InTurn(s, U, n)
               PROVE  InTurn(s, V, n)
    OBVIOUS
  <2>1. ASSUME NEW k \in 1..Len(s), NEW i \in 1..Len(V), V[i].use = "message"
        PROVE  s[k] < V[i].message
    BY <1>3, <2>1 DEF InTurn
  <2> QED
    BY <2>1 DEF InTurn
<1>6. ASSUME Head(U).use = "message", NEW s \in Seq(Message), InTurn(s, U, n)
      PROVE  InTurn(s \o <<Head(U).message>>, V, n)
  <2> DEFINE m == Head(U).message
             t == s \o <<m>>
  <2>1. m \in Message
    BY <1>2, <1>6, PacketParts
  <2> HIDE DEF m
  <2>2. <<m>> \in Seq(Message) /\ Len(<<m>>) = 1 /\ <<m>>[1] = m
    BY <2>1
  <2>3. Len(s) \in Nat /\ Len(t) = Len(s) + 1
    BY <2>2, ConcatProperties, LenProperties
  <2>4. \A i \in 1..Len(t) : \/ i \in 1..Len(s) /\ t[i] = s[i]
                             \/ i = Len(s) + 1 /\ t[i] = m
    BY <2>2, <2>3, ConcatProperties
  <2> HIDE DEF t
  <2>5. \A k \in 1..Len(s) : s[k] < m
    BY <1>1, <1>2, <1>6 DEF InTurn, m
  <2>6. m <= n /\ \A i \in 1..Len(V) : V[i].use = "message" => m < V[i].message
    BY <1>1, <1>2, <1>3, <1>6 DEF Rising, m
  <2>7. ASSUME NEW i \in 1..Len(t), NEW j \in 1..Len(t), i < j
        PROVE  t[i] < t[j]
    <3>1. i \in 1..Len(s) /\ t[i] = s[i]
      BY <2>3, <2>4, <2>7
    <3> QED
      BY <1>6, <2>4, <2>5, <2>7, <3>1 DEF InTurn
  <2>8. ASSUME NEW k \in 1..Len(t)
        PROVE  /\ t[k] <= n
               /\ \A i \in 1..Len(V) : V[i].use = "message" => t[k] < V[i].message
    <3>1. CASE k \in 1..Len(s) /\ t[k] = s[k]
      BY <1>5, <1>6, <3>1 DEF InTurn
    <3>2. CASE t[k] = m
      BY <2>6, <3>2
    <3> QED
      BY <2>4, <3>1, <3>2
  <2>9. InTurn(t, V, n)
    BY <2>7, <2>8 DEF InTurn
  <2> QED
    BY <2>9 DEF t, m
<1> QED
  BY <1>4, <1>5, <1>6 DEF V

(* What each step of the handler and of the connections does to UnderWay.   *)
LEMMA UnderWaySteps ==
  ASSUME GInv
  PROVE  /\ \A c \in Conn : Login(c) \/ Drop(c) => UNCHANGED UnderWay
         /\ \A c \in Conn : Logout(c) =>
              \/ LeavesGroups(c) /\ UnderWay' = Append(UnderWay, Leave(c))
              \/ ~LeavesGroups(c) /\ UNCHANGED UnderWay
         /\ \A a \in Client : GroupIn(a) =>
              /\ clientPeers[a] \in Conn
              /\ UnderWay' = Append(UnderWay, Join(clientPeers[a]))
         /\ \A a \in Client : GroupOut(a) =>
              /\ clientPeers[a] \in Conn
              /\ \/ UnderWay' = Append(UnderWay, Leave(clientPeers[a]))
                 \/ current = 0 /\ UnderWay = <<>> /\ UNCHANGED UnderWay
         /\ SendToGroup =>
              /\ messages + 1 \in Message
              /\ \/ UnderWay' = Append(UnderWay, Post(messages + 1))
                 \/ UNCHANGED UnderWay
         /\ HubSend => UNCHANGED UnderWay
         /\ HubClean /\ NothingCleaned' => UNCHANGED <<UnderWay, current>>
<1> USE DEF GInv
<1>1. ASSUME NEW c \in Conn, Login(c) \/ Drop(c)
      PROVE  UNCHANGED UnderWay
  BY <1>1 DEF Login, Drop, UnderWay, channels
<1>2. ASSUME NEW c \in Conn, Logout(c)
      PROVE  \/ LeavesGroups(c) /\ UnderWay' = Append(UnderWay, Leave(c))
             \/ ~LeavesGroups(c) /\ UNCHANGED UnderWay
  <2>1. hub = "idle" /\ UNCHANGED <<current, packet>>
    BY <1>2 DEF Logout, channels
  <2>2. CASE LeavesGroups(c) /\ Sending(Leave(c))
    <3>1. current # 0 /\ Leave(c) \in GroupPacket /\ outgoing' = <<Leave(c)>>
      BY <2>2, PacketsMade DEF LeavesGroups, Sending
    <3> QED
      BY <2>1, <2>2, <3>1, SentIsAppended
  <2>3. CASE ~LeavesGroups(c) /\ UNCHANGED <<hub, outgoing>>
    BY <2>1, <2>3 DEF UnderWay
  <2> QED
    BY <1>2, <2>2, <2>3 DEF Logout
<1>3. ASSUME NEW a \in Client, GroupIn(a)
      PROVE  /\ clientPeers[a] \in Conn
             /\ UnderWay' = Append(UnderWay, Join(clientPeers[a]))
  <2>1. clientPeers[a] \in Conn /\ hub = "idle"
    BY <1>3 DEF GroupIn, Request, TypeOK
  <2>2. Join(clientPeers[a]) \in GroupPacket
    BY <2>1, PacketsMade
  <2>3. outgoing' = <<Join(clientPeers[a])>> /\ packet' = packet
    BY <1>3 DEF GroupIn, Sending, channels
  <2> DEFINE Fresh(g) == loop[g] = "new" /\ \A k \in 1..(g - 1) : loop[k] # "new"
             next == CHOOSE g \in Gen : Fresh(g)
  <2>4. (\E g \in Gen : Fresh(g)) => next \in Gen /\ loop[next] = "new"
    OBVIOUS
  <2>5. \/ current # 0 /\ current' = current
        \/ current = 0 /\ current' = next /\ next \in Gen /\ loop[next] = "new"
    BY <1>3, <2>4 DEF GroupIn
  <2> HIDE DEF next
  <2>6. \/ current # 0 /\ current' = current
        \/ current = 0 /\ current' \in Gen /\ loop[current'] = "new"
    BY <2>5
  <2> QED
    BY <2>1, <2>2, <2>3, <2>6, SentIsAppended
<1>4. ASSUME NEW a \in Client, GroupOut(a)
      PROVE  /\ clientPeers[a] \in Conn
             /\ \/ UnderWay' = Append(UnderWay, Leave(clientPeers[a]))
                \/ current = 0 /\ UnderWay = <<>> /\ UNCHANGED UnderWay
  <2>1. clientPeers[a] \in Conn /\ hub = "idle"
    BY <1>4 DEF GroupOut, Request, TypeOK
  <2>2. Leave(clientPeers[a]) \in GroupPacket
    BY <2>1, PacketsMade
  <2>3. UNCHANGED <<packet, current>>
    BY <1>4 DEF GroupOut, channels
  <2>4. CASE current # 0
    BY <1>4, <2>1, <2>2, <2>3, <2>4, SentIsAppended DEF GroupOut
  <2>5. CASE current = 0
    <3>1. outgoing = <<>>
      BY <2>1, NothingOutgoing
    <3> QED
      BY <1>4, <2>1, <2>3, <2>5, <3>1 DEF GroupOut, UnderWay
  <2> QED
    BY <2>4, <2>5
<1>5. ASSUME SendToGroup
      PROVE  /\ messages + 1 \in Message
             /\ \/ UnderWay' = Append(UnderWay, Post(messages + 1))
                \/ UNCHANGED UnderWay
  <2>1. messages + 1 \in Message
    BY <1>5, BoundAssumption DEF SendToGroup, TypeOK, Message
  <2>2. Post(messages + 1) \in GroupPacket
    BY <2>1, PacketsMade
  <2>3. hub = "idle" /\ UNCHANGED <<packet, current>>
    BY <1>5 DEF SendToGroup, channels
  <2>4. CASE current # 0
    BY <1>5, <2>1, <2>2, <2>3, <2>4, SentIsAppended DEF SendToGroup, Sending
  <2>5. CASE current = 0
    BY <1>5, <2>1, <2>3, <2>5 DEF SendToGroup, UnderWay
  <2> QED
    BY <2>4, <2>5
<1>6. HubSend => UNCHANGED UnderWay
  BY HandedOver
<1>7. ASSUME HubClean, NothingCleaned'
      PROVE  UNCHANGED <<UnderWay, current>>
  <2>1. current \in Gen
    BY <1>7, BoundAssumption DEF HubClean, TypeOK, Gen
  <2>2. exit' # [exit EXCEPT ![current] = TRUE]
    BY <1>7, <2>1 DEF NothingCleaned, TypeOK
  <2> QED
    BY <1>7, <2>2 DEF HubClean, UnderWay
<1> QED
  BY <1>1, <1>2, <1>3, <1>4, <1>5, <1>6, <1>7

(* What a step of a goroutine that takes a packet does to UnderWay.         *)
LEMMA LoopTakes ==
  ASSUME GInv, NothingCleaned, NEW g \in Gen, LoopJoin(g) \/ LoopLeave(g) \/ LoopMessage(g)
  PROVE  /\ g = current /\ UnderWay # <<>>
         /\ Head(UnderWay) = Head(packet[g]) /\ Head(UnderWay) \in GroupPacket
         /\ UnderWay' = Tail(UnderWay)
  BY TakenIsFirst DEF LoopJoin, LoopLeave, LoopMessage

(* InOrder, strengthened: what was pushed to a connection is in order and   *)
(* before the messages under way, and these are in order too.               *)
Ordered ==
  NothingCleaned => /\ Rising(UnderWay, messages)
                    /\ \A c \in Conn : InTurn(got[c], UnderWay, messages)

(* Nothing was pushed and nothing is under way at first.                    *)
LEMMA InitOrdered == Init => Ordered
<1> SUFFICES ASSUME Init PROVE Ordered
  OBVIOUS
<1>1. UnderWay = <<>> /\ \A c \in Conn : got[c] = <<>>
  BY DEF Init, UnderWay
<1> QED
  BY <1>1 DEF Ordered, Rising, InTurn

(* Every step keeps that order.                                             *)
LEMMA NextOrdered ==
  ASSUME GInv, Ordered, [Next]_vars
  PROVE  Ordered'
<1> SUFFICES ASSUME NothingCleaned'
             PROVE  /\ Rising(UnderWay', messages')
                    /\ \A c \in Conn : InTurn(got'[c], UnderWay', messages')
  BY DEF Ordered
<1>1. NothingCleaned /\ TypeOK
  BY StillClean DEF GInv
<1>2. PICK U \in Seq(GroupPacket) : U = UnderWay
  BY <1>1, UnderWayTyped
<1>3. PICK n \in Nat : n = messages
  BY <1>1, BoundAssumption DEF TypeOK
<1>4. Rising(U, n) /\ \A c \in Conn : InTurn(got[c], U, n)
  BY <1>1, <1>2, <1>3 DEF Ordered
<1>5. \A c \in Conn : got[c] \in Seq(Message)
  BY <1>1 DEF TypeOK
<1>6. CASE UNCHANGED <<UnderWay, messages, got>>
  BY <1>2, <1>3, <1>4, <1>6
<1>7. ASSUME NEW p \in GroupPacket, UnderWay' = Append(UnderWay, p), got' = got,
             \/ p.use # "message" /\ messages' = messages
             \/ p.use = "message" /\ p.message = messages + 1 /\ messages' = messages + 1
      PROVE  /\ Rising(UnderWay', messages')
             /\ \A c \in Conn : InTurn(got'[c], UnderWay', messages')
  <2>1. PICK m \in Nat : m = messages'
    BY <1>3, <1>7
  <2>2. /\ Rising(Append(U, p), m)
        /\ \A s \in Seq(Message) : InTurn(s, U, n) => InTurn(s, Append(U, p), m)
    <3>1. \/ p.use # "message" /\ m = n
          \/ p.use = "message" /\ p.message = n + 1 /\ m = n + 1
      BY <1>3, <1>7, <2>1
    <3> QED
      BY <1>4, <3>1, TurnAppend
  <2> QED
    BY <1>2, <1>4, <1>5, <1>7, <2>1, <2>2
<1>8. CASE UNCHANGED vars
  <2>1. UNCHANGED UnderWay
    BY <1>8 DEF vars, UnderWay, channels
  <2> QED
    BY <1>6, <1>8, <2>1 DEF vars, handled
<1>9. ASSUME NEW c \in Conn, Login(c) \/ Drop(c)
      PROVE  UNCHANGED <<UnderWay, messages, got>>
  BY <1>9, UnderWaySteps DEF Login, Drop, handled
<1>10. ASSUME NEW c \in Conn, Logout(c)
       PROVE  /\ Rising(UnderWay', messages')
              /\ \A d \in Conn : InTurn(got'[d], UnderWay', messages')
  <2>1. UNCHANGED <<messages, got>>
    BY <1>10 DEF Logout, handled
  <2>2. Leave(c) \in GroupPacket /\ Leave(c).use # "message"
    BY PacketsMade DEF Leave
  <2>3. UNCHANGED UnderWay \/ UnderWay' = Append(UnderWay, Leave(c))
    BY <1>10, UnderWaySteps
  <2> QED
    BY <1>6, <1>7, <2>1, <2>2, <2>3
<1>11. ASSUME NEW a \in Client, GroupIn(a)
       PROVE  /\ Rising(UnderWay', messages')
              /\ \A d \in Conn : InTurn(got'[d], UnderWay', messages')
  <2>1. UNCHANGED <<messages, got>>
    BY <1>11 DEF GroupIn
  <2>2. PICK c \in Conn : UnderWay' = Append(UnderWay, Join(c))
    BY <1>11, UnderWaySteps
  <2>3. Join(c) \in GroupPacket /\ Join(c).use # "message"
    BY PacketsMade DEF Join
  <2> QED
    BY <1>7, <2>1, <2>2, <2>3
<1>12. ASSUME NEW a \in Client, GroupOut(a)
       PROVE  /\ Rising(UnderWay', messages')
              /\ \A d \in Conn : InTurn(got'[d], UnderWay', messages')
  <2>1. UNCHANGED <<messages, got>>
    BY <1>12 DEF GroupOut
  <2>2. UNCHANGED UnderWay \/ \E c \in Conn : UnderWay' = Append(UnderWay, Leave(c))
    BY <1>12, UnderWaySteps
  <2>3. \A c \in Conn : Leave(c) \in GroupPacket /\ Leave(c).use # "message"
    BY PacketsMade DEF Leave
  <2> QED
    BY <1>6, <1>7, <2>1, <2>2, <2>3
<1>13. CASE SendToGroup
  <2>1. messages' = messages + 1 /\ got' = got
    BY <1>13 DEF SendToGroup
  <2>2. PICK p \in GroupPacket : p.use = "message" /\ p.message = messages + 1
                                 /\ p = Post(messages + 1)
    <3>1. PICK m \in Message : m = messages + 1
      BY <1>13, UnderWaySteps
    <3>2. Post(m) \in GroupPacket /\ Post(m).use = "message" /\ Post(m).message = m
      BY PacketsMade DEF Post
    <3> QED
      BY <3>1, <3>2
  <2>3. UNCHANGED UnderWay \/ UnderWay' = Append(UnderWay, p)
    BY <1>13, <2>2, UnderWaySteps
  <2>4. CASE UnderWay' = Append(UnderWay, p)
    BY <1>7, <2>1, <2>2, <2>4
  <2>5. CASE UNCHANGED UnderWay
    <3>1. Rising(U, n + 1) /\ \A d \in Conn : InTurn(got[d], U, n + 1)
      <4>1. \A i \in 1..Len(U) : U[i].use = "message" => U[i].message \in Nat
        BY ElementOfSeq, PacketParts DEF Message
      <4>2. \A d \in Conn : \A k \in 1..Len(got[d]) : got[d][k] \in Nat
        <5>1. \A d \in Conn : \A k \in 1..Len(got[d]) : got[d][k] \in Message
          BY <1>5, ElementOfSeq
        <5> QED
          BY <5>1 DEF Message
      <4>3. Rising(U, n + 1)
        BY <1>4, <4>1 DEF Rising
      <4>4. \A d \in Conn : InTurn(got[d], U, n + 1)
        BY <1>4, <4>2 DEF InTurn
      <4> QED
        BY <4>3, <4>4
    <3> QED
      BY <1>2, <1>3, <2>1, <2>5, <3>1
  <2> QED
    BY <2>3, <2>4, <2>5
<1>14. CASE HubSend \/ HubClean
  BY <1>6, <1>14, UnderWaySteps DEF HubSend, HubClean, handled
<1>15. ASSUME NEW g \in Gen, LoopExit(g)
       PROVE  UNCHANGED <<UnderWay, messages, got>>
  BY <1>15 DEF LoopExit, UnderWay, handled
<1>16. ASSUME NEW g \in Gen, LoopJoin(g) \/ LoopLeave(g) \/ LoopMessage(g)
       PROVE  /\ Rising(UnderWay', messages')
              /\ \A d \in Conn : InTurn(got'[d], UnderWay', messages')
  <2>1. U # <<>> /\ Head(U) = Head(packet[g]) /\ UnderWay' = Tail(U) /\ Head(U) \in GroupPacket
    BY <1>1, <1>2, <1>16, LoopTakes
  <2>2. /\ Rising(Tail(U), n)
        /\ \A s \in Seq(Message) : InTurn(s, U, n) => InTurn(s, Tail(U), n)
        /\ Head(U).use = "message" =>
             \A s \in Seq(Message) :
               InTurn(s, U, n) => InTurn(s \o <<Head(U).message>>, Tail(U), n)
    BY <1>4, <2>1, TurnTail
  <2>3. messages' = n
    BY <1>3, <1>16 DEF LoopJoin, LoopLeave, LoopMessage, handled
  <2>4. CASE UNCHANGED got
    BY <1>4, <1>5, <2>1, <2>2, <2>3, <2>4
  <2>5. CASE LoopMessage(g)
    <3>1. Head(U).use = "message"
      BY <2>1, <2>5 DEF LoopMessage
    <3>2. \E cs \in SUBSET Members(g) : PushTo(cs, Head(U).message)
      BY <2>1, <2>5 DEF LoopMessage
    <3>3. PICK cs \in SUBSET Members(g) : PushTo(cs, Head(U).message)
      BY <3>2
    <3>4. ASSUME NEW d \in Conn
          PROVE  InTurn(got'[d], Tail(U), n)
      <4>1. InTurn(got[d], U, n) /\ got[d] \in Seq(Message)
        BY <1>4, <1>5
      <4>2. got'[d] = got[d] \o <<Head(U).message>> \/ got'[d] = got[d]
        BY <3>3 DEF PushTo, Pushed
      <4> QED
        BY <2>2, <3>1, <4>1, <4>2
    <3> QED
      BY <2>1, <2>2, <2>3, <3>4
  <2> QED
    BY <1>16, <2>4, <2>5 DEF LoopJoin, LoopLeave
<1> QED
  BY <1>6, <1>8, <1>9, <1>10, <1>11, <1>12, <1>13, <1>14, <1>15, <1>16 DEF Next, Loop

(* A member gets the messages in the order in which the hub handled them,   *)
(* none twice, while no group was cleaned (loop of group.go pushes what     *)
(* handleRelayPacket of hub.go sent to the channel).                        *)
THEOREM GroupInOrder == Spec => []InOrder
<1>1. Init => Ordered
  BY InitOrdered
<1>2. GInv /\ Ordered /\ [Next]_vars => Ordered'
  BY NextOrdered
<1>3. GInv /\ Ordered => InOrder
  <2> SUFFICES ASSUME GInv, Ordered, NothingCleaned, NEW c \in Conn,
                      NEW i \in DOMAIN got[c], NEW j \in DOMAIN got[c], i < j
               PROVE  got[c][i] < got[c][j]
    BY DEF InOrder
  <2>1. got[c] \in Seq(Message)
    BY DEF GInv, TypeOK
  <2>2. DOMAIN got[c] = 1..Len(got[c])
    BY <2>1, LenProperties
  <2> QED
    BY <2>2 DEF Ordered, InTurn
<1> QED
  BY <1>1, <1>2, <1>3, AlwaysGInv, PTL DEF Spec

-----------------------------------------------------------------------------
(* Who is a member once p was the last to speak of its client.              *)
Said(p) == IF p.use = "join" THEN p.conn ELSE NoConn

(* The last packet of U that speaks of the client a is at i.                *)
LastSpeaker(U, a, i) ==
  /\ i \in 1..Len(U) /\ Speaks(U[i], a)
  /\ \A j \in (i + 1)..Len(U) : ~Speaks(U[j], a)

(* If a packet of U speaks of a then one of them is the last to do so. It   *)
(* is true of every sequence; kept as an invariant, it needs no induction   *)
(* on sequences.                                                            *)
Decided(U, a) ==
  (\E i \in 1..Len(U) : Speaks(U[i], a)) => \E i \in 1..Len(U) : LastSpeaker(U, a, i)

(* Who is the member for a when U was taken, if b was it before.            *)
Outcome(U, a, b) ==
  IF \E i \in 1..Len(U) : Speaks(U[i], a)
  THEN Said(U[CHOOSE i \in 1..Len(U) :
                Speaks(U[i], a) /\ \A j \in (i + 1)..Len(U) : ~Speaks(U[j], a)])
  ELSE b

(* Who is the member for a now, in the group's map.                         *)
Held(a) == IF current = 0 THEN NoConn ELSE members[current][a]

(* WillBe is the outcome of all that is under way.                          *)
LEMMA WillBeIsOutcome == \A a \in Client : WillBe(a) = Outcome(UnderWay, a, Held(a))
  BY DEF WillBe, Outcome, Held, Said, LastWord

(* The last to speak decides.                                               *)
LEMMA OutcomeOfLast ==
  ASSUME NEW U \in Seq(GroupPacket), NEW a \in Client, NEW b \in Conn \cup {NoConn},
         NEW i \in 1..Len(U), LastSpeaker(U, a, i)
  PROVE  Outcome(U, a, b) = Said(U[i])
<1>1. Len(U) \in Nat
  BY LenProperties
<1>2. ASSUME NEW k \in 1..Len(U), LastSpeaker(U, a, k)
      PROVE  k = i
  BY <1>1, <1>2 DEF LastSpeaker
<1> DEFINE k == CHOOSE j \in 1..Len(U) : LastSpeaker(U, a, j)
<1>3. k \in 1..Len(U) /\ LastSpeaker(U, a, k)
  OBVIOUS
<1> HIDE DEF k
<1>4. k = i
  BY <1>2, <1>3
<1>5. (CHOOSE j \in 1..Len(U) : LastSpeaker(U, a, j)) = i
  BY <1>4 DEF k
<1>6. (CHOOSE j \in 1..Len(U) :
        Speaks(U[j], a) /\ \A l \in (j + 1)..Len(U) : ~Speaks(U[l], a)) = i
  <2>1. \A j \in 1..Len(U) :
          LastSpeaker(U, a, j)
            <=> (Speaks(U[j], a) /\ \A l \in (j + 1)..Len(U) : ~Speaks(U[l], a))
    BY DEF LastSpeaker
  <2>2. (CHOOSE j \in 1..Len(U) : LastSpeaker(U, a, j))
          = CHOOSE j \in 1..Len(U) :
              Speaks(U[j], a) /\ \A l \in (j + 1)..Len(U) : ~Speaks(U[l], a)
    BY <2>1
  <2> QED
    BY <1>5, <2>2
<1> QED
  BY <1>6 DEF Outcome, LastSpeaker

(* A packet at the end decides for its client and for no other.             *)
LEMMA OutcomeAppend ==
  ASSUME NEW U \in Seq(GroupPacket), NEW p \in GroupPacket, NEW a \in Client,
         NEW b \in Conn \cup {NoConn}, Decided(U, a)
  PROVE  /\ Decided(Append(U, p), a)
         /\ Outcome(Append(U, p), a, b) = IF Speaks(p, a) THEN Said(p) ELSE Outcome(U, a, b)
<1> DEFINE V == Append(U, p)
<1>1. /\ V \in Seq(GroupPacket) /\ Len(V) = Len(U) + 1 /\ Len(U) \in Nat
      /\ \A i \in 1..Len(U) : V[i] = U[i]
      /\ V[Len(U) + 1] = p
  BY AppendProperties, LenProperties
<1> HIDE DEF V
<1>2. CASE Speaks(p, a)
  <2>1. Len(V) \in 1..Len(V) /\ V[Len(V)] = p /\ LastSpeaker(V, a, Len(V))
    BY <1>1, <1>2 DEF LastSpeaker
  <2>2. Outcome(V, a, b) = Said(p)
    BY <1>1, <2>1, OutcomeOfLast
  <2> QED
    BY <1>2, <2>1, <2>2 DEF Decided, V
<1>3. CASE ~Speaks(p, a)
  <2>1. CASE \E i \in 1..Len(U) : Speaks(U[i], a)
    <3>1. PICK i \in 1..Len(U) : LastSpeaker(U, a, i)
      BY <2>1 DEF Decided
    <3>2. i \in 1..Len(V) /\ V[i] = U[i]
      BY <1>1
    <3>3. ASSUME NEW j \in (i + 1)..Len(V)
          PROVE  ~Speaks(V[j], a)
      <4>1. CASE j = Len(U) + 1
        BY <1>1, <1>3, <4>1
      <4>2. CASE j # Len(U) + 1
        <5>1. j \in (i + 1)..Len(U) /\ j \in 1..Len(U)
          BY <1>1, <4>2
        <5> QED
          BY <1>1, <3>1, <5>1 DEF LastSpeaker
      <4> QED
        BY <4>1, <4>2
    <3>4. LastSpeaker(V, a, i)
      BY <3>1, <3>2, <3>3 DEF LastSpeaker
    <3>5. Outcome(V, a, b) = Said(U[i]) /\ Outcome(U, a, b) = Said(U[i])
      BY <1>1, <3>1, <3>2, <3>4, OutcomeOfLast
    <3> QED
      BY <1>3, <3>2, <3>4, <3>5 DEF Decided, V
  <2>2. CASE ~\E i \in 1..Len(U) : Speaks(U[i], a)
    <3>1. ~\E i \in 1..Len(V) : Speaks(V[i], a)
      <4> SUFFICES ASSUME NEW i \in 1..Len(V)
                   PROVE  ~Speaks(V[i], a)
        OBVIOUS
      <4>1. i \in 1..Len(U) \/ i = Len(U) + 1
        BY <1>1
      <4> QED
        BY <1>1, <1>3, <2>2, <4>1
    <3>2. Outcome(V, a, b) = b /\ Outcome(U, a, b) = b
      BY <2>2, <3>1 DEF Outcome
    <3>3. Decided(V, a)
      BY <3>1 DEF Decided
    <3> QED
      BY <1>3, <3>2, <3>3 DEF V
  <2> QED
    BY <2>1, <2>2
<1> QED
  BY <1>2, <1>3

(* Taking the first packet into the map changes no outcome.                 *)
LEMMA OutcomeTail ==
  ASSUME NEW U \in Seq(GroupPacket), U # <<>>, NEW a \in Client,
         NEW b \in Conn \cup {NoConn}, NEW d \in Conn \cup {NoConn}, Decided(U, a),
         d = IF Speaks(Head(U), a) THEN Said(Head(U)) ELSE b
  PROVE  Decided(Tail(U), a) /\ Outcome(Tail(U), a, d) = Outcome(U, a, b)
<1> DEFINE V == Tail(U)
<1>1. /\ V \in Seq(GroupPacket) /\ Len(V) = Len(U) - 1 /\ Len(U) \in Nat \ {0}
      /\ \A i \in 1..Len(V) : V[i] = U[i + 1]
  BY HeadTailProperties, EmptySeq
<1>2. Head(U) = U[1]
  BY <1>1
<1> HIDE DEF V
<1>3. \A j \in 1..Len(V) : j + 1 \in 1..Len(U) /\ V[j] = U[j + 1]
  BY <1>1
<1>4. \A i \in 1..Len(U) : i # 1 => i - 1 \in 1..Len(V) /\ V[i - 1] = U[i]
  <2> SUFFICES ASSUME NEW i \in 1..Len(U), i # 1
               PROVE  i - 1 \in 1..Len(V) /\ V[i - 1] = U[i]
    OBVIOUS
  <2>1. i - 1 \in 1..Len(V) /\ (i - 1) + 1 = i
    BY <1>1
  <2> QED
    BY <1>1, <2>1
<1>5. CASE \E i \in 1..Len(U) : Speaks(U[i], a)
  <2>1. PICK i \in 1..Len(U) : LastSpeaker(U, a, i)
    BY <1>5 DEF Decided
  <2>2. Outcome(U, a, b) = Said(U[i])
    BY <2>1, OutcomeOfLast
  <2>3. CASE i # 1
    <3>1. i - 1 \in 1..Len(V) /\ V[i - 1] = U[i]
      BY <1>4, <2>3
    <3>2. ASSUME NEW j \in ((i - 1) + 1)..Len(V)
          PROVE  ~Speaks(V[j], a)
      <4>1. j \in 1..Len(V) /\ j + 1 \in (i + 1)..Len(U)
        BY <1>1
      <4> QED
        BY <1>3, <2>1, <4>1 DEF LastSpeaker
    <3>3. LastSpeaker(V, a, i - 1)
      BY <2>1, <3>1, <3>2 DEF LastSpeaker
    <3>4. Outcome(V, a, d) = Said(V[i - 1])
      BY <1>1, <3>1, <3>3, OutcomeOfLast
    <3> QED
      BY <2>2, <3>1, <3>3, <3>4 DEF Decided, V
  <2>4. CASE i = 1
    <3>1. ~\E j \in 1..Len(V) : Speaks(V[j], a)
      <4> SUFFICES ASSUME NEW j \in 1..Len(V)
                   PROVE  ~Speaks(V[j], a)
        OBVIOUS
      <4>1. j + 1 \in (i + 1)..Len(U)
        BY <1>1, <2>4
      <4> QED
        BY <1>3, <2>1, <4>1 DEF LastSpeaker
    <3>2. Outcome(V, a, d) = d /\ Decided(V, a)
      BY <3>1 DEF Outcome, Decided
    <3>3. d = Said(U[i])
      BY <1>2, <2>1, <2>4 DEF LastSpeaker
    <3> QED
      BY <2>2, <3>2, <3>3 DEF V
  <2> QED
    BY <2>3, <2>4
<1>6. CASE ~\E i \in 1..Len(U) : Speaks(U[i], a)
  <2>1. ~\E j \in 1..Len(V) : Speaks(V[j], a)
    BY <1>3, <1>6
  <2>2. ~Speaks(Head(U), a)
    BY <1>1, <1>2, <1>6
  <2>3. Outcome(V, a, d) = d /\ Outcome(U, a, b) = b /\ d = b /\ Decided(V, a)
    BY <1>6, <2>1, <2>2 DEF Outcome, Decided
  <2> QED
    BY <2>3 DEF V
<1> QED
  BY <1>5, <1>6

(* RecordsAgree, strengthened: a connection that has not logged in is in    *)
(* neither record.                                                          *)
Recorded ==
  NothingCleaned =>
    /\ \A a \in Client : /\ Decided(UnderWay, a)
                         /\ clientPeers[a] # NoConn
                              => (inGroup[clientPeers[a]] <=> WillBe(a) = clientPeers[a])
    /\ \A c \in Conn : conn[c] = "new" => ~inGroup[c] /\ \A a \in Client : WillBe(a) # c

(* The map holds connections.                                               *)
LEMMA HeldTyped ==
  ASSUME TypeOK
  PROVE  \A a \in Client : Held(a) \in Conn \cup {NoConn}
  BY BoundAssumption DEF TypeOK, Held, Gen

(* A packet that is sent decides who will be the member for its client.     *)
LEMMA SendingDecides ==
  ASSUME TypeOK, NEW a \in Client, Decided(UnderWay, a), Held(a)' = Held(a),
         NEW p \in GroupPacket, UnderWay' = Append(UnderWay, p)
  PROVE  /\ Decided(UnderWay', a)
         /\ WillBe(a)' = IF Speaks(p, a) THEN Said(p) ELSE WillBe(a)
<1>1. PICK U \in Seq(GroupPacket) : U = UnderWay
  BY UnderWayTyped
<1>2. PICK b \in Conn \cup {NoConn} : b = Held(a)
  BY HeldTyped
<1>3. /\ Decided(Append(U, p), a)
      /\ Outcome(Append(U, p), a, b) = IF Speaks(p, a) THEN Said(p) ELSE Outcome(U, a, b)
  BY <1>1, OutcomeAppend
<1>4. WillBe(a) = Outcome(U, a, b)
  BY <1>1, <1>2, WillBeIsOutcome
<1>5. WillBe(a)' = Outcome(UnderWay', a, Held(a)')
  BY DEF WillBe, Outcome, Held, Said, LastWord
<1> QED
  BY <1>1, <1>2, <1>3, <1>4, <1>5

(* A step of the goroutine changes nobody's outcome.                        *)
LEMMA TakingDecides ==
  ASSUME GInv, NothingCleaned, NEW a \in Client, Decided(UnderWay, a),
         NEW g \in Gen, LoopJoin(g) \/ LoopLeave(g) \/ LoopMessage(g)
  PROVE  Decided(UnderWay', a) /\ WillBe(a)' = WillBe(a)
<1> USE AddrAssumption
<1>0. TypeOK
  BY DEF GInv
<1>1. PICK U \in Seq(GroupPacket) : U = UnderWay
  BY <1>0, UnderWayTyped
<1>2. PICK b \in Conn \cup {NoConn} : b = Held(a)
  BY <1>0, HeldTyped
<1>3. /\ g = current /\ U # <<>> /\ Head(U) = Head(packet[g]) /\ Head(U) \in GroupPacket
      /\ UnderWay' = Tail(U)
  BY <1>1, LoopTakes
<1>4. current # 0 /\ current' = current /\ b = members[g][a]
  BY <1>2, <1>3, BoundAssumption DEF LoopJoin, LoopLeave, LoopMessage, Held, Gen
<1>5. Held(a)' = IF Speaks(Head(U), a) THEN Said(Head(U)) ELSE b
  <2>1. Held(a)' = members'[g][a]
    BY <1>3, <1>4 DEF Held
  <2>2. CASE LoopJoin(g)
    <3>1. Head(U).use = "join" /\ Head(U).conn \in Conn
      BY <1>3, <2>2, PacketParts DEF LoopJoin
    <3>2. members'[g] = [members[g] EXCEPT ![AddrOf[Head(U).conn]] = Head(U).conn]
      BY <1>0, <1>3, <2>2 DEF LoopJoin, TypeOK
    <3>3. members[g] \in [Client -> Conn \cup {NoConn}]
      BY <1>0 DEF TypeOK
    <3> QED
      BY <1>4, <2>1, <3>1, <3>2, <3>3 DEF Speaks, Said
  <2>3. CASE LoopLeave(g)
    <3>1. Head(U).use = "leave" /\ Head(U).conn \in Conn
      BY <1>3, <2>3, PacketParts DEF LoopLeave
    <3>2. members'[g] = [members[g] EXCEPT ![AddrOf[Head(U).conn]] = NoConn]
      BY <1>0, <1>3, <2>3 DEF LoopLeave, TypeOK
    <3>3. members[g] \in [Client -> Conn \cup {NoConn}]
      BY <1>0 DEF TypeOK
    <3> QED
      BY <1>4, <2>1, <3>1, <3>2, <3>3 DEF Speaks, Said
  <2>4. CASE LoopMessage(g)
    <3>1. Head(U).use = "message" /\ members' = members
      BY <1>3, <2>4 DEF LoopMessage
    <3> QED
      BY <1>4, <2>1, <3>1 DEF Speaks
  <2> QED
    BY <2>2, <2>3, <2>4
<1>6. PICK d \in Conn \cup {NoConn} : d = Held(a)'
  <2>1. (Head(U).use = "join" => Head(U).conn \in Conn)
    BY <1>3, PacketParts
  <2>2. Said(Head(U)) \in Conn \cup {NoConn}
    BY <2>1 DEF Said
  <2> QED
    BY <1>5, <2>2
<1>7. Decided(Tail(U), a) /\ Outcome(Tail(U), a, d) = Outcome(U, a, b)
  BY <1>1, <1>3, <1>5, <1>6, OutcomeTail
<1>8. WillBe(a) = Outcome(U, a, b)
  BY <1>1, <1>2, WillBeIsOutcome
<1>9. WillBe(a)' = Outcome(UnderWay', a, Held(a)')
  BY DEF WillBe, Outcome, Held, Said, LastWord
<1> QED
  BY <1>3, <1>6, <1>7, <1>8, <1>9

(* Nobody is in either record at first.                                     *)
LEMMA InitRecorded == Init => Recorded
<1> SUFFICES ASSUME Init PROVE Recorded
  OBVIOUS
<1>1. UnderWay = <<>> /\ \A a \in Client : WillBe(a) = NoConn
  BY DEF Init, UnderWay, WillBe
<1>2. NoConn \notin Conn
  BY AddrAssumption
<1> QED
  BY <1>1, <1>2 DEF Init, NoMembers, Recorded, Decided

(* Every step keeps that the records agree.                                 *)
LEMMA NextRecorded ==
  ASSUME GInv, Recorded, [Next]_vars
  PROVE  Recorded'
<1> USE AddrAssumption
<1> DEFINE Agrees(a) == /\ Decided(UnderWay', a)
                        /\ clientPeers'[a] # NoConn
                             => (inGroup'[clientPeers'[a]] <=> WillBe(a)' = clientPeers'[a])
           Unseen(c) == conn'[c] = "new" => ~inGroup'[c] /\ \A a \in Client : WillBe(a)' # c
           Goal == (\A a \in Client : Agrees(a)) /\ (\A c \in Conn : Unseen(c))
<1> SUFFICES ASSUME NothingCleaned'
             PROVE  Goal
  BY DEF Recorded
<1>1. NothingCleaned /\ TypeOK
  BY StillClean DEF GInv
<1>2. \A a \in Client :
        /\ Decided(UnderWay, a)
        /\ clientPeers[a] # NoConn
             => (inGroup[clientPeers[a]] <=> WillBe(a) = clientPeers[a])
  BY <1>1 DEF Recorded
<1>3. \A c \in Conn : conn[c] = "new" => ~inGroup[c] /\ \A a \in Client : WillBe(a) # c
  BY <1>1 DEF Recorded
<1>4. \A a \in Client : /\ clientPeers[a] \in Conn \cup {NoConn}
                        /\ clientPeers[a] # NoConn => /\ AddrOf[clientPeers[a]] = a
                                                      /\ conn[clientPeers[a]] # "new"
  BY <1>1 DEF TypeOK, GInv, Registered
<1>5. ASSUME UNCHANGED <<conn, clientPeers, inGroup>>,
             \A a \in Client : Decided(UnderWay', a) /\ WillBe(a)' = WillBe(a)
      PROVE  Goal
  BY <1>2, <1>3, <1>5
<1>6. ASSUME UNCHANGED <<UnderWay, current, members>>
      PROVE  \A a \in Client : Decided(UnderWay', a) /\ WillBe(a)' = WillBe(a)
  <2>1. \A a \in Client : WillBe(a)' = WillBe(a)
    BY <1>6 DEF WillBe, LastWord
  <2> QED
    BY <1>2, <1>6, <2>1
<1>7. CASE UNCHANGED vars
  <2>1. UNCHANGED <<UnderWay, current, members, conn, clientPeers, inGroup>>
    BY <1>7 DEF vars, UnderWay, channels, looping, peers
  <2> QED
    BY <1>5, <1>6, <2>1
<1>8. ASSUME NEW c \in Conn, Login(c)
      PROVE  Goal
  <2>1. UNCHANGED <<UnderWay, current, members, inGroup>> /\ conn[c] = "new"
        /\ clientPeers' = [clientPeers EXCEPT ![AddrOf[c]] = c]
        /\ conn' = [conn EXCEPT ![c] = "up"]
    BY <1>8, UnderWaySteps DEF Login, looping
  <2>2. \A a \in Client : Decided(UnderWay', a) /\ WillBe(a)' = WillBe(a)
    BY <1>6, <2>1
  <2>3. ASSUME NEW a \in Client
        PROVE  Agrees(a)
    <3>1. CASE a = AddrOf[c]
      <4>1. clientPeers'[a] = c
        BY <1>1, <2>1, <3>1 DEF TypeOK
      <4>2. ~inGroup'[c] /\ WillBe(a)' # c
        BY <1>3, <2>1, <2>2
      <4> QED
        BY <2>2, <4>1, <4>2
    <3>2. CASE a # AddrOf[c]
      <4>1. clientPeers'[a] = clientPeers[a]
        BY <1>1, <2>1, <3>2 DEF TypeOK
      <4> QED
        BY <1>2, <2>1, <2>2, <4>1
    <3> QED
      BY <3>1, <3>2
  <2>4. ASSUME NEW d \in Conn
        PROVE  Unseen(d)
    <3>1. conn'[d] = "new" => conn[d] = "new"
      BY <1>1, <2>1 DEF TypeOK
    <3> QED
      BY <1>3, <2>1, <2>2, <3>1
  <2> QED
    BY <2>3, <2>4
<1>9. ASSUME NEW c \in Conn, Drop(c)
      PROVE  Goal
  <2>1. UNCHANGED <<UnderWay, current, members, inGroup, clientPeers>>
        /\ conn' = [conn EXCEPT ![c] = "down"]
    BY <1>9, UnderWaySteps DEF Drop, looping
  <2>2. \A a \in Client : Decided(UnderWay', a) /\ WillBe(a)' = WillBe(a)
    BY <1>6, <2>1
  <2>3. \A d \in Conn : conn'[d] = "new" => conn[d] = "new"
    BY <1>1, <2>1 DEF TypeOK
  <2> QED
    BY <1>2, <1>3, <2>1, <2>2, <2>3
<1>10. ASSUME NEW c \in Conn, Logout(c)
       PROVE  Goal
  <2>1. UNCHANGED <<current, members, inGroup>> /\ conn' = [conn EXCEPT ![c] = "gone"]
        /\ clientPeers' = IF clientPeers[AddrOf[c]] = c
                          THEN [clientPeers EXCEPT ![AddrOf[c]] = NoConn] ELSE clientPeers
    BY <1>10 DEF Logout, looping
  <2>2. \A d \in Conn : conn'[d] = "new" => conn[d] = "new"
    BY <1>1, <2>1 DEF TypeOK
  <2>3. CASE UNCHANGED UnderWay
    <3>1. \A a \in Client : Decided(UnderWay', a) /\ WillBe(a)' = WillBe(a)
      BY <1>6, <2>1, <2>3
    <3>2. \A a \in Client : clientPeers'[a] # NoConn => clientPeers'[a] = clientPeers[a]
      BY <1>1, <2>1 DEF TypeOK
    <3>3. \A a \in Client : Agrees(a)
      BY <1>2, <2>1, <3>1, <3>2
    <3>4. \A d \in Conn : Unseen(d)
      BY <1>3, <2>1, <2>2, <3>1
    <3> QED
      BY <3>3, <3>4
  <2>4. CASE LeavesGroups(c) /\ UnderWay' = Append(UnderWay, Leave(c))
    <3>1. Leave(c) \in GroupPacket /\ Said(Leave(c)) = NoConn
          /\ \A a \in Client : Speaks(Leave(c), a) <=> a = AddrOf[c]
      BY PacketsMade DEF Leave, Said, Speaks
    <3>2. ASSUME NEW a \in Client
          PROVE  /\ Decided(UnderWay', a)
                 /\ WillBe(a)' = IF a = AddrOf[c] THEN NoConn ELSE WillBe(a)
      <4>1. Held(a)' = Held(a)
        BY <2>1 DEF Held
      <4> QED
        BY <1>1, <1>2, <2>4, <3>1, <4>1, SendingDecides
    <3>3. \A a \in Client : clientPeers'[a] =
                              IF a = AddrOf[c] THEN NoConn ELSE clientPeers[a]
      BY <1>1, <2>1, <2>4 DEF LeavesGroups, TypeOK
    <3>4. \A a \in Client : Agrees(a)
      BY <1>2, <2>1, <3>2, <3>3
    <3>5. \A d \in Conn : Unseen(d)
      BY <1>3, <2>1, <2>2, <3>2
    <3> QED
      BY <3>4, <3>5
  <2> QED
    BY <1>10, <2>3, <2>4, UnderWaySteps
<1>11. ASSUME NEW b \in Client, GroupIn(b)
       PROVE  Goal
  <2>1. /\ clientPeers[b] \in Conn
        /\ UnderWay' = Append(UnderWay, Join(clientPeers[b]))
    BY <1>11, UnderWaySteps
  <2>2. PICK c \in Conn : c = clientPeers[b]
    BY <2>1
  <2>3. AddrOf[c] = b /\ conn[c] # "new" /\ c # NoConn
    BY <1>4, <2>2
  <2>4. UNCHANGED <<conn, clientPeers, members>> /\ inGroup' = [inGroup EXCEPT ![c] = TRUE]
    BY <1>11, <2>2 DEF GroupIn
  <2>5. Join(c) \in GroupPacket /\ Said(Join(c)) = c
        /\ \A a \in Client : Speaks(Join(c), a) <=> a = b
    BY <2>3, PacketsMade DEF Join, Said, Speaks
  <2>6. ASSUME NEW a \in Client
        PROVE  Held(a)' = Held(a)
    <3> DEFINE Fresh(g) == loop[g] = "new" /\ \A k \in 1..(g - 1) : loop[k] # "new"
               next == CHOOSE g \in Gen : Fresh(g)
    <3>1. (\E g \in Gen : Fresh(g)) => next \in Gen /\ loop[next] = "new"
      OBVIOUS
    <3>2. \/ current' = current
          \/ current = 0 /\ current' = next /\ next \in Gen /\ loop[next] = "new"
      BY <1>11, <3>1 DEF GroupIn
    <3> HIDE DEF next
    <3>3. CASE current' = current
      BY <2>4, <3>3 DEF Held
    <3>4. CASE current = 0 /\ current' = next /\ next \in Gen /\ loop[next] = "new"
      <4>1. members[next] = NoMembers
        BY <3>4 DEF GInv, Quiet
      <4>2. Held(a) = NoConn
        BY <3>4 DEF Held
      <4>3. Held(a)' = NoConn
        BY <2>4, <3>4, <4>1 DEF Held, NoMembers
      <4> QED
        BY <4>2, <4>3
    <3> QED
      BY <3>2, <3>3, <3>4
  <2>7. ASSUME NEW a \in Client
        PROVE  /\ Decided(UnderWay', a)
               /\ WillBe(a)' = IF a = b THEN c ELSE WillBe(a)
    BY <1>1, <1>2, <2>1, <2>2, <2>5, <2>6, SendingDecides
  <2>8. ASSUME NEW a \in Client
        PROVE  Agrees(a)
    <3>1. CASE a = b
      <4>1. inGroup'[c]
        BY <1>1, <2>4 DEF TypeOK
      <4> QED
        BY <2>2, <2>4, <2>7, <3>1, <4>1
    <3>2. CASE a # b
      <4>1. clientPeers[a] # NoConn
              => clientPeers[a] # c /\ inGroup'[clientPeers[a]] = inGroup[clientPeers[a]]
        BY <1>1, <1>4, <2>3, <2>4, <3>2 DEF TypeOK
      <4> QED
        BY <1>2, <2>4, <2>7, <3>2, <4>1
    <3> QED
      BY <3>1, <3>2
  <2>9. ASSUME NEW d \in Conn
        PROVE  Unseen(d)
    <3>1. conn'[d] = "new" => conn[d] = "new" /\ d # c /\ inGroup'[d] = inGroup[d]
      BY <1>1, <2>3, <2>4 DEF TypeOK
    <3> QED
      BY <1>3, <2>7, <3>1
  <2> QED
    BY <2>8, <2>9
<1>12. ASSUME NEW b \in Client, GroupOut(b)
       PROVE  Goal
  <2>1. PICK c \in Conn : c = clientPeers[b]
    BY <1>12, UnderWaySteps
  <2>2. AddrOf[c] = b /\ conn[c] # "new" /\ c # NoConn
    BY <1>4, <2>1
  <2>3. UNCHANGED <<conn, clientPeers, members, current>>
        /\ inGroup' = [inGroup EXCEPT ![c] = FALSE]
    BY <1>12, <2>1 DEF GroupOut, looping
  <2>4. Leave(c) \in GroupPacket /\ Said(Leave(c)) = NoConn
        /\ \A a \in Client : Speaks(Leave(c), a) <=> a = b
    BY <2>2, PacketsMade DEF Leave, Said, Speaks
  <2>5. ASSUME NEW a \in Client
        PROVE  /\ Decided(UnderWay', a)
               /\ WillBe(a)' = IF a = b THEN NoConn ELSE WillBe(a)
    <3>1. CASE UnderWay' = Append(UnderWay, Leave(c))
      <4>1. Held(a)' = Held(a)
        BY <2>3 DEF Held
      <4> QED
        BY <1>1, <1>2, <2>4, <3>1, <4>1, SendingDecides
    <3>2. CASE current = 0 /\ UnderWay = <<>> /\ UNCHANGED UnderWay
      <4>1. Decided(UnderWay', a) /\ WillBe(a)' = WillBe(a)
        BY <1>6, <2>3, <3>2
      <4>2. WillBe(a) = NoConn
        BY <3>2 DEF WillBe
      <4> QED
        BY <4>1, <4>2
    <3> QED
      BY <1>12, <2>1, <3>1, <3>2, UnderWaySteps
  <2>6. ASSUME NEW a \in Client
        PROVE  Agrees(a)
    <3>1. CASE a = b
      <4>1. ~inGroup'[c]
        BY <1>1, <2>3 DEF TypeOK
      <4> QED
        BY <2>1, <2>2, <2>3, <2>5, <3>1, <4>1
    <3>2. CASE a # b
      <4>1. clientPeers[a] # NoConn
              => clientPeers[a] # c /\ inGroup'[clientPeers[a]] = inGroup[clientPeers[a]]
        BY <1>1, <1>4, <2>2, <2>3, <3>2 DEF TypeOK
      <4> QED
        BY <1>2, <2>3, <2>5, <3>2, <4>1
    <3> QED
      BY <3>1, <3>2
  <2>7. ASSUME NEW d \in Conn
        PROVE  Unseen(d)
    <3>1. conn'[d] = "new" => conn[d] = "new" /\ inGroup'[d] = inGroup[d]
      BY <1>1, <2>2, <2>3 DEF TypeOK
    <3> QED
      BY <1>3, <2>5, <3>1
  <2> QED
    BY <2>6, <2>7
<1>13. CASE SendToGroup
  <2>1. UNCHANGED <<conn, clientPeers, inGroup, members, current>>
    BY <1>13 DEF SendToGroup, peers, looping
  <2>2. CASE UNCHANGED UnderWay
    BY <1>5, <1>6, <2>1, <2>2
  <2>3. CASE UnderWay' = Append(UnderWay, Post(messages + 1))
    <3>1. PICK m \in Message : m = messages + 1
      BY <1>13, UnderWaySteps
    <3>2. Post(m) \in GroupPacket /\ \A a \in Client : ~Speaks(Post(m), a)
      BY PacketsMade DEF Post, Speaks
    <3>3. ASSUME NEW a \in Client
          PROVE  Decided(UnderWay', a) /\ WillBe(a)' = WillBe(a)
      <4>1. Held(a)' = Held(a)
        BY <2>1 DEF Held
      <4> QED
        BY <1>1, <1>2, <2>3, <3>1, <3>2, <4>1, SendingDecides
    <3> QED
      BY <1>5, <2>1, <3>3
  <2> QED
    BY <1>13, <2>2, <2>3, UnderWaySteps
<1>14. CASE HubSend \/ HubClean
  <2>1. UNCHANGED <<conn, clientPeers, inGroup, members>>
    BY <1>14 DEF HubSend, HubClean, peers, looping
  <2>2. UNCHANGED <<UnderWay, current>>
    BY <1>14, UnderWaySteps DEF HubSend
  <2> QED
    BY <1>5, <1>6, <2>1, <2>2
<1>15. ASSUME NEW g \in Gen, LoopExit(g)
       PROVE  Goal
  <2>1. UNCHANGED <<conn, clientPeers, inGroup, members, current, UnderWay>>
    BY <1>15 DEF LoopExit, UnderWay, peers
  <2> QED
    BY <1>5, <1>6, <2>1
<1>16. ASSUME NEW g \in Gen, LoopJoin(g) \/ LoopLeave(g) \/ LoopMessage(g)
       PROVE  Goal
  <2>1. UNCHANGED <<conn, clientPeers, inGroup>>
    BY <1>16 DEF LoopJoin, LoopLeave, LoopMessage, peers
  <2>2. \A a \in Client : Decided(UnderWay', a) /\ WillBe(a)' = WillBe(a)
    BY <1>1, <1>2, <1>16, TakingDecides
  <2> QED
    BY <1>5, <2>1, <2>2
<1> HIDE DEF Goal
<1> QED
  BY <1>7, <1>8, <1>9, <1>10, <1>11, <1>12, <1>13, <1>14, <1>15, <1>16 DEF Next, Loop

(* For every registered connection the peer's set of groups and the members *)
(* the group will have, once it took all it was sent, agree, while no group *)
(* was cleaned: whatever logins, logouts and requests fall between the      *)
(* handler's send and the goroutine's step (hub.go: "leave groups",         *)
(* MsgTypeGroupInOut; loop of group.go).                                    *)
THEOREM GroupRecordsAgree == Spec => []RecordsAgree
<1>1. Init => Recorded
  BY InitRecorded
<1>2. GInv /\ Recorded /\ [Next]_vars => Recorded'
  BY NextRecorded
<1>3. Recorded => RecordsAgree
  BY DEF Recorded, RecordsAgree
<1> QED
  BY <1>1, <1>2, <1>3, AlwaysGInv, PTL DEF Spec
=============================================================================
