------------------------------- MODULE Group -------------------------------
(***************************************************************************)
(* hub/group.go and the hub's side of it: one group address.                *)
(*                                                                          *)
(*   hub's handler --packet (bounded)--> loop of the group --> connections  *)
(*                 --exit-->                                                *)
(*                                                                          *)
(* The handler keeps a group's goroutine in a map, tells it who joins and   *)
(* leaves and what to push, and reads its MemCount without waiting for it.  *)
(* A goroutine that was told to exit may be followed by another one for the *)
(* same address: generations.  The handler cleans only with more than 1000  *)
(* groups, which are not counted here: it may clean or not.  A push to a    *)
(* connection that has ended blocks the group's goroutine for good (Peer).  *)
(***************************************************************************)
EXTENDS Integers, Sequences

CONSTANTS Conn, Client, NoConn,
          AddrOf,      \* the client address of a connection
          BufferSize,  \* group-buffer-size
          MaxRequest,  \* bound: requests to join or leave
          MaxMessage,  \* bound: messages to the group
          MaxGen       \* bound: goroutines started for the address

ASSUME AddrAssumption == AddrOf \in [Conn -> Client] /\ NoConn \notin Conn
ASSUME BoundAssumption ==
  /\ BufferSize \in Nat \ {0}
  /\ MaxRequest \in Nat /\ MaxMessage \in Nat /\ MaxGen \in Nat

Gen == 1..MaxGen
Message == 1..MaxMessage

VARIABLES
  conn,         \* each connection: "new", "up", "down", "gone" (unregistered)
  clientPeers,  \* the connection registered for a client
  inGroup,      \* does the peer's set Groups have the group?
  current,      \* the group in the hub's map, 0 if there is none
  hub, outgoing,  \* the handler: idle, sending a packet, about to clean
  packet, exit,   \* the channels of each generation
  loop, members, memCount,  \* the goroutine of each generation
  requests, messages,       \* how many the hub has handled
  got                       \* messages pushed to each connection, in order

peers == <<conn, clientPeers, inGroup>>
channels == <<packet, exit>>
looping == <<loop, members, memCount>>
handled == <<requests, messages>>
vars == <<peers, current, hub, outgoing, channels, looping, handled, got>>

Join(c) == [use |-> "join", conn |-> c]
Leave(c) == [use |-> "leave", conn |-> c]
Post(m) == [use |-> "message", message |-> m]
GroupPacket == {Join(c) : c \in Conn} \cup {Leave(c) : c \in Conn}
                 \cup {Post(m) : m \in Message}

NoMembers == [a \in Client |-> NoConn]

Init ==
  /\ conn = [c \in Conn |-> "new"]
  /\ clientPeers = NoMembers /\ inGroup = [c \in Conn |-> FALSE]
  /\ current = 0 /\ hub = "idle" /\ outgoing = <<>>
  /\ packet = [g \in Gen |-> <<>>] /\ exit = [g \in Gen |-> FALSE]
  /\ loop = [g \in Gen |-> "new"]
  /\ members = [g \in Gen |-> NoMembers] /\ memCount = [g \in Gen |-> 0]
  /\ requests = 0 /\ messages = 0 /\ got = [c \in Conn |-> <<>>]

-----------------------------------------------------------------------------
(* A connection is registered, in the place of the one that was: the        *)
(* groups of that one are not left.                                         *)
Login(c) ==
  /\ hub = "idle" /\ conn[c] = "new"
  /\ conn' = [conn EXCEPT ![c] = "up"]
  /\ clientPeers' = [clientPeers EXCEPT ![AddrOf[c]] = c]
  /\ UNCHANGED <<inGroup, current, hub, outgoing, channels, looping, handled, got>>

Drop(c) ==
  /\ conn[c] = "up" /\ conn' = [conn EXCEPT ![c] = "down"]
  /\ UNCHANGED <<clientPeers, inGroup, current, hub, outgoing, channels, looping,
                 handled, got>>

Sending(p) == hub' = "send" /\ outgoing' = <<p>>

(* handleClientPeerUnregistPacket, "leave groups".                          *)
LeavesGroupsStale(c) == inGroup[c] /\ current # 0  \* slip: RemoteAddr is not compared
LeavesGroups(c) == clientPeers[AddrOf[c]] = c /\ inGroup[c] /\ current # 0

Logout(c) ==
  /\ hub = "idle" /\ conn[c] = "down"
  /\ conn' = [conn EXCEPT ![c] = "gone"]
  /\ clientPeers' = IF clientPeers[AddrOf[c]] = c
                    THEN [clientPeers EXCEPT ![AddrOf[c]] = NoConn] ELSE clientPeers
  /\ \/ LeavesGroups(c) /\ Sending(Leave(c))
     \/ ~LeavesGroups(c) /\ UNCHANGED <<hub, outgoing>>
  /\ UNCHANGED <<inGroup, current, channels, looping, handled, got>>

(* handleLogicPacket, MsgTypeGroupInOut: the peer is the one registered for *)
(* the sender.                                                              *)
Request(c) == /\ hub = "idle" /\ c # NoConn /\ requests < MaxRequest
              /\ requests' = requests + 1

GroupIn(a) ==
  LET c == clientPeers[a]
      started == \E g \in Gen : loop[g] = "new" /\ \A k \in 1..(g - 1) : loop[k] # "new"
      next == CHOOSE g \in Gen : loop[g] = "new" /\ \A k \in 1..(g - 1) : loop[k] # "new"
  IN /\ Request(c)
     /\ inGroup' = [inGroup EXCEPT ![c] = TRUE]
     /\ \/ current # 0 /\ UNCHANGED <<current, loop>>
        \/ /\ current = 0 /\ started
           /\ current' = next /\ loop' = [loop EXCEPT ![next] = "select"]
     /\ Sending(Join(c))
     /\ UNCHANGED <<conn, clientPeers, channels, members, memCount, messages, got>>

GroupOut(a) ==
  LET c == clientPeers[a]
  IN /\ Request(c)
     /\ inGroup' = [inGroup EXCEPT ![c] = FALSE]
     /\ IF current # 0 THEN hub' = "sendout" /\ outgoing' = <<Leave(c)>>
                       ELSE UNCHANGED <<hub, outgoing>>
     /\ UNCHANGED <<conn, clientPeers, current, channels, looping, messages, got>>

(* handleRelayPacket, a message to the group.                               *)
SendToGroup ==
  /\ hub = "idle" /\ messages < MaxMessage /\ messages' = messages + 1
  /\ IF current # 0 THEN Sending(Post(messages + 1)) ELSE UNCHANGED <<hub, outgoing>>
  /\ UNCHANGED <<peers, current, channels, looping, requests, got>>

(* The send on the group's channel, which waits for room.                   *)
HubSend ==
  /\ hub \in {"send", "sendout"} /\ Len(packet[current]) < BufferSize
  /\ packet' = [packet EXCEPT ![current] = @ \o outgoing]
  /\ outgoing' = <<>> /\ hub' = IF hub = "send" THEN "idle" ELSE "clean"
  /\ UNCHANGED <<peers, current, exit, looping, handled, got>>

(* After a leave: MemCount as it is now, whatever the channel still holds.  *)
CleanedKept == current  \* slip: the group stays in the map
Cleaned == 0

HubClean ==
  /\ hub = "clean" /\ hub' = "idle"
  /\ \/ /\ memCount[current] = 0
        /\ exit' = [exit EXCEPT ![current] = TRUE] /\ current' = Cleaned
     \/ UNCHANGED <<exit, current>>
  /\ UNCHANGED <<peers, outgoing, packet, looping, handled, got>>

-----------------------------------------------------------------------------
(* loop of generation g.                                                    *)
Members(g) == {members[g][a] : a \in Client} \ {NoConn}

Took(g) == loop[g] = "select" /\ packet[g] # <<>>
             /\ packet' = [packet EXCEPT ![g] = Tail(@)]

LoopJoin(g) ==
  /\ Took(g) /\ Head(packet[g]).use = "join"
  /\ LET c == Head(packet[g]).conn
     IN members' = [members EXCEPT ![g][AddrOf[c]] = c]
  /\ memCount' = [memCount EXCEPT ![g] = @ + 1]
  /\ UNCHANGED <<peers, current, hub, outgoing, exit, loop, handled, got>>

LoopLeave(g) ==
  /\ Took(g) /\ Head(packet[g]).use = "leave"
  /\ members' = [members EXCEPT ![g][AddrOf[Head(packet[g]).conn]] = NoConn]
  /\ memCount' = [memCount EXCEPT ![g] = @ - 1]
  /\ UNCHANGED <<peers, current, hub, outgoing, exit, loop, handled, got>>

(* The members are pushed to in the order of a Go map, which is none: those *)
(* ahead of a connection that has ended get the message.                    *)
Ended(c) == conn[c] \in {"down", "gone"}
PushedTwice(m) == <<m, m>>  \* slip: a message is pushed again
Pushed(m) == <<m>>
PushTo(cs, m) == got' = [c \in Conn |-> IF c \in cs THEN got[c] \o Pushed(m) ELSE got[c]]

LoopMessage(g) ==
  /\ Took(g) /\ Head(packet[g]).use = "message"
  /\ LET m == Head(packet[g]).message
         live == {c \in Members(g) : ~Ended(c)}
     IN \/ /\ live = Members(g)
           /\ PushTo(live, m) /\ UNCHANGED loop
        \/ /\ live # Members(g) /\ loop' = [loop EXCEPT ![g] = "hung"]
           /\ \E cs \in SUBSET live : PushTo(cs, m)
  /\ UNCHANGED <<peers, current, hub, outgoing, exit, members, memCount, handled>>

LoopExit(g) ==
  /\ loop[g] = "select" /\ exit[g]
  /\ exit' = [exit EXCEPT ![g] = FALSE] /\ loop' = [loop EXCEPT ![g] = "exited"]
  /\ UNCHANGED <<peers, current, hub, outgoing, packet, members, memCount, handled,
                 got>>

Loop(g) == LoopJoin(g) \/ LoopLeave(g) \/ LoopMessage(g) \/ LoopExit(g)
Next == \/ \E c \in Conn : Login(c) \/ Drop(c) \/ Logout(c)
        \/ \E a \in Client : GroupIn(a) \/ GroupOut(a)
        \/ SendToGroup \/ HubSend \/ HubClean
        \/ \E g \in Gen : Loop(g)

(* The handler finishes what it began and every group's goroutine goes on.  *)
Fairness == /\ WF_vars(HubSend) /\ WF_vars(HubClean)
            /\ \A g \in Gen : WF_vars(Loop(g))

Spec == Init /\ [][Next]_vars
FairSpec == Spec /\ Fairness

-----------------------------------------------------------------------------
(* Type invariant of the group's channels, goroutines and the hub's map.    *)
TypeOK ==
  /\ conn \in [Conn -> {"new", "up", "down", "gone"}]
  /\ clientPeers \in [Client -> Conn \cup {NoConn}] /\ inGroup \in [Conn -> BOOLEAN]
  /\ current \in 0..MaxGen /\ (current # 0 => loop[current] \in {"select", "hung"})
  /\ hub \in {"idle", "send", "sendout", "clean"}
  /\ hub # "idle" => current # 0
  /\ outgoing \in Seq(GroupPacket)
  /\ Len(outgoing) = IF hub \in {"send", "sendout"} THEN 1 ELSE 0
  /\ packet \in [Gen -> Seq(GroupPacket)]
  /\ \A g \in Gen : Len(packet[g]) <= BufferSize
  /\ exit \in [Gen -> BOOLEAN]
  /\ loop \in [Gen -> {"new", "select", "hung", "exited"}]
  /\ members \in [Gen -> [Client -> Conn \cup {NoConn}]] /\ memCount \in [Gen -> Int]
  /\ requests \in 0..MaxRequest /\ messages \in 0..MaxMessage
  /\ got \in [Conn -> Seq(Message)]

(* Who will be a member once the goroutine has taken all it was sent: the   *)
(* last join or leave under way decides, else the map.                      *)
UnderWay == IF current = 0 THEN outgoing ELSE packet[current] \o outgoing
Speaks(p, a) == p.use \in {"join", "leave"} /\ AddrOf[p.conn] = a
LastWord(a) == CHOOSE i \in 1..Len(UnderWay) :
                 Speaks(UnderWay[i], a)
                   /\ \A j \in (i + 1)..Len(UnderWay) : ~Speaks(UnderWay[j], a)
WillBe(a) ==
  IF \E i \in 1..Len(UnderWay) : Speaks(UnderWay[i], a)
  THEN IF UnderWay[LastWord(a)].use = "join" THEN UnderWay[LastWord(a)].conn ELSE NoConn
  ELSE IF current = 0 THEN NoConn ELSE members[current][a]

NothingCleaned == \A g \in Gen : ~exit[g] /\ loop[g] # "exited"

(* The two records of a membership, the peer's set and the group's map,     *)
(* agree for every registered connection, however requests, logins and      *)
(* logouts fall between the goroutine's steps (while nothing is cleaned).   *)
RecordsAgree ==
  NothingCleaned => \A a \in Client : clientPeers[a] # NoConn =>
                (inGroup[clientPeers[a]] <=> WillBe(a) = clientPeers[a])

(* A member gets the messages in the order of the hub, none twice.          *)
InOrder ==
  NothingCleaned => \A c \in Conn : \A i, j \in DOMAIN got[c] : i < j => got[c][i] < got[c][j]

(* The handler waits for nothing but a goroutine that is stuck in a push:   *)
(* it never sends to a group that was told to exit.                         *)
HubWaitsOnlyForHung ==
  (hub \in {"send", "sendout"})
    ~> (hub \notin {"send", "sendout"} \/ loop[current] = "hung")

-----------------------------------------------------------------------------
(* hub.go:345 "leave groups": a connection whose logout was handled is a    *)
(* member no longer, once the goroutine has taken what it was sent.         *)
GroupsLeft == \A a \in Client : WillBe(a) = NoConn \/ conn[WillBe(a)] # "gone"

(* hub.go:437: messages go to a group asynchronously, so the hub's handler  *)
(* does not wait for the group for ever.                                    *)
HubGoesOn == (hub = "send") ~> (hub # "send")

(* hub.go:482 "clean group": what is cleaned is a group without members.    *)
OnlyEmptyCleaned ==
  [][current # 0 /\ current' = 0 => \A a \in Client : WillBe(a) = NoConn]_vars
=============================================================================
