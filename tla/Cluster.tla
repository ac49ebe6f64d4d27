------------------------------ MODULE Cluster ------------------------------
(***************************************************************************)
(* hub/hub.go, clent_peer.go, server_peer.go: the handlers of several hubs  *)
(* that relay messages between their clients.                               *)
(*                                                                          *)
(* Each hub handles one packet at a time (HubQueue shows it), and packets   *)
(* arrive from goroutines of their own, one per message read, so calls[s]   *)
(* is the unordered set of what server s will still handle: what its        *)
(* clients and the other servers sent it, and what it sent itself.  All     *)
(* servers have started and are connected (see Membership for how); then    *)
(* links may break, and nobody dials again.  A push to a connection that    *)
(* has ended blocks the handler for good (see Peer): status "hung".  The    *)
(* program ends at a nil dereference: status "crashed".                     *)
(***************************************************************************)
EXTENDS Naturals, FiniteSets

CONSTANTS Server, Client, NoServer, NoConn,
          Everyone,  \* the broadcast address of the clients' domain
          Fragile,   \* links between two servers that the network may break
          Conn,    \* client connections, each used once
          AddrOf,  \* the client address a connection logs in with
          HomeOf,  \* the server it connects to
          Notify,  \* connections opened with notice=1
          Chat,    \* chat messages
          Via,     \* where each enters: a connection, or a server (HTTP)
          Source, Dest  \* their header

ASSUME ConnAssumption ==
  /\ AddrOf \in [Conn -> Client] /\ HomeOf \in [Conn -> Server]
  /\ NoConn \notin Conn /\ NoServer \notin Server /\ Notify \subseteq Conn
  /\ Fragile \subseteq {{s, t} : s \in Server, t \in Server}
ASSUME ChatAssumption ==
  /\ Via \in [Chat -> Conn \cup Server]
  /\ Source \in [Chat -> Client] /\ Dest \in [Chat -> Client \cup {Everyone}]
  /\ \A m \in Chat : Via[m] \in Conn => Source[m] = AddrOf[Via[m]]
ASSUME DisjointAssumption ==
  Server \cap Client = {} /\ Server \cap Conn = {} /\ Everyone \notin Client

VARIABLES
  conn,         \* each connection: "new", "up" or "down"
  status,       \* each server: "run", "hung" or "crashed"
  serverPeers,  \* per server, the servers it is connected to
  link,         \* per server, its end of each link: "up", "cut" or "ended"
  calls,        \* packets each server will still handle
  clientPeers,  \* per server, the connection registered for a client
  location,     \* per server, the server a remote client was seen at
  sessions,     \* per connection, the server of each client talked with
  got,          \* messages pushed to each connection
  again,        \* those pushed to the same connection twice
  sent,         \* chat messages that entered the cluster
  told          \* <<c, t>>: server t was sent the logout of c

links == <<serverPeers, link>>
vars == <<conn, status, links, calls, clientPeers, location, sessions, got,
          again, sent, told>>

Addr == Client \cup {Everyone}
Others(s) == Server \ {s}

ChatMsg(m) == [type |-> "chat", source |-> Source[m], dest |-> Dest[m], id |-> m]
KillMsg(c) == [type |-> "kill", source |-> AddrOf[c], dest |-> AddrOf[c], id |-> c]
LocMsg(target, peer, in) ==
  [type |-> "loc", target |-> target, peer |-> peer, in |-> in]
OfflineMsg(c, targets) ==
  [type |-> "offline", peer |-> AddrOf[c], targets |-> targets, id |-> c]
NoticeMsg(c) == [type |-> "notice", id |-> c]

Add(c) == [use |-> "add", conn |-> c]
Del(c) == [use |-> "del", conn |-> c]
DelServer(t) == [use |-> "delserver", server |-> t]
RelayOf(from, msg) == [use |-> "relay", from |-> from, msg |-> msg]

Init ==
  /\ conn = [c \in Conn |-> "new"] /\ status = [s \in Server |-> "run"]
  /\ calls = [s \in Server |-> {}]
  /\ serverPeers = [s \in Server |-> Others(s)]
  /\ link = [s \in Server |-> [t \in Others(s) |-> "up"]]
  /\ clientPeers = [s \in Server |-> [a \in Addr |-> NoConn]]
  /\ location = [s \in Server |-> [a \in Addr |-> NoServer]]
  /\ sessions = [c \in Conn |-> [a \in Addr |-> NoServer]]
  /\ got = [c \in Conn |-> {}] /\ again = {}
  /\ sent = {} /\ told = {}

-----------------------------------------------------------------------------
(* What the clients do.  The connection's goroutines start before the       *)
(* packet that registers it is sent, so a message or the end of the         *)
(* connection may be handled ahead of the registration.                     *)
Connect(c) ==
  /\ conn[c] = "new" /\ conn' = [conn EXCEPT ![c] = "up"]
  /\ calls' = [calls EXCEPT ![HomeOf[c]] = @ \cup {Add(c)}]
  /\ UNCHANGED <<status, links, clientPeers, location, sessions, got, again,
                 sent, told>>

Disconnect(c) ==
  /\ conn[c] = "up" /\ conn' = [conn EXCEPT ![c] = "down"]
  /\ calls' = [calls EXCEPT ![HomeOf[c]] = @ \cup {Del(c)}]
  /\ UNCHANGED <<status, links, clientPeers, location, sessions, got, again,
                 sent, told>>

(* A message of a client carries its address; one by POST /msg/send comes   *)
(* from the server's own address.                                           *)
Entry(m) == IF Via[m] \in Conn THEN HomeOf[Via[m]] ELSE Via[m]
Entering(m) == RelayOf(IF Via[m] \in Conn THEN Source[m] ELSE Via[m], ChatMsg(m))

Send(m) ==
  /\ m \notin sent /\ (Via[m] \in Conn => conn[Via[m]] = "up")
  /\ sent' = sent \cup {m}
  /\ calls' = [calls EXCEPT ![Entry(m)] = @ \cup {Entering(m)}]
  /\ UNCHANGED <<conn, status, links, clientPeers, location, sessions, got,
                 again, told>>

-----------------------------------------------------------------------------
(* What the network does.  When a link breaks, what is under way on it may  *)
(* be lost, and what is pushed later is lost; each end sees it in its time, *)
(* and tells its hub.                                                       *)
Break(s, t) ==
  /\ {s, t} \in Fragile /\ s # t /\ link[s][t] = "up"
  /\ link' = [link EXCEPT ![s][t] = "cut", ![t][s] = "cut"]
  /\ LET Under(from, to) == {p \in calls[to] : p.use = "relay" /\ p.from = from}
     IN \E lost \in SUBSET Under(s, t), back \in SUBSET Under(t, s) :
          calls' = [calls EXCEPT ![t] = @ \ lost, ![s] = @ \ back]
  /\ UNCHANGED <<conn, status, serverPeers, clientPeers, location, sessions, got,
                 again, sent, told>>

LinkEnds(s, t) ==
  /\ link[s][t] = "cut" /\ link' = [link EXCEPT ![s][t] = "ended"]
  /\ calls' = [calls EXCEPT ![s] = @ \cup {DelServer(t)}]
  /\ UNCHANGED <<conn, status, serverPeers, clientPeers, location, sessions, got,
                 again, sent, told>>

-----------------------------------------------------------------------------
(* Pushes of one message to connections, in any order (Go maps): a handler  *)
(* that meets one that has ended stays there.                               *)
Push(cs, msg) ==
  /\ got' = [c \in Conn |-> IF c \in cs THEN got[c] \cup {msg} ELSE got[c]]
  /\ again' = again \cup {<<c, msg>> : c \in {d \in cs : msg \in got[d]}}
Ended(cs) == {c \in cs : conn[c] = "down"}
EndedLinks(s, ts) == {t \in ts : link[s][t] = "ended"}
(* Those of a set that are pushed to, when "ended" are where it stays.      *)
Pushed(set, ended) == IF ended = {} THEN {set} ELSE SUBSET (set \ ended)
HangIf(s, ended) ==
  status' = IF ended = {} THEN status ELSE [status EXCEPT ![s] = "hung"]

(* The packet p of server s is done, and sends what "out" gives per server, *)
(* as far as links are up; what goes to s itself goes through its queue.    *)
Handled(s, p, out) ==
  calls' = [t \in Server |->
              IF t = s THEN (calls[t] \ {p}) \cup out[t]
              ELSE IF link[s][t] = "up" THEN calls[t] \cup out[t] ELSE calls[t]]
Nothing == [t \in Server |-> {}]
ToEach(ts, packet) == [t \in Server |-> IF t \in ts THEN {packet} ELSE {}]
Both(f, g) == [t \in Server |-> f[t] \cup g[t]]

Peers(s, a) == {clientPeers[s][a]} \ {NoConn}

(* handleClientPeerRegistPacket                                             *)
KillScopeSelf(s, old) == IF old = {} THEN {} ELSE serverPeers[s]  \* slip: only after a local login
KillScope(s, old) == serverPeers[s]

Register(s, c) ==
  /\ status[s] = "run" /\ Add(c) \in calls[s]
  /\ LET old == Peers(s, AddrOf[c])
         scope == IF Ended(old) = {} THEN KillScope(s, old) ELSE {}
         stuck == Ended(old) \cup EndedLinks(s, scope)
     IN /\ Push(old \ Ended(old), KillMsg(c))
        /\ \E ts \in Pushed(scope, EndedLinks(s, scope)) :
             Handled(s, Add(c), ToEach(ts, RelayOf(s, KillMsg(c))))
        /\ HangIf(s, stuck)
        /\ clientPeers' = IF stuck = {} THEN [clientPeers EXCEPT ![s][AddrOf[c]] = c]
                          ELSE clientPeers
  /\ UNCHANGED <<conn, links, location, sessions, sent, told>>

(* handleClientPeerUnregistPacket: only for the connection that is          *)
(* registered now; then an offline message to every server in its sessions. *)
IsAliveAny(s, c) == clientPeers[s][AddrOf[c]] # NoConn  \* slip: RemoteAddr is not compared
IsAlive(s, c) == clientPeers[s][AddrOf[c]] = c

SessionServers(c) == {sessions[c][a] : a \in Addr} \ {NoServer}

(* A server that is not connected is not told: this one tells itself.       *)
Unregister(s, c) ==
  /\ status[s] = "run" /\ Del(c) \in calls[s]
  /\ IF IsAlive(s, c)
     THEN LET alive == clientPeers[s][AddrOf[c]]
              Targets(t) == {a \in Addr : sessions[alive][a] = t}
              Offline(t) == RelayOf(s, OfflineMsg(c, Targets(t)))
              away == SessionServers(alive) \cap serverPeers[s]
              here == SessionServers(alive) \ away
              ended == EndedLinks(s, away)
          IN /\ clientPeers' = [clientPeers EXCEPT ![s][AddrOf[c]] = NoConn]
             /\ HangIf(s, ended)
             /\ \E ts \in Pushed(away \cup here, ended) :
                  /\ Handled(s, Del(c),
                       [t \in Server |->
                          IF t = s THEN {Offline(u) : u \in ts \cap here}
                          ELSE IF t \in ts \cap away THEN {Offline(t)} ELSE {}])
                  /\ told' = told \cup {<<c, t>> : t \in ts}
     ELSE Handled(s, Del(c), Nothing) /\ UNCHANGED <<clientPeers, status, told>>
  /\ UNCHANGED <<conn, links, location, sessions, got, again, sent>>

(* handleServerPeerUnregistPacket                                           *)
UnregisterServer(s, t) ==
  /\ status[s] = "run" /\ DelServer(t) \in calls[s]
  /\ serverPeers' = [serverPeers EXCEPT ![s] = @ \ {t}]
  /\ Handled(s, DelServer(t), Nothing)
  /\ UNCHANGED <<conn, status, link, clientPeers, location, sessions, got, again,
                 sent, told>>

(* AddSession keeps what is there; DelSession's test is the other way       *)
(* round, so that it deletes only what is not there.                        *)
AddSession(ss, cs, peer, t) ==
  [c \in Conn |-> IF c \in cs /\ ss[c][peer] = NoServer
                  THEN [ss[c] EXCEPT ![peer] = t] ELSE ss[c]]
DelSession(ss, cs, peer) ==
  [c \in Conn |-> IF c \in cs /\ ss[c][peer] = NoServer
                  THEN [ss[c] EXCEPT ![peer] = NoServer] ELSE ss[c]]

(* recordSession, for the sender and then for the receiver.                 *)
RecordSession(s, from, msg) ==
  sessions' = AddSession(AddSession(sessions, Peers(s, msg.source), msg.dest, s),
                         Peers(s, msg.dest), msg.source,
                         IF from \in Client THEN s ELSE from)

(* recordLocation: the first server that forwards a message of a client is  *)
(* where it is; if the receiver is here, that server is told so.            *)
Learns(s, from, msg) == from \in Server /\ location[s][msg.source] = NoServer
LearntHere(s, from, msg) == [location EXCEPT ![s][msg.source] = s]  \* slip: h.Server.Addr
LearntDest(s, from, msg) == [location EXCEPT ![s][msg.source] = msg.dest]  \* slip
Learnt(s, from, msg) == [location EXCEPT ![s][msg.source] = from]
RecordLocation(s, from, msg) ==
  location' = IF Learns(s, from, msg) THEN Learnt(s, from, msg) ELSE location
Locating(s, from, msg) ==
  IF Learns(s, from, msg) /\ Peers(s, msg.dest) # {} THEN {from} \cap serverPeers[s]
  ELSE {}

(* handleRelayPacket: to the client if it is here; a message that another   *)
(* server forwarded goes no further; otherwise to the server where the      *)
(* client was seen, if it is still connected, or to all.  A broadcast of a  *)
(* client goes to all servers and to every client here.                     *)
Receivers(s, dest) == IF dest = Everyone THEN UNION {Peers(s, a) : a \in Client}
                      ELSE Peers(s, dest)
Towards(s, dest) == IF location[s][dest] = NoServer THEN serverPeers[s]
                    ELSE {location[s][dest]} \cap serverPeers[s]
ForwardOn(s, from, msg) ==  \* slip: forwarded messages are forwarded again
  IF Peers(s, msg.dest) # {} THEN {} ELSE Towards(s, msg.dest)
ForwardLocated(s, from, msg) ==  \* slip: no broadcast for a client not seen yet
  IF Peers(s, msg.dest) # {} \/ from \in Server THEN {}
  ELSE {location[s][msg.dest]} \cap serverPeers[s]
Forward(s, from, msg) ==
  IF Peers(s, msg.dest) # {} \/ from \in Server THEN {} ELSE Towards(s, msg.dest)

Relay(s, p) ==
  /\ status[s] = "run" /\ p \in calls[s]
  /\ p.use = "relay" /\ p.msg.type \in {"chat", "kill"}
  /\ RecordSession(s, p.from, p.msg)
  /\ RecordLocation(s, p.from, p.msg)
  /\ LET asked == Locating(s, p.from, p.msg)
         unasked == EndedLinks(s, asked)
         on == IF unasked = {} THEN Forward(s, p.from, p.msg) ELSE {}
         cut == unasked \cup EndedLinks(s, on)
         cs == IF cut = {} THEN Receivers(s, p.msg.dest) ELSE {}
     IN /\ \E ts \in Pushed(on, EndedLinks(s, on)) :
             Handled(s, p, Both(ToEach(asked \ unasked,
                                       RelayOf(s, LocMsg(p.msg.source, p.msg.dest, s))),
                                ToEach(ts, RelayOf(s, p.msg))))
        /\ \E ds \in Pushed(cs, Ended(cs)) : Push(ds, p.msg)
        /\ HangIf(s, cut \cup Ended(cs))
  /\ UNCHANGED <<conn, links, clientPeers, sent, told>>

(* handleLogicPacket, MsgTypeLoc.                                           *)
HandleLoc(s, p) ==
  /\ status[s] = "run" /\ p \in calls[s] /\ p.use = "relay" /\ p.msg.type = "loc"
  /\ Handled(s, p, Nothing)
  /\ location' = [location EXCEPT ![s][p.msg.peer] = p.msg.in]
  /\ sessions' = AddSession(sessions, Peers(s, p.msg.target), p.msg.peer, p.msg.in)
  /\ status' = IF Peers(s, p.msg.target) = {}
               THEN [status EXCEPT ![s] = "crashed"] ELSE status
  /\ UNCHANGED <<conn, links, clientPeers, got, again, sent, told>>

(* handleLogicPacket, MsgTypeOffline.                                       *)
HandleOffline(s, p) ==
  /\ status[s] = "run" /\ p \in calls[s] /\ p.use = "relay" /\ p.msg.type = "offline"
  /\ Handled(s, p, Nothing)
  /\ location' = [location EXCEPT ![s][p.msg.peer] = NoServer]
  /\ LET here == UNION {Peers(s, a) : a \in p.msg.targets}
         notified == IF p.msg.id \in Notify THEN here ELSE {}
     IN /\ sessions' = DelSession(sessions, here, p.msg.peer)
        /\ \E cs \in Pushed(notified, Ended(notified)) : Push(cs, NoticeMsg(p.msg.id))
        /\ HangIf(s, Ended(notified))
  /\ UNCHANGED <<conn, links, clientPeers, sent, told>>

-----------------------------------------------------------------------------
Hub(s) == \/ \E c \in Conn : Register(s, c) \/ Unregister(s, c)
          \/ \E t \in Server : UnregisterServer(s, t)
          \/ \E p \in calls[s] : Relay(s, p) \/ HandleLoc(s, p) \/ HandleOffline(s, p)

Next == /\ \A s \in Server : status[s] # "crashed"
        /\ \/ \E c \in Conn : Connect(c) \/ Disconnect(c)
           \/ \E m \in Chat : Send(m)
           \/ \E s \in Server, t \in Server : Break(s, t) \/ (s # t /\ LinkEnds(s, t))
           \/ \E s \in Server : Hub(s)

(* Every hub goes on handling packets; clients and network promise nothing. *)
Fairness == \A s \in Server : WF_vars(Hub(s))

Spec == Init /\ [][Next]_vars
FairSpec == Spec /\ Fairness

-----------------------------------------------------------------------------
Message ==
  {ChatMsg(m) : m \in Chat} \cup {KillMsg(c) : c \in Conn}
    \cup {LocMsg(a, b, s) : a \in Client, b \in Client, s \in Server}
    \cup {OfflineMsg(c, ts) : c \in Conn, ts \in SUBSET Addr}
Packet == {Add(c) : c \in Conn} \cup {Del(c) : c \in Conn}
            \cup {DelServer(t) : t \in Server}
            \cup {RelayOf(f, m) : f \in Client \cup Server, m \in Message}

(* Type invariant of the hubs' maps and of the packets under way.           *)
TypeOK ==
  /\ conn \in [Conn -> {"new", "up", "down"}]
  /\ status \in [Server -> {"run", "hung", "crashed"}]
  /\ calls \in [Server -> SUBSET Packet]
  /\ DOMAIN serverPeers = Server /\ DOMAIN link = Server
  /\ \A s \in Server : /\ serverPeers[s] \subseteq Others(s)
                       /\ link[s] \in [Others(s) -> {"up", "cut", "ended"}]
  /\ clientPeers \in [Server -> [Addr -> Conn \cup {NoConn}]]
  /\ location \in [Server -> [Addr -> Server \cup {NoServer}]]
  /\ sessions \in [Conn -> [Addr -> Server \cup {NoServer}]]
  /\ got \in [Conn -> SUBSET (Message \cup {NoticeMsg(c) : c \in Conn})]
  /\ sent \subseteq Chat /\ told \subseteq Conn \X Server

(* A map entry, a location, a session always speaks of what was there:      *)
(* clientPeers holds connections of that client and server, a location is a *)
(* server where the client has logged in, so is a session's server.  Only   *)
(* for who speaks by HTTP, which needs no login, a server may take itself.  *)
Visited(a, t) == \E c \in Conn : AddrOf[c] = a /\ HomeOf[c] = t /\ conn[c] # "new"
SpokenFor(a, t) == \E m \in sent : Source[m] = a /\ Via[m] = t
MapsTrue ==
  /\ \A s \in Server, a \in Client :
       /\ \A c \in Peers(s, a) : AddrOf[c] = a /\ HomeOf[c] = s /\ conn[c] # "new"
       /\ location[s][a] # NoServer =>
            \/ Visited(a, location[s][a])
            \/ location[s][a] = s /\ SpokenFor(a, s)
  /\ \A c \in Conn, a \in Client :
       sessions[c][a] \notin {NoServer, HomeOf[c]} => Visited(a, sessions[c][a])

(* However often a message is forwarded, broadcast or located, no           *)
(* connection gets it twice.                                                *)
NoDuplicates == again = {}

(* On one server, a login that was replaced is told so: every connection    *)
(* that is up and was registered is the registered one or has been killed.  *)
Killed(c) == \E d \in Conn \ {c} : KillMsg(d) \in got[c]
Registered(c) == conn[c] # "new" /\ Add(c) \notin calls[HomeOf[c]]
SupersededKilled ==
  \A c \in Conn : (conn[c] = "up" /\ Registered(c) /\ status[HomeOf[c]] = "run")
                    => (clientPeers[HomeOf[c]][AddrOf[c]] = c \/ Killed(c))

(* Logins of one client on two servers race: when both are registered, one  *)
(* of them has been killed or its server has a kill to handle, unless the   *)
(* link between the two was broken.                                         *)
BeingKilled(c) ==
  Killed(c) \/ \E s \in Server, d \in Conn \ {c} :
                  AddrOf[d] = AddrOf[c] /\ RelayOf(s, KillMsg(d)) \in calls[HomeOf[c]]
Linked(s, t) == s = t \/ (link[s][t] = "up" /\ link[t][s] = "up")
DoubleLoginKilled ==
  \A c, d \in Conn :
    (/\ c # d /\ AddrOf[c] = AddrOf[d] /\ Linked(HomeOf[c], HomeOf[d])
     /\ clientPeers[HomeOf[c]][AddrOf[c]] = c /\ clientPeers[HomeOf[d]][AddrOf[d]] = d
     /\ status[HomeOf[c]] = "run" /\ status[HomeOf[d]] = "run")
      => BeingKilled(c) \/ BeingKilled(d)

(* A message of a client, also a broadcast, reaches each connection it is   *)
(* meant for that is registered and stays so, as long as the two hubs run   *)
(* and the link between them holds, whatever becomes of the others.  (Of    *)
(* clients that do not move from server to server.)                         *)
Audience(m) == {c \in Conn : Dest[m] \in {AddrOf[c], Everyone}}
Reachable(m, c) == /\ conn[c] = "up" /\ clientPeers[HomeOf[c]][AddrOf[c]] = c
                   /\ status[Entry(m)] = "run" /\ status[HomeOf[c]] = "run"
                   /\ Linked(Entry(m), HomeOf[c])
Delivered ==
  \A m \in {n \in Chat : Via[n] \in Conn} : \A c \in Audience(m) :
    (Entering(m) \in calls[Entry(m)] /\ Reachable(m, c))
      ~> (ChatMsg(m) \in got[c] \/ ~Reachable(m, c))

-----------------------------------------------------------------------------
(* clent_peer.go:27: on logout every server of a client that communicated   *)
(* with this one is sent an offline message.                                *)
Communicated(c, d) == \E m \in Chat :
  \/ Via[m] = c /\ ChatMsg(m) \in got[d]
  \/ Via[m] = d /\ ChatMsg(m) \in got[c]
LogoutTold ==
  [][\A c \in Conn : clientPeers[HomeOf[c]][AddrOf[c]] = c
                       /\ clientPeers'[HomeOf[c]][AddrOf[c]] = NoConn
       => \A d \in Conn : Communicated(c, d) => <<c, HomeOf[d]>> \in told']_vars

(* hub.go:301: a location lets a server send straight to the server where   *)
(* the client is, so once everything is handled a located client that is    *)
(* online is at its location.                                               *)
Quiet == \A s \in Server : status[s] = "run" /\ calls[s] = {}
LocationsFresh ==
  Quiet => \A s \in Server, a \in Client :
             location[s][a] # NoServer =>
               \/ \E c \in Conn : c \in Peers(location[s][a], a)
               \/ ~\E t \in Server : Peers(t, a) # {}

(* hub.go:260: only the sender of a forwarded message gets a location, so   *)
(* no server locates a client at itself.                                    *)
LocatedElsewhere == \A s \in Server, a \in Client : location[s][a] # s

(* hub.go:418: a message of a client goes to the server where the receiver  *)
(* was seen, so that server is one that it is connected to.                 *)
LocationsConnected ==
  \A s \in Server, a \in Client :
    location[s][a] \in {NoServer, s} \cup serverPeers[s]

(* hub.go:494: the session of a located client is registered "whether it is *)
(* successful", so handling a location message never stops the program.     *)
LocNeverCrashes == \A s \in Server : status[s] # "crashed"
=============================================================================
