----------------------------- MODULE Membership -----------------------------
(***************************************************************************)
(* hub/hub.go startCluster, server_peer.go and the server part of           *)
(* http_handler.go: how servers come to know one another.                   *)
(*                                                                          *)
(* A server that starts asks the seed for the servers it knows, dials each, *)
(* and only then starts its handlers.  The other end registers the          *)
(* connection through its packet queue; the ends of connections are         *)
(* reported through the queues as well, each from a goroutine of its own,   *)
(* so calls[s] is a set.  Nobody dials again after a connection was lost.   *)
(***************************************************************************)
EXTENDS Naturals, FiniteSets

CONSTANTS Server, Seed,  \* Seed is the server in everybody's cluster-seed-url
          MaxLink,       \* bound: connections made
          MaxFailure     \* bound: connections broken, servers stopped

ASSUME SeedAssumption == Seed \in Server
ASSUME BoundAssumption == MaxLink \in Nat /\ MaxFailure \in Nat

(* The bound leaves a connection for any two servers.                       *)
Pairs == {{s, t} : s \in Server, t \in Server} \ {{s} : s \in Server}
ASSUME RoomAssumption == IsFiniteSet(Server) /\ MaxLink >= Cardinality(Pairs)

Link == 1..MaxLink  \* 0 is no connection

VARIABLES
  status,       \* each server: "off", "starting" or "running"
  toDial,       \* per server, what startCluster has still to dial
  serverPeers,  \* per server, the connection registered for another one
  by, to,       \* the ends of each connection
  link,         \* each connection: "none", "up" or "down"
  calls,        \* packets each server will handle
  early,        \* <<s, i>>: s handled the end of i ahead of its registration
  overlapped,   \* has a server started before the last one was known to all?
  failures

vars == <<status, toDial, serverPeers, by, to, link, calls, early, overlapped,
          failures>>

Add(i) == [use |-> "add", link |-> i]
Del(i) == [use |-> "del", link |-> i]

Init ==
  /\ status = [s \in Server |-> "off"] /\ toDial = [s \in Server |-> {}]
  /\ serverPeers = [s \in Server |-> [t \in Server |-> 0]]
  /\ by = [i \in Link |-> Seed] /\ to = [i \in Link |-> Seed]
  /\ link = [i \in Link |-> "none"]
  /\ calls = [s \in Server |-> {}] /\ early = {}
  /\ overlapped = FALSE /\ failures = 0

OtherEnd(s, i) == IF by[i] = s THEN to[i] ELSE by[i]

-----------------------------------------------------------------------------
(* startCluster: GET /q/servers at the seed, answered by its handler (by a  *)
(* seed that is starting, once its handler runs).                           *)
Joining == \E s \in Server : status[s] = "starting" \/ calls[s] # {}
KnownToSeed(s) == ({Seed} \cup {t \in Server : serverPeers[Seed][t] # 0}) \ {s}

Start(s) ==
  /\ status[s] = "off" /\ status[Seed] # "starting"
  /\ status' = [status EXCEPT ![s] = "starting"]
  /\ toDial' = [toDial EXCEPT ![s] =
       IF s # Seed /\ status[Seed] = "running" THEN KnownToSeed(s) ELSE {}]
  /\ overlapped' = (overlapped \/ Joining \/ (s # Seed /\ status[Seed] # "running"))
  /\ UNCHANGED <<serverPeers, by, to, link, calls, early, failures>>

(* The next server is dialled; whoever listens accepts.  A server that does *)
(* not is left out (as is one for which the bound leaves no connection).    *)
DialUnregistered(s, t, i) == serverPeers  \* slip: the dialled server is not kept
Dialled(s, t, i) == [serverPeers EXCEPT ![s][t] = i]

Dial(s, t) ==
  /\ status[s] = "starting" /\ t \in toDial[s]
  /\ toDial' = [toDial EXCEPT ![s] = @ \ {t}]
  /\ \/ /\ status[t] # "off"
        /\ \E i \in Link :
             /\ link[i] = "none" /\ \A j \in 1..(i - 1) : link[j] # "none"
             /\ link' = [link EXCEPT ![i] = "up"]
             /\ by' = [by EXCEPT ![i] = s] /\ to' = [to EXCEPT ![i] = t]
             /\ serverPeers' = Dialled(s, t, i)
             /\ calls' = [calls EXCEPT ![t] = @ \cup {Add(i)}]
     \/ /\ status[t] = "off" \/ \A i \in Link : link[i] # "none"
        /\ UNCHANGED <<serverPeers, by, to, link, calls>>
  /\ UNCHANGED <<status, early, overlapped, failures>>

StartHandlers(s) ==
  /\ status[s] = "starting" /\ toDial[s] = {}
  /\ status' = [status EXCEPT ![s] = "running"]
  /\ UNCHANGED <<toDial, serverPeers, by, to, link, calls, early, overlapped, failures>>

-----------------------------------------------------------------------------
(* handleServerPeerRegistPacket and handleServerPeerUnregistPacket: the     *)
(* latter looks at the server's address, not at the connection.             *)
RegisteredHost(s, i) == [serverPeers EXCEPT ![s][to[i]] = i]  \* slip: HostServer
Registered(s, i) == [serverPeers EXCEPT ![s][by[i]] = i]

HandleAdd(s, i) ==
  /\ status[s] = "running" /\ Add(i) \in calls[s]
  /\ calls' = [calls EXCEPT ![s] = @ \ {Add(i)}]
  /\ serverPeers' = Registered(s, i)
  /\ UNCHANGED <<status, toDial, by, to, link, early, overlapped, failures>>

RemovedNot(s, i) == serverPeers  \* slip: the entry stays
Removed(s, i) == [serverPeers EXCEPT ![s][OtherEnd(s, i)] = 0]

HandleDel(s, i) ==
  /\ status[s] = "running" /\ Del(i) \in calls[s]
  /\ calls' = [calls EXCEPT ![s] = @ \ {Del(i)}]
  /\ serverPeers' = Removed(s, i)
  /\ early' = IF Add(i) \in calls[s] THEN early \cup {<<s, i>>} ELSE early
  /\ UNCHANGED <<status, toDial, by, to, link, overlapped, failures>>

(* A connection breaks, or a server stops and all of its connections break: *)
(* OnDisconnect at every end that is left.                                  *)
Ends(is) == [s \in Server |-> calls[s] \cup
                                {Del(i) : i \in {j \in is : s \in {by[j], to[j]}}}]

Fails == failures < MaxFailure /\ failures' = failures + 1

Break(i) ==
  /\ Fails /\ link[i] = "up" /\ link' = [link EXCEPT ![i] = "down"]
  /\ calls' = Ends({i})
  /\ UNCHANGED <<status, toDial, serverPeers, by, to, early, overlapped>>

Stop(s) ==
  /\ Fails /\ status[s] # "off" /\ status' = [status EXCEPT ![s] = "off"]
  /\ toDial' = [toDial EXCEPT ![s] = {}]
  /\ serverPeers' = [serverPeers EXCEPT ![s] = [t \in Server |-> 0]]
  /\ LET lost == {i \in Link : link[i] = "up" /\ s \in {by[i], to[i]}}
     IN /\ link' = [i \in Link |-> IF i \in lost THEN "down" ELSE link[i]]
        /\ calls' = [Ends(lost) EXCEPT ![s] = {}]
  /\ UNCHANGED <<by, to, early, overlapped>>

Handler(s) == \E i \in Link : HandleAdd(s, i) \/ HandleDel(s, i)
Starting(s) == StartHandlers(s) \/ \E t \in Server : Dial(s, t)
Next == \/ \E s \in Server : Start(s) \/ Starting(s) \/ Handler(s) \/ Stop(s)
        \/ \E i \in Link : Break(i)

(* A server that starts goes on to its handlers, which go on too.           *)
Fairness == \A s \in Server : WF_vars(Starting(s)) /\ WF_vars(Handler(s))

Spec == Init /\ [][Next]_vars
FairSpec == Spec /\ Fairness

-----------------------------------------------------------------------------
Packet == {Add(i) : i \in Link} \cup {Del(i) : i \in Link}

(* Type invariant of the servers' maps and of the connections.              *)
TypeOK ==
  /\ status \in [Server -> {"off", "starting", "running"}]
  /\ toDial \in [Server -> SUBSET Server]
  /\ serverPeers \in [Server -> [Server -> Link \cup {0}]]
  /\ by \in [Link -> Server] /\ to \in [Link -> Server]
  /\ link \in [Link -> {"none", "up", "down"}]
  /\ calls \in [Server -> SUBSET Packet]
  /\ \A s, t \in Server, i \in Link : serverPeers[s][t] = i =>
       link[i] # "none" /\ OtherEnd(s, i) = t
  /\ early \subseteq Server \X Link /\ overlapped \in BOOLEAN
  /\ failures \in 0..MaxFailure

(* When servers start one after the other and nothing fails, everybody has  *)
(* a connection to everybody once all is handled.                           *)
Quiet == \A s \in Server : status[s] \in {"off", "running"} /\ calls[s] = {}
Mesh == \A s, t \in Server :
          (s # t /\ status[s] = "running" /\ status[t] = "running")
            => serverPeers[s][t] # 0 /\ link[serverPeers[s][t]] = "up"
MeshWhenOneByOne == Quiet /\ ~overlapped /\ failures = 0 => Mesh

(* A connection that has ended leaves the map, whatever else starts, stops  *)
(* or breaks, except where its end was handled ahead of its registration.   *)
EndedIsForgotten ==
  \A s \in Server, i \in Link :
    (link[i] = "down" /\ \E t \in Server : serverPeers[s][t] = i)
      ~> (~(\E t \in Server : serverPeers[s][t] = i) \/ <<s, i>> \in early)

-----------------------------------------------------------------------------
(* server_peer.go:17: every server builds connections to the other servers, *)
(* so without a failure all have one once everything is handled.            *)
MeshAlways == Quiet /\ failures = 0 /\ status[Seed] = "running" => Mesh
=============================================================================
