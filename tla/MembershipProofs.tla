-------------------------- MODULE MembershipProofs --------------------------
(***************************************************************************)
(* Proofs about Membership, for any servers, any seed among them, and as    *)
(* many connections and failures as the bounds leave.                       *)
(***************************************************************************)
EXTENDS Membership, FiniteSetTheorems, TLAPS

EndsOf(i) == {by[i], to[i]}
Used(i) == link[i] # "none"

(* Who dials, and whom a registration or an end under way speaks of.        *)
Places ==
  /\ \A s \in Server : /\ toDial[s] \subseteq Server \ {s}
                       /\ toDial[s] # {} => status[s] = "starting"
  /\ \A s \in Server, i \in Link :
       /\ Add(i) \in calls[s] => Used(i) /\ to[i] = s
       /\ Del(i) \in calls[s] => link[i] = "down" /\ s \in EndsOf(i)
  /\ \A s, t \in Server, i \in Link : serverPeers[s][t] = i => s \in EndsOf(i)
  /\ \A i \in Link : Used(i) => by[i] # to[i]
PInv == TypeOK /\ Places

(* What there is to handle.                                                 *)
LEMMA Packets ==
  /\ \A i \in Link : Add(i) \in Packet /\ Del(i) \in Packet
  /\ \A i, j \in Link : /\ Add(i) # Del(j)
                        /\ Add(i) = Add(j) => i = j
                        /\ Del(i) = Del(j) => i = j
  /\ 0 \notin Link
<1>1. \A i \in Link : Add(i) \in Packet /\ Del(i) \in Packet
  BY DEF Packet
<1>2. \A i, j \in Link : /\ Add(i) # Del(j)
                         /\ Add(i) = Add(j) => i = j
                         /\ Del(i) = Del(j) => i = j
  BY DEF Add, Del
<1>3. 0 \notin Link
  BY BoundAssumption DEF Link
<1> QED BY <1>1, <1>2, <1>3

(* A dial takes a connection that nobody has used.                          *)
LEMMA DialForm ==
  ASSUME PInv, NEW s \in Server, NEW t \in Server, Dial(s, t)
  PROVE  /\ s # t
         /\ \/ UNCHANGED <<serverPeers, by, to, link, calls>>
            \/ /\ status[t] # "off"
               /\ \E i \in Link :
                    /\ link[i] = "none"
                    /\ link' = [link EXCEPT ![i] = "up"]
                    /\ by' = [by EXCEPT ![i] = s] /\ to' = [to EXCEPT ![i] = t]
                    /\ serverPeers' = [serverPeers EXCEPT ![s][t] = i]
                    /\ calls' = [calls EXCEPT ![t] = @ \cup {Add(i)}]
  BY DEF PInv, Places, Dial, Dialled

(* startCluster keeps the types and places.                                 *)
LEMMA StartKeeps == ASSUME PInv, NEW s \in Server, Start(s) PROVE PInv'
<1>1. KnownToSeed(s) \subseteq Server \ {s}
  BY SeedAssumption DEF KnownToSeed
<1>2. /\ \A u \in Server : toDial'[u] = IF u = s THEN toDial'[s] ELSE toDial[u]
      /\ toDial'[s] \subseteq Server \ {s}
      /\ status' = [status EXCEPT ![s] = "starting"]
      /\ UNCHANGED <<serverPeers, by, to, link, calls, early, failures>>
  BY <1>1 DEF PInv, TypeOK, Start
<1>3. TypeOK'
  BY <1>1, <1>2 DEF PInv, TypeOK, Start, OtherEnd
<1>4. Places'
  BY <1>2 DEF PInv, TypeOK, Places, EndsOf, Used
<1> QED BY <1>3, <1>4 DEF PInv

(* A dial keeps the types and places.                                       *)
LEMMA DialKeeps ==
  ASSUME PInv, NEW s \in Server, NEW t \in Server, Dial(s, t)
  PROVE  PInv'
<1>1. /\ t \in toDial[s] /\ toDial' = [toDial EXCEPT ![s] = @ \ {t}]
      /\ UNCHANGED <<status, early, overlapped, failures>>
  BY DEF Dial
<1>2. CASE UNCHANGED <<serverPeers, by, to, link, calls>>
  BY <1>1, <1>2 DEF PInv, TypeOK, Places, EndsOf, Used, OtherEnd
<1>3. ASSUME NEW i \in Link, link[i] = "none", link' = [link EXCEPT ![i] = "up"],
             by' = [by EXCEPT ![i] = s], to' = [to EXCEPT ![i] = t],
             serverPeers' = [serverPeers EXCEPT ![s][t] = i],
             calls' = [calls EXCEPT ![t] = @ \cup {Add(i)}]
      PROVE  PInv'
  <2>1. s # t
    BY DialForm
  <2>2. \A j \in Link : j # i => by'[j] = by[j] /\ to'[j] = to[j] /\ link'[j] = link[j]
    BY <1>3 DEF PInv, TypeOK
  <2>3. by'[i] = s /\ to'[i] = t /\ link'[i] = "up"
    BY <1>3 DEF PInv, TypeOK
  <2>4. \A u, v \in Server :
          serverPeers'[u][v] = IF u = s /\ v = t THEN i ELSE serverPeers[u][v]
    BY <1>3 DEF PInv, TypeOK
  <2>5. \A u, v \in Server : serverPeers[u][v] # i
    BY <1>3, Packets DEF PInv, TypeOK
  <2>6. \A u \in Server : calls'[u] = IF u = t THEN calls[u] \cup {Add(i)} ELSE calls[u]
    BY <1>3 DEF PInv, TypeOK
  <2>7. TypeOK'
    <3>1. ASSUME NEW u \in Server, NEW v \in Server, NEW j \in Link, serverPeers'[u][v] = j
          PROVE  link'[j] # "none" /\ OtherEnd(u, j)' = v
      <4>1. CASE u = s /\ v = t
        BY <2>3, <2>4, <3>1, <4>1 DEF OtherEnd
      <4>2. CASE ~(u = s /\ v = t)
        <5>1. serverPeers[u][v] = j /\ j # i
          BY <2>4, <2>5, <3>1, <4>2
        <5>2. link[j] # "none" /\ OtherEnd(u, j) = v
          BY <5>1 DEF PInv, TypeOK
        <5> QED BY <2>2, <5>1, <5>2 DEF OtherEnd
      <4> QED BY <4>1, <4>2
    <3>2. calls' \in [Server -> SUBSET Packet]
      BY <1>3, Packets DEF PInv, TypeOK
    <3>3. serverPeers' \in [Server -> [Server -> Link \cup {0}]]
      BY <1>3 DEF PInv, TypeOK
    <3>4. toDial' \in [Server -> SUBSET Server]
      BY <1>1 DEF PInv, TypeOK
    <3>5. /\ by' \in [Link -> Server] /\ to' \in [Link -> Server]
          /\ link' \in [Link -> {"none", "up", "down"}]
      BY <1>3 DEF PInv, TypeOK
    <3> QED BY <1>1, <3>1, <3>2, <3>3, <3>4, <3>5 DEF PInv, TypeOK
  <2>8. Places'
    <3>1. \A u \in Server : /\ toDial'[u] \subseteq Server \ {u}
                            /\ toDial'[u] # {} => status'[u] = "starting"
      BY <1>1 DEF PInv, TypeOK, Places
    <3>2. ASSUME NEW u \in Server, NEW j \in Link
          PROVE  /\ Add(j) \in calls'[u] => link'[j] # "none" /\ to'[j] = u
                 /\ Del(j) \in calls'[u] => link'[j] = "down" /\ u \in {by'[j], to'[j]}
      <4>1. CASE j = i
        <5>1. Add(i) \notin calls[u] /\ Del(i) \notin calls[u]
          BY <1>3 DEF PInv, Places, Used
        <5> QED BY <2>3, <2>6, <4>1, <5>1, Packets
      <4>2. CASE j # i
        <5>1. Add(j) \in calls'[u] => Add(j) \in calls[u]
          BY <2>6, <4>2, Packets
        <5>2. Del(j) \in calls'[u] => Del(j) \in calls[u]
          BY <2>6, Packets
        <5>3. /\ Add(j) \in calls[u] => link[j] # "none" /\ to[j] = u
              /\ Del(j) \in calls[u] => link[j] = "down" /\ u \in {by[j], to[j]}
          BY DEF PInv, Places, Used, EndsOf
        <5> QED BY <2>2, <4>2, <5>1, <5>2, <5>3
      <4> QED BY <4>1, <4>2
    <3>3. ASSUME NEW u \in Server, NEW v \in Server, NEW j \in Link, serverPeers'[u][v] = j
          PROVE  u \in {by'[j], to'[j]}
      BY <2>2, <2>3, <2>4, <2>5, <3>3 DEF PInv, Places, EndsOf
    <3>4. \A j \in Link : link'[j] # "none" => by'[j] # to'[j]
      BY <2>1, <2>2, <2>3 DEF PInv, Places, Used
    <3> QED BY <3>1, <3>2, <3>3, <3>4 DEF Places, Used, EndsOf
  <2> QED BY <2>7, <2>8 DEF PInv
<1> QED BY <1>2, <1>3, DialForm

(* Handlers and the start of them keep the types and places.                *)
LEMMA HandlerKeeps ==
  ASSUME PInv, NEW s \in Server,
         StartHandlers(s) \/ \E i \in Link : HandleAdd(s, i) \/ HandleDel(s, i)
  PROVE  PInv'
<1>1. CASE StartHandlers(s)
  BY <1>1 DEF StartHandlers, PInv, TypeOK, Places, EndsOf, Used, OtherEnd
<1>2. ASSUME NEW i \in Link, NEW t \in Server, NEW k \in {0, i}, NEW p,
             k = i => Used(i) /\ OtherEnd(s, i) = t /\ s \in EndsOf(i),
             serverPeers' = [serverPeers EXCEPT ![s][t] = k],
             calls' = [calls EXCEPT ![s] = @ \ {p}],
             early' = early \/ early' = early \cup {<<s, i>>},
             UNCHANGED <<status, toDial, by, to, link, overlapped, failures>>
      PROVE  PInv'
  <2>1. \A u, v \in Server :
          serverPeers'[u][v] = IF u = s /\ v = t THEN k ELSE serverPeers[u][v]
    BY <1>2 DEF PInv, TypeOK
  <2>2. \A u \in Server : calls'[u] \subseteq calls[u]
    BY <1>2 DEF PInv, TypeOK
  <2>3. TypeOK'
    <3>1. serverPeers' \in [Server -> [Server -> Link \cup {0}]]
      BY <1>2 DEF PInv, TypeOK
    <3>2. calls' \in [Server -> SUBSET Packet]
      BY <1>2 DEF PInv, TypeOK
    <3>3. \A u, v \in Server, j \in Link : serverPeers'[u][v] = j =>
            link'[j] # "none" /\ OtherEnd(u, j)' = v
      BY <1>2, <2>1, Packets DEF PInv, TypeOK, Used, OtherEnd
    <3> QED BY <1>2, <3>1, <3>2, <3>3 DEF PInv, TypeOK
  <2>4. Places'
    BY <1>2, <2>1, <2>2, Packets DEF PInv, Places, Used, EndsOf
  <2> QED BY <2>3, <2>4 DEF PInv
<1>3. ASSUME NEW i \in Link, HandleAdd(s, i) PROVE PInv'
  <2>1. Used(i) /\ to[i] = s /\ by[i] # s /\ by[i] \in Server
    BY <1>3 DEF HandleAdd, PInv, Places, TypeOK
  <2> QED BY <1>2, <1>3, <2>1 DEF HandleAdd, Registered, OtherEnd, EndsOf
<1>4. ASSUME NEW i \in Link, HandleDel(s, i) PROVE PInv'
  <2>1. OtherEnd(s, i) \in Server
    BY DEF PInv, TypeOK, OtherEnd
  <2> QED BY <1>2, <1>4, <2>1, Packets DEF HandleDel, Removed
<1> QED BY <1>1, <1>3, <1>4

(* The ends of connections are under way to the servers at them.            *)
LEMMA EndsCalls ==
  ASSUME PInv, NEW is \in SUBSET Link
  PROVE  /\ Ends(is) \in [Server -> SUBSET Packet]
         /\ \A s \in Server, i \in Link :
              /\ Add(i) \in Ends(is)[s] <=> Add(i) \in calls[s]
              /\ Del(i) \in Ends(is)[s] <=>
                   Del(i) \in calls[s] \/ (i \in is /\ s \in EndsOf(i))
<1>1. \A s \in Server : Ends(is)[s] =
        calls[s] \cup {Del(i) : i \in {j \in is : s \in {by[j], to[j]}}}
  BY DEF Ends
<1> QED BY <1>1, Packets DEF PInv, TypeOK, Packet, EndsOf, Ends

(* Connections that go down, and maps that lose entries, keep all of it.    *)
LEMMA DownKeeps ==
  ASSUME PInv, NEW lost \in SUBSET Link,
         status' \in [Server -> {"off", "starting", "running"}],
         \A s \in Server : /\ toDial'[s] \subseteq toDial[s]
                          /\ (status'[s] = status[s] \/ toDial'[s] = {}),
         toDial' \in [Server -> SUBSET Server],
         serverPeers' \in [Server -> [Server -> Link \cup {0}]],
         \A s, t \in Server : serverPeers'[s][t] \in {0, serverPeers[s][t]},
         link' = [i \in Link |-> IF i \in lost THEN "down" ELSE link[i]],
         \A i \in lost : link[i] = "up",
         calls' \in [Server -> SUBSET Packet],
         \A s \in Server : calls'[s] \subseteq Ends(lost)[s],
         failures' \in 0..MaxFailure, UNCHANGED <<by, to, early, overlapped>>
  PROVE  PInv'
<1>1. /\ link' \in [Link -> {"none", "up", "down"}]
      /\ \A i \in Link : /\ link'[i] # "none" <=> link[i] # "none"
                         /\ i \in lost \/ link[i] = "down" => link'[i] = "down"
  BY DEF PInv, TypeOK
<1>2. ASSUME NEW s \in Server, NEW i \in Link
      PROVE  /\ Add(i) \in calls'[s] => Add(i) \in calls[s]
             /\ Del(i) \in calls'[s] => Del(i) \in calls[s] \/ (i \in lost /\ s \in EndsOf(i))
  BY EndsCalls
<1>3. ASSUME NEW s \in Server, NEW t \in Server, NEW i \in Link, serverPeers'[s][t] = i
      PROVE  serverPeers[s][t] = i
  BY <1>3, Packets
<1>4. TypeOK'
  <2>1. \A s, t \in Server, i \in Link : serverPeers[s][t] = i =>
          link[i] # "none" /\ OtherEnd(s, i) = t
    BY DEF PInv, TypeOK
  <2>2. (\A s, t \in Server, i \in Link : serverPeers[s][t] = i =>
          link[i] # "none" /\ OtherEnd(s, i) = t)'
    BY <1>1, <1>3, <2>1 DEF OtherEnd
  <2> QED BY <1>1, <2>2 DEF PInv, TypeOK
<1>5. Places'
  <2>1. ASSUME NEW s \in Server
        PROVE  toDial'[s] \subseteq Server \ {s} /\ (toDial'[s] # {} => status'[s] = "starting")
    BY DEF PInv, Places
  <2>2. ASSUME NEW s \in Server, NEW i \in Link
        PROVE  /\ Add(i) \in calls'[s] => link'[i] # "none" /\ to'[i] = s
               /\ Del(i) \in calls'[s] => link'[i] = "down" /\ s \in EndsOf(i)'
    BY <1>1, <1>2 DEF PInv, Places, Used, EndsOf
  <2>3. \A s, t \in Server, i \in Link : serverPeers'[s][t] = i => s \in EndsOf(i)'
    BY <1>3 DEF PInv, Places, EndsOf
  <2>4. \A i \in Link : link'[i] # "none" => by'[i] # to'[i]
    BY <1>1 DEF PInv, Places, Used
  <2> QED BY <2>1, <2>2, <2>3, <2>4 DEF Places, Used
<1> QED BY <1>4, <1>5 DEF PInv

(* A failure keeps the types and places.                                    *)
LEMMA FailureKeeps ==
  ASSUME PInv, (\E i \in Link : Break(i)) \/ (\E s \in Server : Stop(s))
  PROVE  PInv'
<1>1. failures' \in 0..MaxFailure
  <2>1. Fails
    BY DEF Break, Stop
  <2>2. failures \in Nat
    BY BoundAssumption DEF PInv, TypeOK
  <2> QED BY <2>1, <2>2, BoundAssumption DEF Fails
<1>2. ASSUME NEW i \in Link, Break(i) PROVE PInv'
  <2>1. link' = [j \in Link |-> IF j \in {i} THEN "down" ELSE link[j]]
    BY <1>2 DEF Break, PInv, TypeOK
  <2>2. calls' = Ends({i}) /\ Ends({i}) \in [Server -> SUBSET Packet]
    BY <1>2, EndsCalls DEF Break
  <2>3. /\ link[i] = "up"
        /\ UNCHANGED <<status, toDial, serverPeers, by, to, early, overlapped>>
    BY <1>2 DEF Break
  <2>4. /\ status' \in [Server -> {"off", "starting", "running"}]
        /\ toDial' \in [Server -> SUBSET Server]
        /\ serverPeers' \in [Server -> [Server -> Link \cup {0}]]
    BY <2>3 DEF PInv, TypeOK
  <2> QED BY <1>1, <2>1, <2>2, <2>3, <2>4, DownKeeps
<1>3. ASSUME NEW s \in Server, Stop(s) PROVE PInv'
  <2> DEFINE lost == {i \in Link : link[i] = "up" /\ s \in {by[i], to[i]}}
  <2>1. /\ status' = [status EXCEPT ![s] = "off"] /\ toDial' = [toDial EXCEPT ![s] = {}]
        /\ serverPeers' = [serverPeers EXCEPT ![s] = [t \in Server |-> 0]]
        /\ link' = [i \in Link |-> IF i \in lost THEN "down" ELSE link[i]]
        /\ calls' = [Ends(lost) EXCEPT ![s] = {}]
        /\ UNCHANGED <<by, to, early, overlapped>>
    BY <1>3 DEF Stop
  <2>2. PICK gone \in SUBSET Link : gone = lost
    OBVIOUS
  <2>3. Ends(lost) = Ends(gone) /\ Ends(gone) \in [Server -> SUBSET Packet]
    BY <2>2, EndsCalls
  <2>4. /\ calls' \in [Server -> SUBSET Packet]
        /\ \A u \in Server : calls'[u] \subseteq Ends(gone)[u]
    <3> HIDE DEF lost
    <3> QED BY <2>1, <2>3
  <2>5. /\ status' \in [Server -> {"off", "starting", "running"}]
        /\ toDial' \in [Server -> SUBSET Server]
        /\ serverPeers' \in [Server -> [Server -> Link \cup {0}]]
    BY <2>1 DEF PInv, TypeOK
  <2>6. \A u \in Server : /\ toDial'[u] \subseteq toDial[u]
                          /\ status'[u] = status[u] \/ toDial'[u] = {}
    BY <2>1 DEF PInv, TypeOK
  <2>7. \A u, v \in Server : serverPeers'[u][v] \in {0, serverPeers[u][v]}
    BY <2>1 DEF PInv, TypeOK
  <2>8. /\ link' = [i \in Link |-> IF i \in gone THEN "down" ELSE link[i]]
        /\ \A i \in gone : link[i] = "up"
    BY <2>1, <2>2
  <2> QED BY <1>1, <2>1, <2>4, <2>5, <2>6, <2>7, <2>8, DownKeeps
<1> QED BY <1>2, <1>3

(* Types and places hold always.                                            *)
LEMMA PInvHolds == Spec => []PInv
<1>1. Init => PInv
  <2> SUFFICES ASSUME Init PROVE TypeOK /\ Places
    BY DEF PInv
  <2>1. \A s, t \in Server, i \in Link : serverPeers[s][t] # i
    BY Packets DEF Init
  <2>2. \A s \in Server : calls[s] = {} /\ toDial[s] = {}
    BY DEF Init
  <2>3. TypeOK
    <3>0. failures \in 0..MaxFailure
      BY BoundAssumption DEF Init
    <3>1. overlapped \in BOOLEAN
      BY Zenon DEF Init
    <3>2. /\ by \in [Link -> Server] /\ to \in [Link -> Server]
          /\ link \in [Link -> {"none", "up", "down"}]
          /\ serverPeers \in [Server -> [Server -> Link \cup {0}]]
      BY SeedAssumption DEF Init
    <3>3. /\ status \in [Server -> {"off", "starting", "running"}]
          /\ toDial \in [Server -> SUBSET Server]
          /\ calls \in [Server -> SUBSET Packet] /\ early \subseteq Server \X Link
      BY DEF Init
    <3> QED BY <2>1, <3>0, <3>1, <3>2, <3>3 DEF TypeOK
  <2>4. Places
    BY <2>1, <2>2 DEF Init, Places, Used
  <2> QED BY <2>3, <2>4
<1>2. PInv /\ [Next]_vars => PInv'
  <2>1. PInv /\ UNCHANGED vars => PInv'
    BY DEF vars, PInv, TypeOK, Places, Used, EndsOf, OtherEnd
  <2> QED BY <2>1, StartKeeps, DialKeeps, HandlerKeeps, FailureKeeps
          DEF Next, Starting, Handler
<1> QED BY <1>1, <1>2, PTL DEF Spec

(* In every behaviour a server's map holds connections that were made, each *)
(* under the name of the server at its other end.                           *)
THEOREM MembershipTypeOK == Spec => []TypeOK
  BY PInvHolds, PTL DEF PInv
-----------------------------------------------------------------------------
(* When each connection has a pair of servers of its own, every pair has    *)
(* one by the time all connections are used.                                *)
LEMMA Room ==
  ASSUME NEW f \in [Link -> Pairs], \A i, j \in Link : i # j => f[i] # f[j],
         NEW p \in Pairs
  PROVE  \E i \in Link : f[i] = p
<1>1. IsFiniteSet(Pairs)
  <2>1. IsFiniteSet(SUBSET Server) /\ Pairs \in SUBSET (SUBSET Server)
    BY RoomAssumption, FS_SUBSET DEF Pairs
  <2> QED BY <2>1, FS_Subset
<1>2. IsFiniteSet(Pairs \ {p}) /\ Cardinality(Pairs \ {p}) = Cardinality(Pairs) - 1
  BY <1>1, FS_RemoveElement
<1>3. IsFiniteSet(Link) /\ Cardinality(Link) = MaxLink
  <2>1. IsFiniteSet(1..MaxLink) /\ Cardinality(1..MaxLink) = IF 1 > MaxLink THEN 0 ELSE MaxLink - 1 + 1
    BY BoundAssumption, FS_Interval
  <2> QED BY <2>1, BoundAssumption DEF Link
<1> SUFFICES ASSUME \A i \in Link : f[i] # p PROVE FALSE
  OBVIOUS
<1>4. f \in Injection(Link, Pairs \ {p})
  BY DEF Injection, IsInjective
<1>5. Cardinality(Link) <= Cardinality(Pairs \ {p})
  BY <1>2, <1>4, FS_Injection
<1>6. Cardinality(Pairs) \in Nat
  BY <1>1, FS_CardinalityType
<1> QED BY <1>2, <1>3, <1>5, <1>6, RoomAssumption, BoundAssumption

(* While servers start one after the other and nothing fails: no two are    *)
(* starting, no two connections join the same servers, and two servers that *)
(* have started are connected or about to be.                               *)
Smooth == ~overlapped /\ failures = 0
AboutToBe(s, t) == \/ t \in toDial[s] \/ s \in toDial[t]
                   \/ \E i \in Link : Add(i) \in calls[s] /\ by[i] = t
OneByOne ==
  /\ \A i \in Link : link[i] # "down"
  /\ \A s, t \in Server : status[s] = "starting" /\ status[t] = "starting" => s = t
  /\ status[Seed] = "off" => \A s \in Server : status[s] = "off"
  /\ \A s \in Server, i \in Link : status[s] = "off" /\ Used(i) => s \notin EndsOf(i)
  /\ \A i, j \in Link : Used(i) /\ Used(j) /\ i # j => EndsOf(i) # EndsOf(j)
  /\ \A s \in Server : \A t \in toDial[s] : \A i \in Link : Used(i) => EndsOf(i) # {s, t}
  /\ \A s, t \in Server : (s # t /\ status[s] # "off" /\ status[t] # "off") =>
       serverPeers[s][t] # 0 \/ AboutToBe(s, t)

(* What was not smooth stays so, and a failure is not smooth.               *)
LEMMA SmoothBefore ==
  ASSUME PInv, Next, Smooth'
  PROVE  /\ Smooth
         /\ \E s \in Server : \/ Start(s) \/ Starting(s)
                              \/ \E i \in Link : HandleAdd(s, i) \/ HandleDel(s, i)
<1>0. failures \in Nat
  BY BoundAssumption DEF PInv, TypeOK
<1>1. ASSUME Fails PROVE FALSE
  BY <1>0, <1>1 DEF Fails, Smooth
<1>2. /\ \A i \in Link : ~Break(i)
      /\ \A s \in Server : ~Stop(s)
  BY <1>1 DEF Break, Stop
<1>3. ASSUME NEW s \in Server,
             Start(s) \/ Starting(s) \/ \E i \in Link : HandleAdd(s, i) \/ HandleDel(s, i)
      PROVE  failures' = failures /\ (overlapped => overlapped')
  <2>1. CASE Start(s)
    <3>1. /\ failures' = failures
          /\ overlapped' = (overlapped \/ Joining \/ (s # Seed /\ status[Seed] # "running"))
      BY <2>1 DEF Start
    <3> QED BY <3>1, Zenon
  <2>2. CASE Starting(s)
    <3>1. failures' = failures /\ overlapped' = overlapped
      BY <2>2 DEF Starting, Dial, StartHandlers
    <3> QED BY <3>1, Zenon
  <2>3. ASSUME NEW i \in Link, HandleAdd(s, i) \/ HandleDel(s, i)
        PROVE  failures' = failures /\ (overlapped => overlapped')
    <3>1. failures' = failures /\ overlapped' = overlapped
      BY <2>3 DEF HandleAdd, HandleDel
    <3> QED BY <3>1, Zenon
  <2> QED BY <1>3, <2>1, <2>2, <2>3
<1> QED BY <1>2, <1>3 DEF Next, Handler, Smooth

(* A server that starts asks a seed that knows all the others.              *)
LEMMA StartOneByOne ==
  ASSUME PInv, OneByOne, Smooth', NEW s \in Server, Start(s)
  PROVE  OneByOne'
<1>1. /\ ~Joining /\ (s # Seed => status[Seed] = "running")
      /\ status[s] = "off" /\ status' = [status EXCEPT ![s] = "starting"]
      /\ toDial' = [toDial EXCEPT ![s] =
           IF s # Seed /\ status[Seed] = "running" THEN KnownToSeed(s) ELSE {}]
      /\ UNCHANGED <<serverPeers, by, to, link, calls>>
  BY DEF Start, Smooth
<1>2. \A u \in Server : status[u] # "starting" /\ calls[u] = {} /\ toDial[u] = {}
  BY <1>1 DEF Joining, PInv, Places
<1>3. \A u \in Server : status'[u] = IF u = s THEN "starting" ELSE status[u]
  BY <1>1 DEF PInv, TypeOK
<1>4. \A u \in Server : u # s => toDial'[u] = {}
  BY <1>1, <1>2 DEF PInv, TypeOK
<1>5. ASSUME NEW t \in Server, t # s, status[t] # "off" PROVE t \in toDial'[s]
  <2>1. s # Seed /\ status[Seed] = "running"
    BY <1>1, <1>5, SeedAssumption DEF OneByOne
  <2>2. toDial'[s] = KnownToSeed(s)
    BY <1>1, <2>1 DEF PInv, TypeOK
  <2>3. t = Seed \/ serverPeers[Seed][t] # 0
    BY <1>2, <1>5, <2>1, SeedAssumption DEF OneByOne, AboutToBe
  <2> QED BY <1>5, <2>2, <2>3 DEF KnownToSeed
<1>6. \A u, v \in Server : (u # v /\ status'[u] # "off" /\ status'[v] # "off") =>
        serverPeers'[u][v] # 0 \/ AboutToBe(u, v)'
  <2> SUFFICES ASSUME NEW u \in Server, NEW v \in Server, u # v, status'[u] # "off",
                      status'[v] # "off"
               PROVE  serverPeers'[u][v] # 0 \/ AboutToBe(u, v)'
    OBVIOUS
  <2>1. CASE u = s \/ v = s
    BY <1>3, <1>5, <2>1 DEF AboutToBe
  <2>2. CASE u # s /\ v # s
    <3>1. serverPeers[u][v] # 0 \/ AboutToBe(u, v)
      BY <1>3, <2>2 DEF OneByOne
    <3> QED BY <1>1, <1>2, <3>1 DEF AboutToBe
  <2> QED BY <2>1, <2>2
<1>7. \A u \in Server : \A t \in toDial'[u] : \A i \in Link : Used(i) => EndsOf(i) # {u, t}
  BY <1>1, <1>4 DEF OneByOne, EndsOf
<1>8. \A u \in Server, i \in Link : status'[u] = "off" /\ Used(i) => u \notin EndsOf(i)
  BY <1>3 DEF OneByOne
<1>9. status'[Seed] = "off" => \A u \in Server : status'[u] = "off"
  BY <1>1, <1>3, SeedAssumption DEF OneByOne
<1>10. \A u, v \in Server : status'[u] = "starting" /\ status'[v] = "starting" => u = v
  BY <1>2, <1>3
<1>11. /\ \A i \in Link : link'[i] # "down"
       /\ \A i, j \in Link : Used(i)' /\ Used(j)' /\ i # j => EndsOf(i)' # EndsOf(j)'
       /\ \A i \in Link : Used(i)' = Used(i) /\ EndsOf(i)' = EndsOf(i)
  BY <1>1 DEF OneByOne, Used, EndsOf
<1> QED BY <1>6, <1>7, <1>8, <1>9, <1>10, <1>11 DEF OneByOne

(* A dial uses a connection that is left, and there is one.                 *)
LEMMA DialOneByOne ==
  ASSUME PInv, OneByOne, NEW s \in Server, NEW t \in Server, Dial(s, t)
  PROVE  OneByOne'
<1>1. /\ t \in toDial[s] /\ toDial' = [toDial EXCEPT ![s] = @ \ {t}]
      /\ status' = status /\ s # t
  BY DialForm DEF Dial
<1>2. \A u, v \in Server : v \in toDial'[u] <=> v \in toDial[u] /\ ~(u = s /\ v = t)
  BY <1>1 DEF PInv, TypeOK
<1>3. CASE /\ UNCHANGED <<serverPeers, by, to, link, calls>>
           /\ status[t] = "off"
  <2>1. \A i \in Link : Used(i)' = Used(i) /\ EndsOf(i)' = EndsOf(i) /\ link'[i] = link[i]
    BY <1>3 DEF Used, EndsOf
  <2>2. ASSUME NEW u \in Server, NEW v \in Server, u # v, status'[u] # "off",
               status'[v] # "off"
        PROVE  serverPeers'[u][v] # 0 \/ AboutToBe(u, v)'
    <3>1. serverPeers[u][v] # 0 \/ AboutToBe(u, v)
      BY <1>1, <2>2 DEF OneByOne
    <3> QED BY <1>1, <1>2, <1>3, <2>2, <3>1 DEF AboutToBe
  <2>3. \A u \in Server : \A v \in toDial'[u] : \A i \in Link : Used(i)' => EndsOf(i)' # {u, v}
    <3>1. \A u \in Server : toDial'[u] \subseteq toDial[u]
      BY <1>1 DEF PInv, TypeOK
    <3> QED BY <2>1, <3>1 DEF OneByOne
  <2> QED BY <1>1, <2>1, <2>2, <2>3 DEF OneByOne
<1>4. ASSUME NEW i \in Link, link[i] = "none", link' = [link EXCEPT ![i] = "up"],
             status[t] # "off",
             by' = [by EXCEPT ![i] = s], to' = [to EXCEPT ![i] = t],
             serverPeers' = [serverPeers EXCEPT ![s][t] = i],
             calls' = [calls EXCEPT ![t] = @ \cup {Add(i)}]
      PROVE  OneByOne'
  <2>1. /\ Used(i)' /\ EndsOf(i)' = {s, t} /\ link'[i] = "up" /\ by'[i] = s
        /\ \A j \in Link : j # i => /\ Used(j)' = Used(j) /\ EndsOf(j)' = EndsOf(j)
                                    /\ link'[j] = link[j] /\ by'[j] = by[j]
    BY <1>4 DEF PInv, TypeOK, Used, EndsOf
  <2>2. /\ serverPeers'[s][t] # 0
        /\ \A u, v \in Server : serverPeers[u][v] # 0 => serverPeers'[u][v] # 0
    BY <1>4, Packets DEF PInv, TypeOK
  <2>3. /\ Add(i) \in calls'[t]
        /\ \A u \in Server : calls[u] \subseteq calls'[u]
    BY <1>4 DEF PInv, TypeOK
  <2>4. ASSUME NEW u \in Server, NEW v \in Server, u # v, status'[u] # "off",
               status'[v] # "off"
        PROVE  serverPeers'[u][v] # 0 \/ AboutToBe(u, v)'
    <3>1. serverPeers[u][v] # 0 \/ AboutToBe(u, v)
      BY <1>1, <2>4 DEF OneByOne
    <3>2. CASE u = s /\ v = t
      BY <2>2, <3>2
    <3>3. CASE u = t /\ v = s
      BY <2>1, <2>3, <3>3 DEF AboutToBe
    <3>4. CASE ~(u = s /\ v = t) /\ ~(u = t /\ v = s)
      <4>1. ASSUME NEW j \in Link, Add(j) \in calls[u], by[j] = v PROVE AboutToBe(u, v)'
        <5>1. j # i
          BY <1>4, <4>1 DEF PInv, Places, Used
        <5> QED BY <2>1, <2>3, <4>1, <5>1 DEF AboutToBe
      <4> QED BY <1>2, <2>2, <3>1, <3>4, <4>1 DEF AboutToBe
    <3> QED BY <3>2, <3>3, <3>4
  <2>5. ASSUME NEW u \in Server, NEW v \in toDial'[u], NEW j \in Link, Used(j)'
        PROVE  EndsOf(j)' # {u, v}
    <3>1. v \in toDial[u] /\ ~(u = s /\ v = t) /\ v \in Server /\ u # v
      <4>1. toDial'[u] \subseteq toDial[u] /\ toDial[u] \subseteq Server \ {u}
        BY <1>1 DEF PInv, TypeOK, Places
      <4>2. v \in Server /\ u # v
        BY <2>5, <4>1
      <4> QED BY <1>2, <2>5, <4>2
    <3>2. CASE j = i
      <4>1. u = s
        BY <1>1, <3>1 DEF OneByOne, PInv, Places
      <4> QED BY <2>1, <3>1, <3>2, <4>1
    <3>3. CASE j # i
      BY <2>1, <2>5, <3>1, <3>3 DEF OneByOne
    <3> QED BY <3>2, <3>3
  <2>6. \A j \in Link : j # i /\ Used(j) => EndsOf(j) # {s, t}
    BY <1>1 DEF OneByOne
  <2>7. \A j, k \in Link : Used(j)' /\ Used(k)' /\ j # k => EndsOf(j)' # EndsOf(k)'
    BY <2>1, <2>6 DEF OneByOne
  <2>8. status[s] # "off"
    BY <1>1 DEF PInv, Places
  <2>9. \A u \in Server, j \in Link : status'[u] = "off" /\ Used(j)' => u \notin EndsOf(j)'
    BY <1>1, <1>4, <2>1, <2>8 DEF OneByOne
  <2>10. \A j \in Link : link'[j] # "down"
    BY <2>1 DEF OneByOne
  <2>11. /\ \A u, v \in Server : status'[u] = "starting" /\ status'[v] = "starting" => u = v
         /\ status'[Seed] = "off" => \A u \in Server : status'[u] = "off"
    BY <1>1 DEF OneByOne
  <2> QED BY <2>4, <2>5, <2>7, <2>9, <2>10, <2>11 DEF OneByOne
<1>5. ASSUME \A i \in Link : link[i] # "none" PROVE FALSE
  <2> PICK f : f = [i \in Link |-> EndsOf(i)]
    OBVIOUS
  <2>1. f \in [Link -> Pairs]
    <3>1. \A i \in Link : by[i] \in Server /\ to[i] \in Server /\ by[i] # to[i]
      BY <1>5 DEF PInv, TypeOK, Places, Used
    <3> QED BY <3>1 DEF Pairs, EndsOf
  <2>2. \A i, j \in Link : i # j => f[i] # f[j]
    BY <1>5 DEF OneByOne, Used
  <2>3. {s, t} \in Pairs
    BY <1>1 DEF Pairs
  <2>4. PICK i \in Link : f[i] = {s, t}
    BY <2>1, <2>2, <2>3, Room
  <2> QED BY <1>1, <1>5, <2>4 DEF OneByOne, Used
<1>6. \/ UNCHANGED <<serverPeers, by, to, link, calls>> /\ status[t] = "off"
      \/ /\ status[t] # "off"
         /\ \E i \in Link :
              /\ link[i] = "none" /\ link' = [link EXCEPT ![i] = "up"]
              /\ by' = [by EXCEPT ![i] = s] /\ to' = [to EXCEPT ![i] = t]
              /\ serverPeers' = [serverPeers EXCEPT ![s][t] = i]
              /\ calls' = [calls EXCEPT ![t] = @ \cup {Add(i)}]
  BY <1>5 DEF Dial, Dialled
<1> QED BY <1>3, <1>4, <1>6

(* A handler registers what it is told of.                                  *)
LEMMA HandlerOneByOne ==
  ASSUME PInv, OneByOne, NEW s \in Server,
         StartHandlers(s) \/ \E i \in Link : HandleAdd(s, i) \/ HandleDel(s, i)
  PROVE  OneByOne'
<1>1. CASE StartHandlers(s)
  <2>1. /\ toDial[s] = {} /\ status[s] = "starting"
        /\ UNCHANGED <<toDial, serverPeers, by, to, link, calls>>
        /\ \A u \in Server : status'[u] = IF u = s THEN "running" ELSE status[u]
    BY <1>1 DEF StartHandlers, PInv, TypeOK
  <2>2. \A i \in Link : Used(i)' = Used(i) /\ EndsOf(i)' = EndsOf(i)
    BY <2>1 DEF Used, EndsOf
  <2>3. \A u, v \in Server : AboutToBe(u, v)' = AboutToBe(u, v)
    BY <2>1 DEF AboutToBe
  <2> QED BY <2>1, <2>2, <2>3, SeedAssumption DEF OneByOne
<1>2. ASSUME NEW i \in Link, HandleAdd(s, i) PROVE OneByOne'
  <2>1. /\ Add(i) \in calls[s] /\ UNCHANGED <<status, toDial, by, to, link>>
        /\ calls' = [calls EXCEPT ![s] = @ \ {Add(i)}]
        /\ serverPeers' = [serverPeers EXCEPT ![s][by[i]] = i]
    BY <1>2 DEF HandleAdd, Registered
  <2>2. \A j \in Link : Used(j)' = Used(j) /\ EndsOf(j)' = EndsOf(j)
    BY <2>1 DEF Used, EndsOf
  <2>3. \A u, v \in Server :
          serverPeers'[u][v] = IF u = s /\ v = by[i] THEN i ELSE serverPeers[u][v]
    BY <2>1 DEF PInv, TypeOK
  <2>4. ASSUME NEW u \in Server, NEW v \in Server, u # v, status'[u] # "off",
               status'[v] # "off"
        PROVE  serverPeers'[u][v] # 0 \/ AboutToBe(u, v)'
    <3>1. serverPeers[u][v] # 0 \/ AboutToBe(u, v)
      BY <2>1, <2>4 DEF OneByOne
    <3>2. ASSUME NEW j \in Link, Add(j) \in calls[u], by[j] = v, ~(u = s /\ v = by[i])
          PROVE  AboutToBe(u, v)'
      <4>1. Add(j) \in calls'[u]
        BY <2>1, <3>2, Packets DEF PInv, TypeOK
      <4> QED BY <2>1, <3>2, <4>1 DEF AboutToBe
    <3>3. CASE u = s /\ v = by[i]
      BY <2>3, <3>3, Packets
    <3>4. CASE ~(u = s /\ v = by[i])
      BY <2>1, <2>3, <3>1, <3>2, <3>4 DEF AboutToBe
    <3> QED BY <3>3, <3>4
  <2> QED BY <2>1, <2>2, <2>4 DEF OneByOne
<1>3. ASSUME NEW i \in Link, HandleDel(s, i) PROVE FALSE
  BY <1>3 DEF HandleDel, PInv, Places, OneByOne
<1> QED BY <1>1, <1>2, <1>3

(* When servers start one after the other and nothing fails, everybody has  *)
(* a connection to everybody once all is handled.                           *)
THEOREM MembershipMesh == Spec => []MeshWhenOneByOne
<1> DEFINE Inv == Smooth => OneByOne
<1>1. Init => Inv
  BY DEF Init, OneByOne, Used
<1>2. PInv /\ Inv /\ [Next]_vars => Inv'
  <2>1. ASSUME PInv, Inv, UNCHANGED vars PROVE Inv'
    BY <2>1 DEF vars, Smooth, OneByOne, Used, EndsOf, AboutToBe
  <2>2. ASSUME PInv, Inv, Next, Smooth' PROVE OneByOne'
    BY <2>2, SmoothBefore, StartOneByOne, DialOneByOne, HandlerOneByOne DEF Starting
  <2> QED BY <2>1, <2>2
<1>3. PInv /\ Inv => MeshWhenOneByOne
  <2> SUFFICES ASSUME PInv, OneByOne, Quiet PROVE Mesh
    BY DEF MeshWhenOneByOne, Smooth
  <2> SUFFICES ASSUME NEW s \in Server, NEW t \in Server, s # t,
                      status[s] = "running", status[t] = "running"
               PROVE  serverPeers[s][t] # 0 /\ link[serverPeers[s][t]] = "up"
    BY DEF Mesh
  <2>1. ~AboutToBe(s, t)
    BY DEF AboutToBe, Quiet, PInv, Places
  <2>2. serverPeers[s][t] # 0
    BY <2>1 DEF OneByOne
  <2>3. PICK i \in Link : i = serverPeers[s][t]
    BY <2>2 DEF PInv, TypeOK
  <2>4. link[i] # "none" /\ link[i] # "down" /\ link[i] \in {"none", "up", "down"}
    BY <2>3 DEF PInv, TypeOK, OneByOne
  <2> QED BY <2>2, <2>3, <2>4
<1> QED BY <1>1, <1>2, <1>3, PInvHolds, PTL DEF Spec
-----------------------------------------------------------------------------
(* The end of a connection is still to be handled where the connection is   *)
(* in the map or waits to be registered, unless it was handled early.       *)
EndedIsHandled ==
  \A s \in Server, i \in Link :
    (link[i] = "down" /\ (Add(i) \in calls[s] \/ \E t \in Server : serverPeers[s][t] = i))
      => Del(i) \in calls[s] \/ <<s, i>> \in early

(* Connections go down, and tell both ends, or the end stops.               *)
LEMMA DownHandled ==
  ASSUME PInv, EndedIsHandled, NEW lost \in SUBSET Link, NEW gone \in SUBSET Server,
         \A i \in Link : link'[i] = "down" => link[i] = "down" \/ i \in lost,
         \A s \in gone : calls'[s] = {} /\ \A t \in Server : serverPeers'[s][t] = 0,
         \A s \in Server \ gone : /\ calls'[s] = Ends(lost)[s]
                                  /\ \A t \in Server : serverPeers'[s][t] = serverPeers[s][t],
         early' = early
  PROVE  EndedIsHandled'
<1> SUFFICES ASSUME NEW s \in Server, NEW i \in Link, link'[i] = "down",
                    Add(i) \in calls'[s] \/ \E t \in Server : serverPeers'[s][t] = i
             PROVE  Del(i) \in calls'[s] \/ <<s, i>> \in early'
  BY DEF EndedIsHandled
<1>1. s \notin gone
  BY Packets
<1>2. Add(i) \in calls[s] \/ \E t \in Server : serverPeers[s][t] = i
  BY <1>1, EndsCalls
<1>3. CASE i \in lost
  <2>1. s \in EndsOf(i)
    BY <1>2 DEF PInv, Places, EndsOf
  <2> QED BY <1>1, <1>3, <2>1, EndsCalls
<1>4. CASE link[i] = "down"
  BY <1>1, <1>2, <1>4, EndsCalls DEF EndedIsHandled
<1> QED BY <1>3, <1>4

(* Whoever registers a connection, or forgets one, leaves no end unhandled. *)
LEMMA HandlerHandled ==
  ASSUME PInv, EndedIsHandled, NEW u \in Server, NEW k \in Link,
         HandleAdd(u, k) \/ HandleDel(u, k)
  PROVE  EndedIsHandled'
<1> SUFFICES ASSUME NEW s \in Server, NEW i \in Link, link'[i] = "down",
                    Add(i) \in calls'[s] \/ \E t \in Server : serverPeers'[s][t] = i
             PROVE  Del(i) \in calls'[s] \/ <<s, i>> \in early'
  BY DEF EndedIsHandled
<1>1. CASE HandleAdd(u, k)
  <2>1. /\ Add(k) \in calls[u] /\ UNCHANGED <<link, early>>
        /\ calls' = [calls EXCEPT ![u] = @ \ {Add(k)}]
        /\ serverPeers' = [serverPeers EXCEPT ![u][by[k]] = k]
    BY <1>1 DEF HandleAdd, Registered
  <2>2. Add(i) \in calls[s] \/ \E t \in Server : serverPeers[s][t] = i
    <3>1. ASSUME NEW t \in Server, serverPeers'[s][t] = i
          PROVE  serverPeers[s][t] = i \/ (s = u /\ i = k)
      BY <2>1, <3>1 DEF PInv, TypeOK
    <3>2. Add(i) \in calls'[s] => Add(i) \in calls[s]
      BY <2>1 DEF PInv, TypeOK
    <3> QED BY <2>1, <3>1, <3>2
  <2>3. Del(i) \in calls[s] \/ <<s, i>> \in early
    BY <2>1, <2>2 DEF EndedIsHandled
  <2> QED BY <2>1, <2>3, Packets DEF PInv, TypeOK
<1>2. CASE HandleDel(u, k)
  <2>1. /\ UNCHANGED link /\ calls' = [calls EXCEPT ![u] = @ \ {Del(k)}]
        /\ serverPeers' = [serverPeers EXCEPT ![u][OtherEnd(u, k)] = 0]
        /\ early \subseteq early'
        /\ Add(k) \in calls[u] => <<u, k>> \in early'
    BY <1>2 DEF HandleDel, Removed
  <2>2. /\ Add(i) \in calls'[s] => Add(i) \in calls[s]
        /\ \A t \in Server : serverPeers'[s][t] = i =>
              serverPeers[s][t] = i /\ ~(s = u /\ t = OtherEnd(u, k))
    BY <2>1, Packets DEF PInv, TypeOK
  <2>3. Del(i) \in calls[s] \/ <<s, i>> \in early
    BY <2>1, <2>2 DEF EndedIsHandled
  <2>4. CASE s = u /\ i = k
    <3>1. \A t \in Server : serverPeers[s][t] = i => OtherEnd(s, i) = t
      BY DEF PInv, TypeOK
    <3> QED BY <2>1, <2>2, <2>4, <3>1
  <2>5. CASE ~(s = u /\ i = k)
    BY <2>1, <2>3, <2>5, Packets DEF PInv, TypeOK
  <2> QED BY <2>4, <2>5
<1> QED BY <1>1, <1>2

(* A connection that has ended and is in a server's map is about to leave   *)
(* it, whatever starts, stops or breaks: its end is still to be handled,    *)
(* except where that was handled ahead of the registration.                 *)
THEOREM MembershipEndsHandled == Spec => []EndedIsHandled
<1>1. Init => EndedIsHandled
  BY DEF Init, EndedIsHandled
<1>2. ASSUME PInv, EndedIsHandled, Next PROVE EndedIsHandled'
  <2>1. ASSUME NEW s \in Server, Start(s) \/ StartHandlers(s) PROVE EndedIsHandled'
    BY <1>2, <2>1 DEF Start, StartHandlers, EndedIsHandled
  <2>2. ASSUME NEW s \in Server, NEW t \in Server, Dial(s, t) PROVE EndedIsHandled'
    <3>0. early' = early
      BY <2>2 DEF Dial
    <3>1. CASE UNCHANGED <<serverPeers, link, calls>>
      BY <1>2, <3>0, <3>1 DEF EndedIsHandled
    <3>2. ASSUME NEW i \in Link, link[i] = "none", link' = [link EXCEPT ![i] = "up"],
                 serverPeers' = [serverPeers EXCEPT ![s][t] = i],
                 calls' = [calls EXCEPT ![t] = @ \cup {Add(i)}]
          PROVE  EndedIsHandled'
      <4>1. \A j \in Link : link'[j] = "down" => j # i /\ link[j] = "down"
        BY <1>2, <3>2 DEF PInv, TypeOK
      <4>2. \A u \in Server : /\ \A j \in Link : j # i /\ Add(j) \in calls'[u] => Add(j) \in calls[u]
                              /\ calls[u] \subseteq calls'[u]
                              /\ \A v \in Server, j \in Link :
                                   j # i /\ serverPeers'[u][v] = j => serverPeers[u][v] = j
        BY <1>2, <3>2, Packets DEF PInv, TypeOK
      <4> QED BY <1>2, <3>0, <4>1, <4>2 DEF EndedIsHandled
    <3> QED BY <1>2, <2>2, <3>1, <3>2, DialForm
  <2>3. ASSUME NEW i \in Link, Break(i) PROVE EndedIsHandled'
    <3>1. /\ calls' = Ends({i}) /\ UNCHANGED <<serverPeers, early>>
          /\ \A j \in Link : link'[j] = "down" => link[j] = "down" \/ j \in {i}
      BY <1>2, <2>3 DEF Break, PInv, TypeOK
    <3>2. /\ \A s \in {} : calls'[s] = {} /\ \A t \in Server : serverPeers'[s][t] = 0
          /\ \A s \in Server \ {} : /\ calls'[s] = Ends({i})[s]
               /\ \A t \in Server : serverPeers'[s][t] = serverPeers[s][t]
      BY <3>1
    <3>3. {i} \in SUBSET Link /\ {} \in SUBSET Server
      OBVIOUS
    <3> QED BY <1>2, <3>1, <3>2, <3>3, DownHandled
  <2>4. ASSUME NEW s \in Server, Stop(s) PROVE EndedIsHandled'
    <3> DEFINE lost == {i \in Link : link[i] = "up" /\ s \in {by[i], to[i]}}
    <3>1. /\ serverPeers' = [serverPeers EXCEPT ![s] = [t \in Server |-> 0]]
          /\ link' = [i \in Link |-> IF i \in lost THEN "down" ELSE link[i]]
          /\ calls' = [Ends(lost) EXCEPT ![s] = {}] /\ early' = early
      BY <2>4 DEF Stop
    <3>2. PICK gone \in SUBSET Link : gone = lost
      OBVIOUS
    <3>3. Ends(gone) = Ends(lost) /\ Ends(gone) \in [Server -> SUBSET Packet]
      BY <1>2, <3>2, EndsCalls
    <3>4. /\ \A u \in {s} : calls'[u] = {} /\ \A t \in Server : serverPeers'[u][t] = 0
          /\ \A u \in Server \ {s} : /\ calls'[u] = Ends(gone)[u]
               /\ \A t \in Server : serverPeers'[u][t] = serverPeers[u][t]
      <4> HIDE DEF lost
      <4> QED BY <1>2, <3>1, <3>3 DEF PInv, TypeOK
    <3>5. \A i \in Link : link'[i] = "down" => link[i] = "down" \/ i \in gone
      BY <3>1, <3>2
    <3>6. {s} \in SUBSET Server /\ early' = early
      BY <3>1
    <3> HIDE DEF lost
    <3> QED BY <1>2, <3>4, <3>5, <3>6, DownHandled
  <2> QED BY <1>2, <2>1, <2>2, <2>3, <2>4, HandlerHandled DEF Next, Starting, Handler
<1>3. ASSUME EndedIsHandled, UNCHANGED vars PROVE EndedIsHandled'
  BY <1>3 DEF vars, EndedIsHandled
<1> QED BY <1>1, <1>2, <1>3, PInvHolds, PTL DEF Spec
=============================================================================
