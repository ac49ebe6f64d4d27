--------------------------- MODULE HubQueueProofs ---------------------------
(***************************************************************************)
(* Proofs about HubQueue, for any callers, packets sent back and packets    *)
(* refused.                                                                 *)
(***************************************************************************)
EXTENDS HubQueue, ChannelFacts

(* What a packet is.                                                        *)
LEMMA Packets ==
  /\ \A c \in Caller, n \in Nat : n <= SelfSends[c] => PacketOf(c, n) \in Packet
  /\ \A m \in Packet : /\ m.by \in Caller /\ m.n \in Nat /\ m.n <= SelfSends[m.by]
                       /\ m = PacketOf(m.by, m.n)
                       /\ SendsOf(m) \in Nat /\ SendsOf(m) <= SelfSends[m.by]
<1>1. ASSUME NEW c \in Caller, NEW n \in Nat, n <= SelfSends[c]
      PROVE  PacketOf(c, n) \in Packet
  <2>1. n \in 0..SelfSends[c]
    BY <1>1, SelfSendsAssumption
  <2> QED BY <2>1 DEF Packet
<1>2. ASSUME NEW m \in Packet
      PROVE  /\ m.by \in Caller /\ m.n \in Nat /\ m.n <= SelfSends[m.by]
             /\ m = PacketOf(m.by, m.n)
             /\ SendsOf(m) \in Nat /\ SendsOf(m) <= SelfSends[m.by]
  <2>1. PICK c \in Caller : \E n \in 0..SelfSends[c] : m = PacketOf(c, n)
    BY DEF Packet
  <2>2. PICK n \in 0..SelfSends[c] : m = PacketOf(c, n)
    BY <2>1
  <2>3. SelfSends[c] \in Nat
    BY SelfSendsAssumption
  <2>4. m.by = c /\ m.n = n
    BY <2>2 DEF PacketOf
  <2> QED BY <2>2, <2>3, <2>4 DEF SendsOf
<1> QED BY <1>1, <1>2

IInv == TypeOK /\ TokenInv

(* The hub starts with the invariant.                                       *)
LEMMA InitInv == Init => IInv
<1> SUFFICES ASSUME Init PROVE IInv
  OBVIOUS
<1>1. <<>> \in Seq(Packet) /\ Len(<<>>) = 0
  BY EmptySeq
<1>2. call \in [Caller -> {"idle", "enqueue", "wait", "answered"}]
  BY DEF Init
<1>3. waiting \in BOOLEAN
  BY Zenon DEF Init
<1>4. TypeOK
  BY <1>1, <1>2, <1>3 DEF Init, TypeOK
<1>5. TokenInv
  BY <1>1 DEF Init, TokenInv, Offered
<1> QED BY <1>4, <1>5 DEF IInv

(* No step of a caller or of the hub's goroutines leaves the types.         *)
LEMMA TypeInv == ASSUME IInv, Next PROVE TypeOK'
<1> USE DEF TypeOK, IInv
<1>1. ASSUME NEW c \in Caller, Arrive(c) PROVE TypeOK'
  BY <1>1 DEF Arrive, queueing, handling
<1>2. ASSUME NEW c \in Caller, Enqueue(c) PROVE TypeOK'
  <2>1. PacketOf(c, 0) \in Packet
    BY Packets, SelfSendsAssumption
  <2> QED BY <1>2, <2>1, Single DEF Enqueue, queueing, handling
<1>3. CASE QueueTake
  BY <1>3, EmptySeq DEF QueueTake, handling
<1>4. CASE QueueLog
  BY <1>4 DEF QueueLog, LogFailure, handling
<1>5. CASE QueueRefuse
  <2>1. Head(taken) \in Packet /\ Head(taken).by \in Caller
    BY <1>5, Split, Packets DEF QueueRefuse
  <2> QED BY <1>5, <2>1, EmptySeq DEF QueueRefuse, handling
<1>6. CASE QueueAppend
  <2>1. taken # <<>> /\ Head(taken) \in Packet
    BY <1>6, Split DEF QueueAppend
  <2>2. CASE ~waiting
    BY <1>6, <2>1, <2>2 DEF QueueAppend, QueuePacket, handling
  <2>3. CASE waiting
    <3>1. Append(pendingMsgs, Head(taken)) \in Seq(Packet)
      BY <2>1
    <3>2. /\ pendingMsgs' = Append(pendingMsgs, Head(taken)) /\ taken' = <<>>
          /\ queuer' = "select" /\ UNCHANGED waiting
      BY <1>6, <2>3 DEF QueueAppend, QueuePacket
    <3> QED BY <1>6, <3>1, <3>2, EmptySeq DEF QueueAppend, handling
  <2> QED BY <2>2, <2>3
<1>7. CASE QueueOffer
  BY <1>7, EmptySeq DEF QueueOffer, handling
<1>8. CASE QueueNext
  <2>1. CASE pendingMsgs = <<>>
    <3>1. waiting' \in BOOLEAN
      BY <1>8, <2>1, Zenon DEF QueueNext, NextPending
    <3>2. UNCHANGED <<pendingMsgs, queuer, taken>>
      BY <1>8, <2>1 DEF QueueNext, NextPending
    <3> QED BY <1>8, <3>1, <3>2 DEF QueueNext, handling
  <2>2. CASE NextPending
    <3>1. /\ Tail(pendingMsgs) \in Seq(Packet)
          /\ <<Head(pendingMsgs)>> \in Seq(Packet)
          /\ Len(<<Head(pendingMsgs)>>) = 1 /\ <<Head(pendingMsgs)>> # <<>>
      BY <2>2, Split, Single DEF NextPending
    <3> QED BY <1>8, <2>2, <3>1 DEF QueueNext, NextPending, handling
  <2> QED BY <1>8, <2>1, <2>2 DEF QueueNext
<1>9. CASE HandlerTake
  <2>1. Head(packetRelay) \in Packet
    BY <1>9, Split DEF HandlerTake
  <2> QED BY <1>9, <2>1, Packets, EmptySeq DEF HandlerTake, queueing
<1>10. CASE HandlerSelfSend
  <2>1. current # <<>> /\ Head(current) \in Packet
    BY <1>10, Split DEF HandlerSelfSend
  <2>2. PacketOf(Head(current).by, sends + 1) \in Packet
        /\ sends + 1 <= SendsOf(Head(current))
    BY <1>10, <2>1, Packets, SelfSendsAssumption DEF HandlerSelfSend
  <2> QED BY <1>10, <2>1, <2>2, Single DEF HandlerSelfSend, queueing
<1>11. CASE HandlerReply
  <2>1. Head(current) \in Packet /\ Head(current).by \in Caller
    BY <1>11, Split, Packets DEF HandlerReply
  <2> QED BY <1>11, <2>1 DEF HandlerReply, queueing
<1>12. CASE HandlerDone
  <2>1. Head(current) \in Packet
    BY <1>12, Split DEF HandlerDone
  <2> QED BY <1>12, <2>1, EmptySeq DEF HandlerDone, queueing
<1>13. CASE HandlerHangs
  BY <1>13 DEF HandlerHangs, queueing
<1> QED
  BY <1>1, <1>2, <1>3, <1>4, <1>5, <1>6, <1>7, <1>8, <1>9, <1>10, <1>11,
     <1>12, <1>13 DEF Next, Queuer, Handler

(* Every step keeps the one token between packetQueueHandler and            *)
(* packetHandler.                                                           *)
LEMMA TokenStep == ASSUME IInv, Next PROVE TokenInv'
<1> USE EmptySeq DEF IInv, TokenInv, Offered
<1>1. TypeOK /\ TypeOK'
  BY TypeInv
<1>2. ASSUME NEW c \in Caller, Arrive(c) \/ Enqueue(c) PROVE TokenInv'
  BY <1>2 DEF Arrive, Enqueue, queueing, handling
<1>3. CASE QueueTake
  BY <1>1, <1>3 DEF QueueTake, handling, TypeOK
<1>4. CASE QueueLog
  BY <1>1, <1>4 DEF QueueLog, LogFailure, handling, TypeOK
<1>5. CASE QueueRefuse
  BY <1>1, <1>5 DEF QueueRefuse, handling, TypeOK
<1>6. CASE QueueAppend
  <2>1. taken # <<>> /\ Len(taken) = 1
    <3>1. taken \in Seq(Packet) /\ taken # <<>> /\ Len(taken) <= 1
      BY <1>1, <1>6 DEF QueueAppend, TypeOK
    <3> QED BY <3>1, Split
  <2>2. CASE ~waiting
    BY <1>1, <1>6, <2>1, <2>2 DEF QueueAppend, QueuePacket, handling, TypeOK
  <2>3. CASE waiting
    BY <1>1, <1>6, <2>1, <2>3 DEF QueueAppend, QueuePacket, handling, TypeOK
  <2> QED BY <2>2, <2>3
<1>7. CASE QueueOffer
  BY <1>1, <1>7 DEF QueueOffer, handling, TypeOK
<1>8. CASE QueueNext
  <2>1. CASE pendingMsgs = <<>>
    BY <1>1, <1>8, <2>1 DEF QueueNext, NextPending, handling, TypeOK
  <2>2. CASE NextPending
    BY <1>1, <1>8, <2>2 DEF QueueNext, NextPending, handling, TypeOK
  <2> QED BY <1>8, <2>1, <2>2 DEF QueueNext
<1>9. CASE HandlerTake
  BY <1>1, <1>9 DEF HandlerTake, queueing, TypeOK
<1>10. CASE HandlerSelfSend \/ HandlerHangs
  BY <1>10 DEF HandlerSelfSend, HandlerHangs, queueing
<1>11. CASE HandlerReply
  BY <1>1, <1>11 DEF HandlerReply, queueing, TypeOK
<1>12. CASE HandlerDone
  BY <1>1, <1>12 DEF HandlerDone, queueing, TypeOK
<1> QED
  BY <1>2, <1>3, <1>4, <1>5, <1>6, <1>7, <1>8, <1>9, <1>10, <1>11, <1>12
     DEF Next, Queuer, Handler

(* The invariant speaks of the hub's variables only.                        *)
LEMMA StutterInv == ASSUME IInv, UNCHANGED vars PROVE IInv'
  BY DEF vars, queueing, handling, IInv, TypeOK, TokenInv, Offered

(* The two invariants of the hub's queue are inductive.                     *)
THEOREM Inductive == Spec => []IInv
<1>1. IInv /\ Next => IInv'
  BY TypeInv, TokenStep DEF IInv
<1> QED BY InitInv, StutterInv, <1>1, PTL DEF Spec

(* Every variable of the hub's queue keeps its type.                        *)
THEOREM HubTypeOK == Spec => []TypeOK
  BY Inductive, PTL DEF IInv

(* Between the two goroutines of the hub there is one token, so that the    *)
(* goroutine that must make room in packetQueue never waits for a handler   *)
(* that sends into it.                                                      *)
THEOREM HubToken == Spec => []TokenInv
  BY Inductive, PTL DEF IInv
-----------------------------------------------------------------------------
(* Where a packet is.                                                       *)
Pending(m) == \E i \in DOMAIN pendingMsgs : pendingMsgs[i] = m
Brought(m) == \/ packetQueue = <<m>> \/ taken = <<m>> \/ packetRelay = <<m>>
              \/ Pending(m) \/ current = <<m>> \/ m \in finished

(* How the list of pending packets changes.                                 *)
LEMMA PendingAppend ==
  ASSUME NEW m \in Packet, pendingMsgs \in Seq(Packet),
         pendingMsgs' = Append(pendingMsgs, m)
  PROVE  \A k : Pending(k)' <=> Pending(k) \/ k = m
<1>1. /\ Len(pendingMsgs) \in Nat /\ DOMAIN pendingMsgs = 1..Len(pendingMsgs)
      /\ DOMAIN pendingMsgs' = 1..Len(pendingMsgs) + 1
      /\ pendingMsgs'[Len(pendingMsgs) + 1] = m
      /\ \A i \in 1..Len(pendingMsgs) : pendingMsgs'[i] = pendingMsgs[i]
  OBVIOUS
<1>2. ASSUME NEW k PROVE Pending(k)' <=> Pending(k) \/ k = m
  BY <1>1 DEF Pending
<1> QED BY <1>2

(* Taking the first leaves the rest.                                        *)
LEMMA PendingTail ==
  ASSUME pendingMsgs \in Seq(Packet), pendingMsgs # <<>>,
         pendingMsgs' = Tail(pendingMsgs)
  PROVE  \A k : Pending(k) <=> Pending(k)' \/ k = Head(pendingMsgs)
<1>1. /\ Len(pendingMsgs) \in Nat \ {0} /\ DOMAIN pendingMsgs = 1..Len(pendingMsgs)
      /\ DOMAIN pendingMsgs' = 1..Len(pendingMsgs) - 1
      /\ pendingMsgs[1] = Head(pendingMsgs)
      /\ \A i \in 1..Len(pendingMsgs) - 1 : pendingMsgs'[i] = pendingMsgs[i + 1]
  BY EmptySeq, HeadTailProperties
<1>2. ASSUME NEW k, Pending(k)' PROVE Pending(k)
  <2>1. PICK i \in 1..Len(pendingMsgs) - 1 : pendingMsgs'[i] = k
    BY <1>1, <1>2 DEF Pending
  <2>2. i + 1 \in DOMAIN pendingMsgs /\ pendingMsgs[i + 1] = k
    BY <1>1, <2>1
  <2> QED BY <2>2 DEF Pending
<1>3. ASSUME NEW k, Pending(k), k # Head(pendingMsgs) PROVE Pending(k)'
  <2>1. PICK i \in 1..Len(pendingMsgs) : pendingMsgs[i] = k
    BY <1>1, <1>3 DEF Pending
  <2>2. i - 1 \in DOMAIN pendingMsgs' /\ pendingMsgs'[i - 1] = k
    BY <1>1, <1>3, <2>1
  <2> QED BY <2>2 DEF Pending
<1>4. Pending(Head(pendingMsgs))
  BY <1>1 DEF Pending
<1> QED BY <1>2, <1>3, <1>4

(* No packet is in the list twice.                                          *)
NoRepeats == \A i, j \in DOMAIN pendingMsgs : pendingMsgs[i] = pendingMsgs[j] => i = j

(* A list without repetitions stays one when a new packet is appended and   *)
(* when the first is taken, which then is not in it any more.               *)
LEMMA NoRepeatsSteps ==
  ASSUME pendingMsgs \in Seq(Packet), NoRepeats
  PROVE  /\ \A m \in Packet :
              ~Pending(m) /\ pendingMsgs' = Append(pendingMsgs, m) => NoRepeats'
         /\ pendingMsgs # <<>> /\ pendingMsgs' = Tail(pendingMsgs) =>
              NoRepeats' /\ \A m : m = Head(pendingMsgs) => ~Pending(m)'
<1>1. ASSUME NEW m \in Packet, ~Pending(m), pendingMsgs' = Append(pendingMsgs, m)
      PROVE  NoRepeats'
  <2>1. /\ Len(pendingMsgs) \in Nat /\ DOMAIN pendingMsgs = 1..Len(pendingMsgs)
        /\ DOMAIN pendingMsgs' = 1..Len(pendingMsgs) + 1
        /\ pendingMsgs'[Len(pendingMsgs) + 1] = m
        /\ \A i \in 1..Len(pendingMsgs) : pendingMsgs'[i] = pendingMsgs[i]
    BY <1>1
  <2> QED BY <1>1, <2>1 DEF NoRepeats, Pending
<1>2. ASSUME pendingMsgs # <<>>, pendingMsgs' = Tail(pendingMsgs)
      PROVE  NoRepeats' /\ \A m : m = Head(pendingMsgs) => ~Pending(m)'
  <2>1. /\ Len(pendingMsgs) \in Nat \ {0} /\ DOMAIN pendingMsgs = 1..Len(pendingMsgs)
        /\ DOMAIN pendingMsgs' = 1..Len(pendingMsgs) - 1
        /\ pendingMsgs[1] = Head(pendingMsgs)
        /\ \A i \in 1..Len(pendingMsgs) - 1 : pendingMsgs'[i] = pendingMsgs[i + 1]
    BY <1>2, EmptySeq, HeadTailProperties
  <2>2. \A i \in 1..Len(pendingMsgs) - 1 :
          i + 1 \in DOMAIN pendingMsgs /\ 1 \in DOMAIN pendingMsgs /\ i + 1 # 1
    BY <2>1
  <2>3. ASSUME NEW m, m = Head(pendingMsgs) PROVE ~Pending(m)'
    BY <2>3, <2>1, <2>2 DEF NoRepeats, Pending
  <2>4. ASSUME NEW i \in DOMAIN pendingMsgs', NEW j \in DOMAIN pendingMsgs',
               pendingMsgs'[i] = pendingMsgs'[j]
        PROVE  i = j
    <3>1. i + 1 = j + 1
      BY <2>1, <2>2, <2>4 DEF NoRepeats
    <3> QED BY <2>1, <3>1
  <2> QED BY <2>3, <2>4 DEF NoRepeats
<1> QED BY <1>1, <1>2

(* A packet is in one place: once handed on, it is not where it was.        *)
OnePlace(m) ==
  /\ packetQueue = <<m>> =>
       ~(taken = <<m>> \/ packetRelay = <<m>> \/ Pending(m) \/ current = <<m>> \/ m \in finished)
  /\ taken = <<m>> => ~(packetRelay = <<m>> \/ Pending(m) \/ current = <<m>> \/ m \in finished)
  /\ packetRelay = <<m>> => ~(Pending(m) \/ current = <<m>> \/ m \in finished)
  /\ Pending(m) => ~(current = <<m>> \/ m \in finished)
  /\ current = <<m>> => m \notin finished

(* Where it comes from: its caller, or the handler's work on its caller's   *)
(* own packet.                                                              *)
Brings(m) == IF m.n = 0 THEN call[m.by] \in {"wait", "answered"}
             ELSE \/ PacketOf(m.by, 0) \in finished
                  \/ current = <<PacketOf(m.by, 0)>> /\ m.n <= sends

(* Who has an answer has been served, and the other way round.              *)
Served(c) == \/ PacketOf(c, 0) \in finished
             \/ current = <<PacketOf(c, 0)>> /\ handler = "done"

PlaceInv ==
  /\ \A m \in Packet : OnePlace(m) /\ (Brought(m) => Brings(m))
  /\ NoRepeats
  /\ \A c \in Caller : call[c] = "answered" <=> Served(c)

(* At the start no packet is anywhere.                                      *)
LEMMA PlaceInit == Init => PlaceInv
<1> SUFFICES ASSUME Init PROVE PlaceInv
  OBVIOUS
<1>1. \A m : ~Brought(m)
  BY DEF Init, Brought, Pending
<1> QED BY <1>1 DEF Init, PlaceInv, OnePlace, Brought, Served, NoRepeats

(* A packet is brought once: a caller brings its own when it has not yet,   *)
(* the handler sends back one after the other.                              *)
LEMMA NotYet ==
  ASSUME IInv, PlaceInv
  PROVE  /\ \A c \in Caller : call[c] = "enqueue" => ~Brought(PacketOf(c, 0))
         /\ HandlerSelfSend => ~Brought(PacketOf(Head(current).by, sends + 1))
<1> USE SelfSendsAssumption
<1>1. ASSUME NEW c \in Caller, call[c] = "enqueue" PROVE ~Brought(PacketOf(c, 0))
  <2>1. PacketOf(c, 0) \in Packet
    BY Packets
  <2> QED BY <1>1, <2>1 DEF PlaceInv, Brings, PacketOf
<1>2. ASSUME HandlerSelfSend PROVE ~Brought(PacketOf(Head(current).by, sends + 1))
  <2> DEFINE own == Head(current)
             back == PacketOf(own.by, sends + 1)
  <2>1. current = <<own>> /\ own \in Packet /\ sends \in Nat /\ sends < SendsOf(own)
    BY <1>2, Split DEF HandlerSelfSend, IInv, TypeOK
  <2>2. own = PacketOf(own.by, 0)
    <3>1. own.n = 0
      BY <2>1 DEF SendsOf, HasResp
    <3> QED BY <2>1, <3>1, Packets
  <2>3. own \notin finished
    BY <2>1 DEF PlaceInv, OnePlace
  <2>4. back \in Packet /\ back.by = own.by /\ back.n = sends + 1
    BY <2>1, Packets DEF PacketOf
  <2>5. ~Brings(back)
    BY <2>1, <2>2, <2>3, <2>4 DEF Brings
  <2> QED BY <2>4, <2>5 DEF PlaceInv
<1> QED BY <1>1, <1>2

(* Every step moves a packet from one place to the next, and answers those  *)
(* who are served.                                                          *)
LEMMA PlaceStep == ASSUME IInv, PlaceInv, Next PROVE PlaceInv'
<1> USE DEF OnePlace, Brought, Brings, Served
<1>1. TypeOK /\ TokenInv
  BY DEF IInv
<1>2. /\ \A m \in Packet : OnePlace(m) /\ (Brought(m) => Brings(m))
      /\ NoRepeats
      /\ \A c \in Caller : call[c] = "answered" <=> Served(c)
  BY DEF PlaceInv
<1>3. /\ \A c \in Caller : PacketOf(c, 0) \in Packet
      /\ \A c, d \in Caller : PacketOf(c, 0) = PacketOf(d, 0) => c = d
      /\ \A c \in Caller : PacketOf(c, 0).n = 0 /\ PacketOf(c, 0).by = c
      /\ \A m \in Packet : m.by \in Caller /\ (m.n = 0 => m = PacketOf(m.by, 0))
  BY Packets, SelfSendsAssumption DEF PacketOf
<1>4. UNCHANGED pendingMsgs => NoRepeats' /\ \A k : Pending(k)' <=> Pending(k)
  BY <1>2 DEF NoRepeats, Pending
<1>5. ASSUME NEW c \in Caller, Arrive(c) PROVE PlaceInv'
  BY <1>1, <1>2, <1>3, <1>4, <1>5 DEF Arrive, queueing, handling, PlaceInv, TypeOK
<1>6. ASSUME NEW c \in Caller, Enqueue(c) PROVE PlaceInv'
  <2>1. ~Brought(PacketOf(c, 0))
    BY <1>6, NotYet DEF Enqueue
  <2> QED BY <1>1, <1>2, <1>3, <1>4, <1>6, <2>1
          DEF Enqueue, queueing, handling, PlaceInv, TypeOK
<1>7. CASE QueueTake
  BY <1>1, <1>2, <1>3, <1>4, <1>7 DEF QueueTake, handling, PlaceInv, TypeOK
<1>8. CASE QueueLog
  BY <1>1, <1>2, <1>3, <1>4, <1>8 DEF QueueLog, LogFailure, handling, PlaceInv, TypeOK
<1>9. CASE QueueRefuse
  <2>1. taken = <<Head(taken)>> /\ Head(taken) \in Packet
        /\ Head(taken) = PacketOf(Head(taken).by, 0)
    BY <1>1, <1>3, <1>9, Split DEF QueueRefuse, TypeOK, HasResp
  <2> QED BY <1>1, <1>2, <1>3, <1>4, <1>9, <2>1
          DEF QueueRefuse, handling, PlaceInv, TypeOK
<1>10. CASE QueueAppend
  <2>1. taken = <<Head(taken)>> /\ Head(taken) \in Packet
    BY <1>1, <1>10, Split DEF QueueAppend, TypeOK
  <2>2. CASE ~waiting
    <3>1. UNCHANGED <<pendingMsgs, taken>>
      BY <1>10, <2>2 DEF QueueAppend, QueuePacket
    <3> QED BY <1>1, <1>2, <1>3, <1>4, <1>10, <3>1
            DEF QueueAppend, handling, PlaceInv
  <2>3. CASE waiting
    <3>1. pendingMsgs' = Append(pendingMsgs, Head(taken)) /\ taken' = <<>>
      BY <1>10, <2>3 DEF QueueAppend, QueuePacket
    <3>2. /\ \A k : Pending(k)' <=> Pending(k) \/ k = Head(taken)
          /\ NoRepeats'
      BY <1>1, <1>2, <2>1, <3>1, PendingAppend, NoRepeatsSteps DEF TypeOK
    <3> QED BY <1>1, <1>2, <1>3, <1>10, <2>1, <3>1, <3>2
            DEF QueueAppend, handling, PlaceInv
  <2> QED BY <2>2, <2>3
<1>11. CASE QueueOffer
  BY <1>1, <1>2, <1>3, <1>4, <1>11 DEF QueueOffer, handling, PlaceInv, TypeOK
<1>12. CASE QueueNext
  <2>1. CASE pendingMsgs = <<>>
    BY <1>1, <1>2, <1>3, <1>4, <1>12, <2>1
       DEF QueueNext, NextPending, handling, PlaceInv
  <2>2. CASE NextPending
    <3> DEFINE m == Head(pendingMsgs)
    <3>1. m \in Packet /\ taken = <<>> /\ pendingMsgs # <<>>
      BY <1>1, <1>12, <2>2, Split DEF QueueNext, NextPending, TypeOK
    <3>2. /\ \A k : Pending(k) <=> Pending(k)' \/ k = m
          /\ NoRepeats' /\ \A k : k = m => ~Pending(k)'
      BY <1>1, <1>2, <2>2, PendingTail, NoRepeatsSteps DEF NextPending, TypeOK
    <3>3. taken' = <<m>>
      BY <2>2 DEF NextPending
    <3> QED BY <1>1, <1>2, <1>3, <1>12, <3>1, <3>2, <3>3
            DEF QueueNext, handling, PlaceInv
  <2> QED BY <1>12, <2>1, <2>2 DEF QueueNext
<1>13. CASE HandlerTake
  BY <1>1, <1>2, <1>3, <1>4, <1>13 DEF HandlerTake, queueing, PlaceInv, TypeOK
<1>14. CASE HandlerSelfSend
  <2>1. PICK own \in Packet : current = <<own>> /\ sends \in Nat /\ own.n = 0
    BY <1>1, <1>14, Split DEF HandlerSelfSend, TypeOK, SendsOf, HasResp
  <2>2. PICK back : back = PacketOf(own.by, sends + 1) /\ ~Brought(back)
    BY <1>14, <2>1, NotYet, Single
  <2>3. /\ packetQueue = <<>> /\ packetQueue' = <<back>> /\ sends' = sends + 1
        /\ UNCHANGED <<packetRelay, pendingMsgs, taken, current, handler, call,
                       finished>>
    BY <1>14, <2>1, <2>2, Single DEF HandlerSelfSend, queueing
  <2>4. back.n = sends + 1 /\ back.by = own.by /\ PacketOf(own.by, 0) = own
    BY <1>3, <2>1, <2>2 DEF PacketOf
  <2>5. \A m \in Packet : Brought(m)' => Brought(m) \/ m = back
    BY <1>4, <2>3
  <2>6. \A m \in Packet : Brings(m) => Brings(m)'
    BY <2>1, <2>3, Packets
  <2>7. Brings(back)'
    BY <2>1, <2>3, <2>4
  <2>8. \A m \in Packet : OnePlace(m)'
    BY <1>2, <1>4, <2>2, <2>3
  <2>9. \A c \in Caller : call'[c] = "answered" <=> Served(c)'
    BY <1>2, <2>3
  <2> QED BY <1>2, <1>4, <2>3, <2>5, <2>6, <2>7, <2>8, <2>9 DEF PlaceInv
<1>15. CASE HandlerReply
  <2>1. current = <<Head(current)>> /\ Head(current) \in Packet
    BY <1>1, <1>15, Split DEF HandlerReply, TypeOK
  <2> QED BY <1>1, <1>2, <1>3, <1>4, <1>15, <2>1
          DEF HandlerReply, queueing, PlaceInv, HasResp, TypeOK
<1>16. CASE HandlerHangs
  BY <1>1, <1>2, <1>3, <1>4, <1>16 DEF HandlerHangs, queueing, PlaceInv
<1>17. CASE HandlerDone
  <2>1. current = <<Head(current)>> /\ Head(current) \in Packet
    BY <1>1, <1>17, Split DEF HandlerDone, TypeOK
  <2> QED BY <1>1, <1>2, <1>3, <1>4, <1>17, <2>1
          DEF HandlerDone, queueing, PlaceInv, TypeOK
<1> QED
  BY <1>5, <1>6, <1>7, <1>8, <1>9, <1>10, <1>11, <1>12, <1>13, <1>14, <1>15,
     <1>16, <1>17 DEF Next, Queuer, Handler

(* The order of what the handler sends itself: two packets sent back in the *)
(* work on one caller's packet, the first one sent before the other.        *)
Older(p, q) == p.by = q.by /\ 0 < p.n /\ p.n < q.n

(* In front of the list of pending packets: offered, in the channel or      *)
(* being handled.                                                           *)
AtHandler(m) == Offered = <<m>> \/ packetRelay = <<m>> \/ current = <<m>>

PendingBefore(p, q) ==
  \E i, j \in DOMAIN pendingMsgs : i < j /\ pendingMsgs[i] = p /\ pendingMsgs[j] = q

(* Wherever the later one is, the earlier one is nearer the handler, or has *)
(* been finished already; one at the handler has no earlier one unfinished. *)
Ahead(p, q) ==
  /\ Brought(q) => Brought(p)
  /\ taken = <<q>> => packetQueue # <<p>>
  /\ Pending(q) => p \in finished \/ AtHandler(p) \/ PendingBefore(p, q)
  /\ AtHandler(q) \/ q \in finished => p \in finished

(* What a handler at work says it has sent back, it has.                    *)
SentBack == \A m \in Packet :
  current = <<PacketOf(m.by, 0)>> /\ 0 < m.n /\ m.n <= sends => Brought(m)

OrderInv == SentBack /\ \A p, q \in Packet : Older(p, q) => Ahead(p, q)

(* At the start there is no packet to be in order.                          *)
LEMMA OrderInit == Init => OrderInv
<1> SUFFICES ASSUME Init PROVE OrderInv
  OBVIOUS
<1>1. \A m : ~Brought(m) /\ ~AtHandler(m)
  BY DEF Init, Brought, Pending, AtHandler, Offered
<1>2. SentBack
  BY DEF Init, SentBack
<1>3. \A p, q \in Packet : Ahead(p, q)
  BY <1>1 DEF Ahead, Brought
<1> QED BY <1>2, <1>3 DEF OrderInv

(* What was sent back stays brought, and a handler counts what it sends.    *)
LEMMA SentBackStep == ASSUME IInv, PlaceInv, OrderInv, Next PROVE SentBack'
<1>1. TypeOK /\ TokenInv /\ SentBack
  BY DEF IInv, OrderInv
<1> SUFFICES ASSUME NEW m \in Packet, current' = <<PacketOf(m.by, 0)>>,
                    0 < m.n, m.n <= sends'
             PROVE  Brought(m)'
  BY DEF SentBack
<1>2. UNCHANGED pendingMsgs => (Pending(m)' <=> Pending(m))
  BY DEF Pending
<1>3. m.n # 0 /\ m.n \in Nat /\ m # PacketOf(m.by, 0)
  BY Packets DEF PacketOf
<1>4. UNCHANGED <<current, sends>> => Brought(m)
  BY <1>1 DEF SentBack
<1> USE DEF Brought
<1>5. CASE \E c \in Caller : Arrive(c) \/ Enqueue(c)
  BY <1>2, <1>4, <1>5 DEF Arrive, Enqueue, queueing, handling
<1>6. CASE QueueTake \/ QueueLog
  BY <1>1, <1>2, <1>4, <1>6 DEF QueueTake, QueueLog, LogFailure, handling, TypeOK
<1>7. CASE QueueRefuse
  <2>1. taken = <<Head(taken)>>
    BY <1>1, <1>7, Split DEF QueueRefuse, TypeOK
  <2> QED BY <1>2, <1>4, <1>7, <2>1, Single DEF QueueRefuse, handling
<1>8. CASE QueueAppend
  <2>1. taken = <<Head(taken)>> /\ Head(taken) \in Packet
    BY <1>1, <1>8, Split DEF QueueAppend, TypeOK
  <2>2. CASE ~waiting
    BY <1>2, <1>4, <1>8, <2>2 DEF QueueAppend, QueuePacket, handling
  <2>3. CASE waiting
    <3>1. pendingMsgs' = Append(pendingMsgs, Head(taken))
      BY <1>8, <2>3 DEF QueueAppend, QueuePacket
    <3>2. Pending(m)' <=> Pending(m) \/ m = Head(taken)
      BY <1>1, <2>1, <3>1, PendingAppend DEF TypeOK
    <3> QED BY <1>4, <1>8, <2>1, <3>2, Single DEF QueueAppend, handling
  <2> QED BY <2>2, <2>3
<1>9. CASE QueueOffer
  BY <1>1, <1>2, <1>4, <1>9 DEF QueueOffer, handling
<1>10. CASE QueueNext
  <2>1. CASE pendingMsgs = <<>>
    BY <1>2, <1>4, <1>10, <2>1 DEF QueueNext, NextPending, handling
  <2>2. CASE NextPending
    <3>1. Pending(m) <=> Pending(m)' \/ m = Head(pendingMsgs)
      BY <1>1, <2>2, PendingTail DEF NextPending, TypeOK
    <3>2. taken = <<>> /\ taken' = <<Head(pendingMsgs)>>
      BY <1>1, <1>10, <2>2 DEF QueueNext, NextPending, TypeOK
    <3> QED BY <1>4, <1>10, <3>1, <3>2 DEF QueueNext, handling
  <2> QED BY <1>10, <2>1, <2>2 DEF QueueNext
<1>11. CASE HandlerTake
  BY <1>3, <1>11 DEF HandlerTake
<1>12. CASE HandlerSelfSend
  <2>1. /\ current = <<Head(current)>> /\ sends \in Nat /\ sends' = sends + 1
        /\ packetQueue = <<>> /\ packetQueue' = <<PacketOf(Head(current).by, sends + 1)>>
        /\ UNCHANGED <<packetRelay, pendingMsgs, taken, current, finished>>
    BY <1>1, <1>12, Split DEF HandlerSelfSend, queueing, TypeOK
  <2>2. Head(current).by = m.by
    BY <2>1, Single DEF PacketOf
  <2>3. CASE m.n <= sends
    <3>1. Brought(m)
      BY <1>1, <2>1, <2>3 DEF SentBack
    <3> QED BY <1>2, <2>1, <3>1
  <2>4. CASE m.n = sends + 1
    <3>1. m = PacketOf(m.by, m.n)
      BY Packets
    <3> QED BY <2>1, <2>2, <2>4, <3>1
  <2> QED BY <1>3, <2>1, <2>3, <2>4
<1>13. CASE HandlerReply \/ HandlerHangs
  BY <1>2, <1>4, <1>13 DEF HandlerReply, HandlerHangs, queueing
<1>14. CASE HandlerDone
  BY <1>14 DEF HandlerDone
<1> QED
  BY <1>5, <1>6, <1>7, <1>8, <1>9, <1>10, <1>11, <1>12, <1>13, <1>14
     DEF Next, Queuer, Handler

(* A step that leaves the list of pending packets alone, and puts nothing   *)
(* where the order would see it, keeps the order.                           *)
LEMMA OrderKept ==
  ASSUME NEW p, NEW q, Ahead(p, q), UNCHANGED pendingMsgs,
         Brought(q)' => Brought(q), Brought(p) => Brought(p)',
         taken' = <<q>> => packetQueue' # <<p>>,
         AtHandler(p) => AtHandler(p)' \/ p \in finished',
         finished \subseteq finished',
         AtHandler(q)' => AtHandler(q), q \in finished' => AtHandler(q) \/ q \in finished
  PROVE  Ahead(p, q)'
<1>1. /\ Pending(q)' <=> Pending(q)
      /\ PendingBefore(p, q)' <=> PendingBefore(p, q)
  BY DEF Pending, PendingBefore
<1> QED BY <1>1 DEF Ahead

(* Every step keeps the order: what is appended comes last, what is taken   *)
(* is the first, and what is sent back is the last of all.                  *)
LEMMA OrderStep ==
  ASSUME IInv, PlaceInv, OrderInv, Next, NEW p \in Packet, NEW q \in Packet, Older(p, q)
  PROVE  Ahead(p, q)'
<1>1. TypeOK /\ TokenInv /\ Ahead(p, q) /\ OnePlace(p) /\ OnePlace(q)
  BY DEF IInv, OrderInv, PlaceInv
<1>2. /\ p # q /\ p.n \in Nat /\ q.n \in Nat /\ p.n # 0 /\ q.n # 0 /\ p.by = q.by
      /\ p.n < q.n
      /\ \A c \in Caller : PacketOf(c, 0) # p /\ PacketOf(c, 0) # q
  BY Packets DEF Older, PacketOf
<1>3. UNCHANGED pendingMsgs => /\ Pending(p)' <=> Pending(p)
                               /\ Pending(q)' <=> Pending(q)
  BY DEF Pending
<1>4. CASE \E c \in Caller : Arrive(c) \/ Enqueue(c)
  <2>1. UNCHANGED <<pendingMsgs, taken, queuer, packetRelay, current, finished>>
    BY <1>4 DEF Arrive, Enqueue, queueing, handling
  <2>2. /\ packetQueue' = <<p>> <=> packetQueue = <<p>>
        /\ packetQueue' = <<q>> <=> packetQueue = <<q>>
    BY <1>2, <1>4 DEF Arrive, Enqueue
  <2>3. /\ Brought(p)' <=> Brought(p)
        /\ Brought(q)' <=> Brought(q)
        /\ AtHandler(p)' <=> AtHandler(p)
        /\ AtHandler(q)' <=> AtHandler(q)
    BY <1>3, <2>1, <2>2 DEF Brought, AtHandler, Offered
  <2>4. taken' = <<q>> => packetQueue' # <<p>>
    BY <1>1, <2>1, <2>2 DEF Ahead
  <2> QED BY <1>1, <2>1, <2>3, <2>4, OrderKept
<1>5. CASE QueueTake
  <2>1. /\ UNCHANGED <<pendingMsgs, packetRelay, current, finished>>
        /\ Offered = <<>> /\ Offered' = <<>>
        /\ taken = <<>> /\ taken' = packetQueue /\ packetQueue' = <<>>
    BY <1>1, <1>5 DEF QueueTake, handling, TypeOK, Offered
  <2>2. /\ Brought(p)' <=> Brought(p)
        /\ Brought(q)' <=> Brought(q)
        /\ AtHandler(p)' <=> AtHandler(p)
        /\ AtHandler(q)' <=> AtHandler(q)
    BY <1>3, <2>1 DEF Brought, AtHandler
  <2>3. packetQueue' # <<p>>
    BY <2>1
  <2> QED BY <1>1, <2>1, <2>2, <2>3, OrderKept
<1>6. CASE QueueLog
  <2>1. /\ UNCHANGED <<pendingMsgs, packetRelay, current, finished, taken, packetQueue>>
        /\ Offered = <<>> /\ Offered' = <<>>
    BY <1>6 DEF QueueLog, LogFailure, handling, Offered
  <2>2. /\ Brought(p)' <=> Brought(p)
        /\ Brought(q)' <=> Brought(q)
        /\ AtHandler(p)' <=> AtHandler(p)
        /\ AtHandler(q)' <=> AtHandler(q)
    BY <1>3, <2>1 DEF Brought, AtHandler
  <2>3. taken' = <<q>> => packetQueue' # <<p>>
    BY <1>1, <2>1 DEF Ahead
  <2> QED BY <1>1, <2>1, <2>2, <2>3, OrderKept
<1>7. CASE QueueRefuse
  <2>1. PICK m \in Packet : taken = <<m>> /\ Head(taken) = m /\ m.n = 0
    BY <1>1, <1>7, Split, Single DEF QueueRefuse, HasResp, TypeOK
  <2>2. m # p /\ m # q
    BY <1>2, <2>1
  <2>3. /\ UNCHANGED <<pendingMsgs, packetRelay, current, packetQueue>>
        /\ Offered = <<>> /\ Offered' = <<>> /\ taken' = <<>>
        /\ finished' = finished \cup {m}
    BY <1>7, <2>1 DEF QueueRefuse, handling, Offered
  <2>4. /\ Brought(p)' <=> Brought(p)
        /\ Brought(q)' <=> Brought(q)
        /\ AtHandler(p)' <=> AtHandler(p)
        /\ AtHandler(q)' <=> AtHandler(q)
        /\ q \in finished' <=> q \in finished
    BY <1>3, <2>1, <2>2, <2>3 DEF Brought, AtHandler
  <2>5. finished \subseteq finished' /\ taken' # <<q>>
    BY <2>3
  <2> QED BY <1>1, <2>3, <2>4, <2>5, OrderKept
<1>8. CASE QueueAppend
  <2>1. PICK m \in Packet : taken = <<m>> /\ Head(taken) = m
    BY <1>1, <1>8, Split, Single DEF QueueAppend, TypeOK
  <2>2. /\ UNCHANGED <<packetRelay, current, packetQueue, finished>>
        /\ Offered = <<>>
    BY <1>8 DEF QueueAppend, handling, Offered
  <2>3. CASE ~waiting
    <3>1. /\ UNCHANGED <<pendingMsgs, taken>> /\ Offered' = <<m>>
          /\ packetRelay = <<>> /\ current = <<>> /\ pendingMsgs = <<>>
      <4>1. UNCHANGED <<pendingMsgs, taken>> /\ queuer' = "offer"
        BY <1>8, <2>1, <2>3 DEF QueueAppend, QueuePacket
      <4>2. packetRelay = <<>> /\ current = <<>> /\ pendingMsgs = <<>>
        <5>1. /\ Len(packetRelay) \in Nat /\ Len(current) \in Nat /\ packetRelayDone \in Nat
              /\ Len(Offered) = 0
              /\ Len(packetRelay) = 0 => packetRelay = <<>>
              /\ Len(current) = 0 => current = <<>>
          BY <1>1, <2>2, EmptySeq, LenProperties DEF TypeOK
        <5>2. Len(Offered) + Len(packetRelay) + Len(current) + packetRelayDone = 0
              /\ pendingMsgs = <<>>
          BY <1>1, <2>3 DEF TokenInv
        <5> QED BY <5>1, <5>2
      <4> QED BY <2>1, <4>1, <4>2 DEF Offered
    <3>2. ~Pending(p) /\ ~Pending(q) /\ ~Pending(q)'
      BY <3>1, <1>3 DEF Pending
    <3>3. /\ Brought(p)' <=> Brought(p)
          /\ Brought(q)' <=> Brought(q)
      BY <1>3, <2>2, <3>1 DEF Brought
    <3>4. AtHandler(q)' => q = m
      BY <2>2, <3>1 DEF AtHandler
    <3>5. q = m => p \in finished
      BY <1>1, <1>2, <2>1, <3>1, <3>2, Single DEF Ahead, Brought
    <3>6. q \in finished => p \in finished
      BY <1>1 DEF Ahead
    <3>7. taken' = <<q>> => packetQueue' # <<p>>
      BY <1>1, <2>2, <3>1 DEF Ahead
    <3>8. Brought(q)' => Brought(p)'
      BY <1>1, <3>3 DEF Ahead
    <3> QED BY <2>2, <3>2, <3>4, <3>5, <3>6, <3>7, <3>8 DEF Ahead
  <2>4. CASE waiting
    <3>1. /\ pendingMsgs' = Append(pendingMsgs, m) /\ taken' = <<>>
          /\ queuer' = "select" /\ Offered' = <<>>
      BY <1>8, <2>1, <2>4 DEF QueueAppend, QueuePacket, Offered
    <3>2. \A k : Pending(k)' <=> Pending(k) \/ k = m
      BY <1>1, <3>1, PendingAppend DEF TypeOK
    <3>3. /\ Len(pendingMsgs) \in Nat /\ DOMAIN pendingMsgs = 1..Len(pendingMsgs)
          /\ DOMAIN pendingMsgs' = 1..Len(pendingMsgs) + 1
          /\ pendingMsgs'[Len(pendingMsgs) + 1] = m
          /\ \A i \in 1..Len(pendingMsgs) : pendingMsgs'[i] = pendingMsgs[i]
      BY <1>1, <3>1 DEF TypeOK
    <3>4. PendingBefore(p, q) => PendingBefore(p, q)'
      BY <3>3 DEF PendingBefore
    <3>5. Pending(p) /\ q = m => PendingBefore(p, q)'
      BY <3>3 DEF PendingBefore, Pending
    <3>6. /\ AtHandler(p)' <=> AtHandler(p)
          /\ AtHandler(q)' <=> AtHandler(q)
      BY <2>2, <3>1 DEF AtHandler
    <3>7. /\ Brought(p)' <=> Brought(p)
          /\ Brought(q)' <=> Brought(q)
      <4>1. \A k \in Packet : taken = <<k>> <=> k = m
        BY <2>1, Single
      <4>2. \A k \in Packet : taken' # <<k>>
        BY <3>1
      <4> QED BY <2>2, <3>2, <4>1, <4>2 DEF Brought
    <3>8. q = m => p \in finished \/ AtHandler(p) \/ Pending(p)
      <4>1. taken = <<q>> => Brought(p) /\ packetQueue # <<p>>
        BY <1>1 DEF Ahead, Brought
      <4>2. taken # <<p>> \/ q # m
        BY <1>2, <2>1, Single
      <4> QED BY <2>1, <4>1, <4>2 DEF Brought, AtHandler
    <3>9. Pending(q)' => p \in finished' \/ AtHandler(p)' \/ PendingBefore(p, q)'
      BY <1>1, <2>2, <3>2, <3>4, <3>5, <3>6, <3>8 DEF Ahead
    <3>10. taken' # <<q>>
      BY <3>1
    <3>11. /\ Brought(q)' => Brought(p)'
           /\ AtHandler(q)' \/ q \in finished' => p \in finished'
      BY <1>1, <2>2, <3>6, <3>7 DEF Ahead
    <3> QED BY <3>9, <3>10, <3>11 DEF Ahead
  <2> QED BY <2>3, <2>4
<1>9. CASE QueueOffer
  <2>1. /\ UNCHANGED <<pendingMsgs, current, packetQueue, finished>>
        /\ Offered = taken /\ Offered' = <<>> /\ taken' = <<>>
        /\ packetRelay = <<>> /\ packetRelay' = taken
    BY <1>9 DEF QueueOffer, handling, Offered
  <2>2. /\ Brought(p)' <=> Brought(p)
        /\ Brought(q)' <=> Brought(q)
        /\ AtHandler(p)' <=> AtHandler(p)
        /\ AtHandler(q)' <=> AtHandler(q)
        /\ taken' # <<q>>
    BY <1>3, <2>1 DEF Brought, AtHandler
  <2> QED BY <1>1, <2>1, <2>2, OrderKept
<1>10. CASE QueueNext
  <2>1. /\ UNCHANGED <<packetRelay, current, packetQueue, finished>>
        /\ Offered = <<>> /\ taken = <<>> /\ queuer = "select" /\ packetRelayDone = 1
    BY <1>1, <1>10 DEF QueueNext, handling, TypeOK, Offered
  <2>2. CASE pendingMsgs = <<>> /\ UNCHANGED <<pendingMsgs, queuer, taken>>
    <3>1. /\ Brought(p)' <=> Brought(p)
          /\ Brought(q)' <=> Brought(q)
          /\ AtHandler(p)' <=> AtHandler(p)
          /\ AtHandler(q)' <=> AtHandler(q)
          /\ taken' # <<q>>
      BY <1>3, <2>1, <2>2 DEF Brought, AtHandler, Offered
    <3> QED BY <1>1, <2>1, <2>2, <3>1, OrderKept
  <2>3. CASE NextPending
    <3>1. PICK m \in Packet : m = Head(pendingMsgs)
      BY <1>1, <2>3, Split DEF NextPending, TypeOK
    <3>2. /\ pendingMsgs # <<>> /\ pendingMsgs' = Tail(pendingMsgs)
          /\ taken' = <<m>> /\ Offered' = <<m>>
      BY <2>3, <3>1 DEF NextPending, Offered
    <3>3. packetRelay = <<>> /\ current = <<>>
      <4>1. /\ Len(packetRelay) \in Nat /\ Len(current) \in Nat /\ Len(Offered) = 0
            /\ Len(packetRelay) = 0 => packetRelay = <<>>
            /\ Len(current) = 0 => current = <<>>
        BY <1>1, <2>1, EmptySeq, LenProperties DEF TypeOK
      <4>2. Len(Offered) + Len(packetRelay) + Len(current) + 1 <= 1
        BY <1>1, <2>1 DEF TokenInv
      <4> QED BY <4>1, <4>2
    <3>4. /\ \A k : Pending(k) <=> Pending(k)' \/ k = m
          /\ ~Pending(m)'
      <4>1. pendingMsgs \in Seq(Packet) /\ NoRepeats
        BY <1>1 DEF PlaceInv, TypeOK
      <4> QED BY <3>1, <3>2, <4>1, PendingTail, NoRepeatsSteps
    <3>5. /\ Len(pendingMsgs) \in Nat \ {0} /\ DOMAIN pendingMsgs = 1..Len(pendingMsgs)
          /\ DOMAIN pendingMsgs' = 1..Len(pendingMsgs) - 1
          /\ pendingMsgs[1] = m
          /\ \A i \in 1..Len(pendingMsgs) - 1 : pendingMsgs'[i] = pendingMsgs[i + 1]
      BY <1>1, <3>1, <3>2, EmptySeq, HeadTailProperties DEF TypeOK
    <3>6. \A k \in Packet : (AtHandler(k)' <=> k = m) /\ ~AtHandler(k)
      BY <2>1, <3>2, <3>3, Single DEF AtHandler
    <3>7. PendingBefore(p, q) => q # m
      <4> SUFFICES ASSUME PendingBefore(p, q), q = m PROVE FALSE
        OBVIOUS
      <4>1. PICK i, j \in 1..Len(pendingMsgs) : i < j /\ pendingMsgs[j] = m
        BY <3>5 DEF PendingBefore
      <4>2. j = 1
        BY <3>5, <4>1 DEF PlaceInv, NoRepeats
      <4> QED BY <3>5, <4>1, <4>2
    <3>8. PendingBefore(p, q) /\ p # m => PendingBefore(p, q)'
      <4> SUFFICES ASSUME PendingBefore(p, q), p # m PROVE PendingBefore(p, q)'
        OBVIOUS
      <4>1. PICK i, j \in 1..Len(pendingMsgs) :
              i < j /\ pendingMsgs[i] = p /\ pendingMsgs[j] = q
        BY <3>5 DEF PendingBefore
      <4>2. i # 1
        BY <3>5, <4>1
      <4>3. /\ i - 1 \in 1..Len(pendingMsgs) - 1 /\ j - 1 \in 1..Len(pendingMsgs) - 1
            /\ i - 1 < j - 1 /\ (i - 1) + 1 = i /\ (j - 1) + 1 = j
        BY <3>5, <4>1, <4>2
      <4>4. pendingMsgs'[i - 1] = p /\ pendingMsgs'[j - 1] = q
        BY <3>5, <4>1, <4>3
      <4> QED BY <3>5, <4>3, <4>4 DEF PendingBefore
    <3>9. /\ Brought(p)' <=> Brought(p)
          /\ Brought(q)' <=> Brought(q)
      BY <2>1, <3>2, <3>4, Single DEF Brought
    <3>10. q = m => p \in finished
      BY <1>1, <3>4, <3>6, <3>7 DEF Ahead
    <3>11. Pending(q)' => p \in finished' \/ AtHandler(p)' \/ PendingBefore(p, q)'
      BY <1>1, <2>1, <3>4, <3>6, <3>8 DEF Ahead
    <3>12. AtHandler(q)' \/ q \in finished' => p \in finished'
      BY <1>1, <2>1, <3>6, <3>10 DEF Ahead
    <3>13. taken' = <<q>> => packetQueue' # <<p>>
      <4>1. p \in finished => packetQueue # <<p>>
        BY <1>1 DEF OnePlace
      <4> QED BY <2>1, <3>2, <3>10, <4>1, Single
    <3>14. Brought(q)' => Brought(p)'
      BY <1>1, <3>9 DEF Ahead
    <3> QED BY <3>11, <3>12, <3>13, <3>14 DEF Ahead
  <2> QED BY <1>10, <2>2, <2>3 DEF QueueNext
<1>11. CASE HandlerTake
  <2>1. /\ UNCHANGED <<pendingMsgs, packetQueue, finished, taken, queuer>>
        /\ current = <<>> /\ current' = packetRelay /\ packetRelay' = <<>>
    BY <1>1, <1>11 DEF HandlerTake, queueing, TypeOK
  <2>2. /\ Brought(p)' <=> Brought(p)
        /\ Brought(q)' <=> Brought(q)
        /\ AtHandler(p)' <=> AtHandler(p)
        /\ AtHandler(q)' <=> AtHandler(q)
    BY <1>3, <2>1 DEF Brought, AtHandler, Offered
  <2>3. taken' = <<q>> => packetQueue' # <<p>>
    BY <1>1, <2>1 DEF Ahead
  <2> QED BY <1>1, <2>1, <2>2, <2>3, OrderKept
<1>12. CASE HandlerSelfSend
  <2>1. PICK own \in Packet : current = <<own>> /\ Head(current) = own /\ own.n = 0
    BY <1>1, <1>12, Split, Single DEF HandlerSelfSend, TypeOK, SendsOf, HasResp
  <2>2. PICK back : back = PacketOf(own.by, sends + 1) /\ ~Brought(back)
    BY <1>12, <2>1, NotYet
  <2>3. /\ packetQueue = <<>> /\ packetQueue' = <<back>> /\ sends' = sends + 1
        /\ UNCHANGED <<packetRelay, pendingMsgs, taken, queuer, current, finished>>
    BY <1>12, <2>1, <2>2 DEF HandlerSelfSend, queueing
  <2>4. /\ back.n = sends + 1 /\ back.by = own.by /\ PacketOf(own.by, 0) = own
        /\ sends \in Nat
    BY <1>1, <2>1, <2>2, Packets DEF PacketOf, TypeOK
  <2>5. /\ \A k \in Packet : Brought(k)' <=> Brought(k) \/ k = back
        /\ AtHandler(p)' <=> AtHandler(p)
        /\ AtHandler(q)' <=> AtHandler(q)
    <3>1. \A k : Pending(k)' <=> Pending(k)
      BY <2>3 DEF Pending
    <3> QED BY <2>3, <3>1, Single DEF Brought, AtHandler, Offered
  <2>6. CASE q = back
    <3>1. Brought(p)
      <4>1. p.n <= sends /\ 0 < p.n /\ p.by = own.by
        BY <1>2, <2>4, <2>6
      <4> QED BY <2>1, <2>4, <4>1 DEF OrderInv, SentBack
    <3>2. /\ taken' # <<q>> /\ ~Pending(q)' /\ q \notin finished' /\ ~AtHandler(q)'
      <4>1. taken # <<q>> /\ ~Pending(q) /\ q \notin finished /\ ~AtHandler(q)
        BY <2>2, <2>6 DEF Brought, AtHandler, Offered
      <4> QED BY <1>3, <2>3, <2>5, <4>1
    <3> QED BY <2>5, <3>1, <3>2 DEF Ahead
  <2>7. CASE q # back
    <3>1. Brought(q) => p # back
      <4> SUFFICES ASSUME Brought(q), p = back PROVE FALSE
        OBVIOUS
      <4>1. Brings(q) /\ q.by = own.by /\ ~(q.n <= sends)
        BY <1>2, <2>4 DEF PlaceInv
      <4>2. own \notin finished
        BY <2>1 DEF PlaceInv, OnePlace
      <4> QED BY <1>2, <2>4, <4>1, <4>2 DEF Brings
    <3>2. /\ Brought(q)' => Brought(q)
          /\ Brought(p) => Brought(p)'
      BY <2>5, <2>7
    <3>3. taken' = <<q>> => packetQueue' # <<p>>
      <4>1. taken = <<q>> => p # back
        BY <3>1 DEF Brought
      <4> QED BY <2>3, <4>1, Single
    <3> QED BY <1>1, <2>3, <2>5, <3>2, <3>3, OrderKept
  <2> QED BY <2>6, <2>7
<1>13. CASE HandlerReply \/ HandlerHangs
  <2>1. /\ UNCHANGED <<pendingMsgs, packetQueue, finished, taken, queuer, packetRelay>>
        /\ UNCHANGED current
    BY <1>13 DEF HandlerReply, HandlerHangs, queueing
  <2>2. /\ Brought(p)' <=> Brought(p)
        /\ Brought(q)' <=> Brought(q)
        /\ AtHandler(p)' <=> AtHandler(p)
        /\ AtHandler(q)' <=> AtHandler(q)
    BY <1>3, <2>1 DEF Brought, AtHandler, Offered
  <2>3. taken' = <<q>> => packetQueue' # <<p>>
    BY <1>1, <2>1 DEF Ahead
  <2> QED BY <1>1, <2>1, <2>2, <2>3, OrderKept
<1>14. CASE HandlerDone
  <2>1. PICK m \in Packet : current = <<m>> /\ Head(current) = m
    BY <1>1, <1>14, Split, Single DEF HandlerDone, TypeOK
  <2>2. /\ UNCHANGED <<pendingMsgs, packetQueue, taken, queuer, packetRelay>>
        /\ current' = <<>> /\ finished' = finished \cup {m}
    BY <1>14, <2>1 DEF HandlerDone, queueing
  <2>3. UNCHANGED Offered
    BY <2>2 DEF Offered
  <2>4. \A k \in Packet : current = <<k>> <=> k = m
    BY <2>1, Single
  <2>5. /\ Brought(p)' <=> Brought(p)
        /\ Brought(q)' <=> Brought(q)
        /\ AtHandler(q)' => AtHandler(q)
        /\ AtHandler(p) => AtHandler(p)' \/ p \in finished'
        /\ q \in finished' => AtHandler(q) \/ q \in finished
    BY <1>3, <2>2, <2>3, <2>4 DEF Brought, AtHandler
  <2>6. finished \subseteq finished' /\ (taken' = <<q>> => packetQueue' # <<p>>)
    BY <1>1, <2>2 DEF Ahead
  <2> QED BY <1>1, <2>2, <2>5, <2>6, OrderKept
<1> QED
  BY <1>4, <1>5, <1>6, <1>7, <1>8, <1>9, <1>10, <1>11, <1>12, <1>13, <1>14
     DEF Next, Queuer, Handler

(* The places of the packets are kept.                                      *)
THEOREM Places == Spec => []PlaceInv
<1>1. PlaceInv /\ UNCHANGED vars => PlaceInv'
  BY DEF vars, queueing, handling, PlaceInv, OnePlace, Brought, Brings, Served,
         Pending, NoRepeats
<1>2. IInv /\ PlaceInv /\ [Next]_vars => PlaceInv'
  BY <1>1, PlaceStep
<1> QED BY PlaceInit, <1>2, Inductive, PTL DEF Spec

(* Every packet is in one place on its way to the handler, or finished; and *)
(* those that the handler sends back in its work on one packet keep the     *)
(* order in which it sent them, the oldest nearest the handler, until they  *)
(* are finished in that order.                                              *)
THEOREM HubPlaces == Spec => [](PlaceInv /\ OrderInv)
<1>1. OrderInv /\ UNCHANGED vars => OrderInv'
  BY DEF vars, queueing, handling, OrderInv, SentBack, Ahead, Older, Brought, AtHandler,
         Offered, Pending, PendingBefore
<1>2. IInv /\ PlaceInv /\ OrderInv /\ [Next]_vars => OrderInv'
  <2> SUFFICES ASSUME IInv, PlaceInv, OrderInv, Next PROVE OrderInv'
    BY <1>1
  <2>1. ASSUME NEW p \in Packet, NEW q \in Packet, Older(p, q) PROVE Ahead(p, q)'
    BY <2>1, OrderStep
  <2>2. SentBack'
    BY SentBackStep
  <2> QED BY <2>1, <2>2 DEF OrderInv, Older
<1> QED BY OrderInit, <1>2, Inductive, Places, PTL DEF Spec
-----------------------------------------------------------------------------
(* What the abstract hub has taken: what is offered, or waits in the        *)
(* channel, in front of what is pending.                                    *)
Line == packetRelay \o Offered \o pendingMsgs

(* At most one of the channel and the offer holds a packet, and what is in  *)
(* the line is in one of its parts.                                         *)
LEMMA LineParts ==
  ASSUME TypeOK, TokenInv
  PROVE  /\ Line \in Seq(Packet)
         /\ queuer = "offer" => Line = taken \o pendingMsgs
         /\ queuer # "offer" => Line = packetRelay \o pendingMsgs
         /\ \A i \in DOMAIN Line : \/ packetRelay = <<Line[i]>>
                                   \/ queuer = "offer" /\ taken = <<Line[i]>>
                                   \/ Pending(Line[i])
<1>1. /\ packetRelay \in Seq(Packet) /\ Len(packetRelay) <= 1
      /\ taken \in Seq(Packet) /\ Len(taken) <= 1
      /\ pendingMsgs \in Seq(Packet) /\ <<>> \in Seq(Packet)
  BY EmptySeq DEF TypeOK
<1>2. queuer = "offer" => Line = taken \o pendingMsgs
  BY <1>1, ConcatEmptySeq DEF Line, Offered, TokenInv
<1>3. queuer # "offer" => Line = packetRelay \o pendingMsgs
  BY <1>1, ConcatEmptySeq DEF Line, Offered
<1>4. Line \in Seq(Packet)
  BY <1>1, <1>2, <1>3, ConcatProperties
<1>5. ASSUME NEW s \in Seq(Packet), Len(s) <= 1, NEW i \in DOMAIN (s \o pendingMsgs)
      PROVE  s = <<(s \o pendingMsgs)[i]>> \/ Pending((s \o pendingMsgs)[i])
  <2>1. CASE s = <<>>
    BY <1>1, <1>5, <2>1, ConcatEmptySeq DEF Pending
  <2>2. CASE s # <<>>
    <3>1. Len(s) = 1 /\ s = <<Head(s)>> /\ s[1] = Head(s)
      BY <1>5, <2>2, Split
    <3>2. /\ i \in 1..1 + Len(pendingMsgs) /\ Len(pendingMsgs) \in Nat
          /\ DOMAIN pendingMsgs = 1..Len(pendingMsgs)
          /\ (s \o pendingMsgs)[i] = IF i <= 1 THEN s[i] ELSE pendingMsgs[i - 1]
      <4>1. /\ s \o pendingMsgs \in Seq(Packet)
            /\ Len(s \o pendingMsgs) = 1 + Len(pendingMsgs)
            /\ \A j \in 1..1 + Len(pendingMsgs) :
                  (s \o pendingMsgs)[j] = IF j <= 1 THEN s[j] ELSE pendingMsgs[j - 1]
        <5>1. /\ s \o pendingMsgs \in Seq(Packet)
              /\ Len(s \o pendingMsgs) = Len(s) + Len(pendingMsgs)
              /\ \A j \in 1..Len(s) + Len(pendingMsgs) :
                   (s \o pendingMsgs)[j] = IF j <= Len(s) THEN s[j]
                                            ELSE pendingMsgs[j - Len(s)]
          BY <1>1, <1>5, ConcatProperties
        <5> QED BY <3>1, <5>1
      <4>2. i \in 1..1 + Len(pendingMsgs)
        BY <1>5, <4>1, LenProperties
      <4>3. Len(pendingMsgs) \in Nat /\ DOMAIN pendingMsgs = 1..Len(pendingMsgs)
        BY <1>1, LenProperties
      <4> QED BY <4>1, <4>2, <4>3
    <3>3. CASE i = 1
      BY <3>1, <3>2, <3>3
    <3>4. CASE i # 1
      <4>1. i - 1 \in DOMAIN pendingMsgs /\ (s \o pendingMsgs)[i] = pendingMsgs[i - 1]
        BY <3>2, <3>4
      <4> QED BY <4>1 DEF Pending
    <3> QED BY <3>3, <3>4
  <2> QED BY <2>1, <2>2
<1> QED BY <1>1, <1>2, <1>3, <1>4, <1>5

(* What the abstract hub has not seen yet.                                  *)
LEMMA FreshTaken ==
  ASSUME IInv, PlaceInv, NEW m \in Packet, taken = <<m>>, queuer # "offer"
  PROVE  HubSerial!Fresh(m)
<1>1. \A i \in DOMAIN Line : Line[i] # m
  BY LineParts DEF IInv, PlaceInv, OnePlace
<1>2. m \notin finished /\ current # <<m>>
  BY DEF PlaceInv, OnePlace
<1>3. m \notin {current[i] : i \in DOMAIN current}
  <2>1. current = <<>> \/ current = <<Head(current)>>
    BY Split DEF IInv, TypeOK
  <2> QED BY <1>2, <2>1
<1> QED BY <1>1, <1>2, <1>3 DEF HubSerial!Fresh, Line

Running == {current[i] : i \in DOMAIN current}
AnsweredPackets == {PacketOf(c, 0) : c \in {d \in Caller : call[d] = "answered"}}
OwnPackets == {PacketOf(c, 0) : c \in Caller}

(* The answer to one caller.                                                *)
LEMMA AnswerOne ==
  ASSUME TypeOK, NEW m \in OwnPackets, call' = [call EXCEPT ![m.by] = "answered"]
  PROVE  AnsweredPackets' = AnsweredPackets \cup {m}
<1>1. PICK c \in Caller : m = PacketOf(c, 0)
  BY DEF OwnPackets
<1>2. m.by = c
  BY <1>1 DEF PacketOf
<1> QED BY <1>1, <1>2 DEF AnsweredPackets, TypeOK

(* The hub starts as the serial handler does.                               *)
LEMMA SerialInit == Init => HubSerial!Init
<1> SUFFICES ASSUME Init PROVE HubSerial!Init
  OBVIOUS
<1>1. packetRelay \o Offered \o pendingMsgs = <<>>
  BY ConcatEmptySeq, EmptySeq DEF Init, Offered
<1>2. Running = {} /\ AnsweredPackets = {}
  BY DEF Init, Running, AnsweredPackets
<1> QED BY <1>1, <1>2 DEF HubSerial!Init, Init, Running, AnsweredPackets

(* Every step of the hub is a step of the serial handler, or none.          *)
LEMMA SerialStep ==
  ASSUME IInv, IInv', PlaceInv, Next
  PROVE  HubSerial!Next \/ UNCHANGED <<Line, Running, finished, AnsweredPackets>>
<1>1. TypeOK /\ TokenInv /\ TypeOK' /\ TokenInv'
  BY DEF IInv
<1>2. /\ UNCHANGED current => UNCHANGED Running
      /\ UNCHANGED call => UNCHANGED AnsweredPackets
      /\ UNCHANGED <<packetRelay, pendingMsgs, Offered>> => UNCHANGED Line
  BY DEF Running, AnsweredPackets, Line
<1>3. CASE \E c \in Caller : Arrive(c) \/ Enqueue(c)
  <2>1. UNCHANGED <<packetRelay, pendingMsgs, current, finished, queuer, taken>>
    BY <1>3 DEF Arrive, Enqueue, queueing, handling
  <2>2. \A d \in Caller : call'[d] = "answered" <=> call[d] = "answered"
    BY <1>1, <1>3 DEF Arrive, Enqueue, TypeOK
  <2>3. UNCHANGED AnsweredPackets
    BY <2>2 DEF AnsweredPackets
  <2> QED BY <1>2, <2>1, <2>3 DEF Offered
<1>4. CASE QueueTake \/ QueueLog
  <2>1. UNCHANGED <<packetRelay, pendingMsgs, current, finished, call>>
    BY <1>4 DEF QueueTake, QueueLog, LogFailure, handling
  <2>2. Offered = <<>> /\ Offered' = <<>>
    BY <1>4 DEF QueueTake, QueueLog, LogFailure, Offered
  <2> QED BY <1>2, <2>1, <2>2
<1>5. CASE QueueRefuse
  <2>1. PICK m \in Packet : taken = <<m>> /\ Head(taken) = m /\ m.n = 0
    BY <1>1, <1>5, Split, Single DEF QueueRefuse, HasResp, TypeOK
  <2>2. m \in OwnPackets
    BY <2>1, Packets DEF OwnPackets
  <2>3. /\ queuer = "refuse" /\ queuer' = "select" /\ finished' = finished \cup {m}
        /\ call' = [call EXCEPT ![m.by] = "answered"]
        /\ UNCHANGED <<packetRelay, pendingMsgs, current>>
    BY <1>5, <2>1 DEF QueueRefuse, handling
  <2>4. HubSerial!Fresh(m)
    BY <2>1, <2>3, FreshTaken
  <2>5. AnsweredPackets' = AnsweredPackets \cup {m}
    BY <1>1, <2>2, <2>3, AnswerOne
  <2>6. UNCHANGED <<Line, Running>>
    BY <1>2, <2>3 DEF Offered
  <2>7. HubSerial!TurnAway(m)
    BY <2>2, <2>3, <2>4, <2>5, <2>6
       DEF HubSerial!TurnAway, Line, Running, AnsweredPackets, OwnPackets
  <2> QED BY <2>7 DEF HubSerial!Next
<1>6. CASE QueueAppend
  <2>1. PICK m \in Packet : taken = <<m>> /\ Head(taken) = m
    BY <1>1, <1>6, Split, Single DEF QueueAppend, TypeOK
  <2>2. HubSerial!Fresh(m)
    BY <1>6, <2>1, FreshTaken DEF QueueAppend
  <2>3. UNCHANGED <<packetRelay, Running, finished, AnsweredPackets>>
    BY <1>2, <1>6 DEF QueueAppend, handling
  <2>4. Line = packetRelay \o pendingMsgs
    BY <1>1, <1>6, LineParts DEF QueueAppend
  <2>5. Line' = Append(Line, m)
    <3>1. CASE ~waiting
      <4>1. queuer' = "offer" /\ taken' = <<m>> /\ UNCHANGED pendingMsgs
        BY <1>6, <2>1, <3>1 DEF QueueAppend, QueuePacket
      <4>2. packetRelay = <<>> /\ pendingMsgs = <<>>
        BY <1>1, <3>1, EmptySeq DEF TokenInv, TypeOK, Offered
      <4>3. Line = <<>>
        BY <1>1, <2>4, <4>2, ConcatEmptySeq DEF TypeOK
      <4>4. Line' = taken' \o pendingMsgs'
        BY <1>1, <2>3, <4>1, <4>2, ConcatEmptySeq DEF Line, Offered, TypeOK
      <4>5. Line' = <<m>>
        BY <1>1, <4>1, <4>2, <4>4, ConcatEmptySeq DEF TypeOK
      <4> QED BY <4>3, <4>5, AppendAlone
    <3>2. CASE waiting
      <4>1. queuer' = "select" /\ pendingMsgs' = Append(pendingMsgs, m)
        BY <1>6, <2>1, <3>2 DEF QueueAppend, QueuePacket
      <4>2. Line' = packetRelay \o pendingMsgs'
        BY <1>1, <2>3, <4>1, ConcatEmptySeq DEF Line, Offered, TypeOK
      <4>3. packetRelay \in Seq(Packet) /\ pendingMsgs \in Seq(Packet)
        BY <1>1 DEF TypeOK
      <4> QED BY <2>4, <4>1, <4>2, <4>3, AppendBehind
    <3> QED BY <3>1, <3>2
  <2>6. HubSerial!Accept(m)
    BY <2>2, <2>3, <2>5 DEF HubSerial!Accept, Line, Running, AnsweredPackets
  <2> QED BY <2>6 DEF HubSerial!Next
<1>7. CASE QueueOffer
  <2>1. /\ queuer = "offer" /\ queuer' = "select" /\ packetRelay' = taken
        /\ UNCHANGED <<pendingMsgs, current, finished, call>>
    BY <1>7 DEF QueueOffer, handling
  <2>2. Line' = taken \o pendingMsgs
    BY <1>1, <2>1, ConcatEmptySeq DEF Line, Offered, TypeOK
  <2>3. Line = taken \o pendingMsgs
    BY <1>1, <2>1, LineParts
  <2> QED BY <1>2, <2>1, <2>2, <2>3
<1>8. CASE QueueNext
  <2>1. /\ queuer = "select" /\ packetRelay = <<>> /\ packetRelay' = <<>>
        /\ UNCHANGED <<current, finished, call>>
    BY <1>1, <1>8, EmptySeq DEF QueueNext, handling, TokenInv, TypeOK, Offered
  <2>2. Line = pendingMsgs
    BY <1>1, <2>1, LineParts, ConcatEmptySeq DEF TypeOK
  <2>3. CASE pendingMsgs = <<>>
    <3>1. UNCHANGED <<pendingMsgs, queuer, taken>>
      BY <1>8, <2>3 DEF QueueNext, NextPending
    <3> QED BY <1>2, <2>1, <3>1 DEF Offered
  <2>4. CASE NextPending
    <3>1. /\ taken' = <<Head(pendingMsgs)>> /\ pendingMsgs' = Tail(pendingMsgs)
          /\ queuer' = "offer" /\ pendingMsgs # <<>>
      BY <2>4 DEF NextPending
    <3>2. Line' = taken' \o pendingMsgs'
      BY <1>1, <2>1, <3>1, ConcatEmptySeq DEF Line, Offered, TypeOK
    <3>3. Line' = pendingMsgs
      BY <1>1, <3>1, <3>2, Rejoin DEF TypeOK
    <3> QED BY <1>2, <2>1, <2>2, <3>3
  <2> QED BY <1>8, <2>3, <2>4 DEF QueueNext
<1>9. CASE HandlerTake
  <2>1. PICK m \in Packet : packetRelay = <<m>>
    BY <1>1, <1>9, Split DEF HandlerTake, TypeOK
  <2>2. /\ current = <<>> /\ current' = <<m>> /\ packetRelay' = <<>>
        /\ UNCHANGED <<pendingMsgs, queuer, taken, finished, call>>
    BY <1>1, <1>9, <2>1 DEF HandlerTake, queueing, TypeOK
  <2>3. queuer # "offer"
    BY <1>1, <2>1, Single DEF TokenInv
  <2>4. Line = <<m>> \o pendingMsgs
    BY <1>1, <2>1, <2>3, LineParts
  <2>5. Line' = pendingMsgs
    BY <1>1, <2>2, <2>3, ConcatEmptySeq, EmptySeq DEF Line, Offered, TypeOK
  <2>6. Line # <<>> /\ Head(Line) = m /\ Tail(Line) = pendingMsgs
    BY <1>1, <2>4, InFront DEF TypeOK
  <2>7. Running = {} /\ Running' = {m}
    BY <2>2 DEF Running
  <2>8. HubSerial!Start
    BY <1>2, <2>2, <2>5, <2>6, <2>7
       DEF HubSerial!Start, Line, Running, AnsweredPackets
  <2> QED BY <2>8 DEF HubSerial!Next
<1>10. CASE HandlerSelfSend \/ HandlerHangs
  <2>1. UNCHANGED <<packetRelay, pendingMsgs, queuer, taken, current, finished, call>>
    BY <1>10 DEF HandlerSelfSend, HandlerHangs, queueing
  <2> QED BY <1>2, <2>1 DEF Offered
<1>11. CASE HandlerReply
  <2>1. PICK m \in Packet : current = <<m>> /\ Head(current) = m
    BY <1>1, <1>11, Split, Single DEF HandlerReply, TypeOK
  <2>2. UNCHANGED <<packetRelay, pendingMsgs, queuer, taken, current, finished>>
    BY <1>11 DEF HandlerReply, queueing
  <2>3. UNCHANGED <<Line, Running>>
    BY <1>2, <2>2 DEF Offered
  <2>4. CASE m.n = 0
    <3>1. m \in OwnPackets /\ m = PacketOf(m.by, 0) /\ m.by \in Caller
      BY <2>4, Packets DEF OwnPackets
    <3>2. AnsweredPackets' = AnsweredPackets \cup {m}
      BY <1>1, <1>11, <2>1, <2>4, <3>1, AnswerOne DEF HandlerReply, HasResp
    <3>3. m \in Running
      BY <2>1 DEF Running
    <3>4. m \notin AnsweredPackets
      <4>1. m \notin finished /\ handler = "work"
        BY <1>11, <2>1 DEF PlaceInv, OnePlace, HandlerReply
      <4>2. call[m.by] # "answered"
        BY <3>1, <4>1 DEF PlaceInv, Served
      <4>3. \A c \in Caller : PacketOf(c, 0) = m => c = m.by
        BY DEF PacketOf
      <4> QED BY <4>2, <4>3 DEF AnsweredPackets
    <3>5. HubSerial!Answer(m)
      BY <2>2, <2>3, <3>1, <3>2, <3>3, <3>4
         DEF HubSerial!Answer, Line, Running, AnsweredPackets, OwnPackets
    <3> QED BY <3>5 DEF HubSerial!Next
  <2>5. CASE m.n # 0
    <3>1. UNCHANGED call
      BY <1>11, <2>1, <2>5 DEF HandlerReply, HasResp
    <3> QED BY <1>2, <2>2, <2>3, <3>1
  <2> QED BY <2>4, <2>5
<1>12. CASE HandlerDone
  <2>1. PICK m \in Packet : current = <<m>> /\ Head(current) = m
    BY <1>1, <1>12, Split, Single DEF HandlerDone, TypeOK
  <2>2. /\ finished' = finished \cup {m} /\ current' = <<>>
        /\ UNCHANGED <<packetRelay, pendingMsgs, queuer, taken, call>>
    BY <1>12, <2>1 DEF HandlerDone, queueing
  <2>3. Running = {m} /\ Running' = {}
    BY <2>1, <2>2 DEF Running
  <2>4. UNCHANGED <<Line, AnsweredPackets>>
    BY <1>2, <2>2 DEF Offered
  <2>5. HubSerial!Finish
    BY <2>2, <2>3, <2>4 DEF HubSerial!Finish, Line, Running, AnsweredPackets
  <2> QED BY <2>5 DEF HubSerial!Next
<1> QED
  BY <1>3, <1>4, <1>5, <1>6, <1>7, <1>8, <1>9, <1>10, <1>11, <1>12
     DEF Next, Queuer, Handler

(* The two goroutines and their channels are a serial handler: packets are  *)
(* handled one at a time, in the order taken, each at most once, and a      *)
(* caller is answered once, when its packet is being handled or after.      *)
THEOREM HubImplementsSerial == Spec => ImplementsSerial
<1>1. UNCHANGED vars => UNCHANGED <<Line, Running, finished, AnsweredPackets>>
  BY DEF vars, queueing, handling, Line, Offered, Running, AnsweredPackets
<1>2. IInv /\ IInv' /\ PlaceInv /\ [Next]_vars => [HubSerial!Next]_HubSerial!serial
  BY <1>1, SerialStep DEF HubSerial!serial, Line, Running, AnsweredPackets
<1> QED BY SerialInit, <1>2, Inductive, Places, PTL
        DEF Spec, ImplementsSerial, HubSerial!Spec
=============================================================================
