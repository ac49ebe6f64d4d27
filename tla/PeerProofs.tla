----------------------------- MODULE PeerProofs -----------------------------
(***************************************************************************)
(* Proofs about Peer, for any set of pushers and any bounds.                *)
(***************************************************************************)
EXTENDS Peer, ChannelFacts

(* The closing packet and the messages are packets, and differ.             *)
LEMMA Packets ==
  /\ ClosePacket \in Packet
  /\ \A p \in Pusher, k \in 1..MaxPush :
        MessageOf(p, k) \in Packet /\ MessageOf(p, k) # ClosePacket
<1>1. ASSUME NEW p \in Pusher, NEW k \in 1..MaxPush
      PROVE MessageOf(p, k) \in Packet /\ MessageOf(p, k) # ClosePacket
  <2>1. MessageOf(p, k).use # ClosePacket.use
    BY DEF MessageOf, ClosePacket
  <2>2. MessageOf(p, k) \in {MessageOf(q, j) : q \in Pusher, j \in 1..MaxPush}
    OBVIOUS
  <2> QED BY <2>1, <2>2 DEF Packet
<1> QED BY <1>1 DEF Packet

(* NewPeer leaves a peer in which the invariant holds.                      *)
LEMMA InitInv == Init => IInv
<1> SUFFICES ASSUME Init PROVE IInv
  OBVIOUS
<1> USE BoundAssumption DEF Init
<1>1. TypeOK
  <2>1. <<>> \in Seq(Packet) /\ <<>> \in Seq(1..MaxReceive) /\ Len(<<>>) = 0
    BY EmptySeq
  <2>2. /\ push \in [Pusher -> {"idle", "enqueue", "await", "refused"}]
        /\ pushed \in [Pusher -> 0..MaxPush]
        /\ \A p \in Pusher : push[p] = "enqueue" => pushed[p] < MaxPush
    OBVIOUS
  <2>3. received \in 0..MaxReceive /\ handling \subseteq 1..received
    OBVIOUS
  <2>4. waiting \in BOOLEAN /\ (queuer = "offer" <=> held # <<>>)
    BY Zenon
  <2> QED BY <2>1, <2>2, <2>3, <2>4 DEF TypeOK
<1>2. TokenInv /\ NeverBlocks
  BY DEF TokenInv, NeverBlocks
<1>3. OneEnding
  BY DEF OneEnding, CloseWon, CloseQueued, Closeless, Lost, Ending
<1> QED BY <1>1, <1>2, <1>3 DEF IInv

(* No step of a goroutine, a caller or the network leaves the types.        *)
LEMMA TypeInv == ASSUME IInv, Next PROVE TypeOK'
<1> USE BoundAssumption, Packets DEF TypeOK, IInv
<1>1. CASE SetConnection
  BY <1>1 DEF SetConnection, OneEnding, channels, pushing, inbound
<1>2. CASE LinkDown
  BY <1>2 DEF LinkDown, channels, queueing, pushing, inbound
<1>3. CASE ReadDeadline
  BY <1>3 DEF ReadDeadline, ReadFails, ConnectionClosed, channels, queueing,
              pushing, inbound
<1>4. CASE Receive
  BY <1>4 DEF Receive, channels, queueing, pushing
<1>5. ASSUME NEW p \in Pusher, PushMessage(p) PROVE TypeOK'
  BY <1>5 DEF PushMessage, channels, queueing, inbound
<1>6. ASSUME NEW p \in Pusher, PushEnqueue(p) PROVE TypeOK'
  BY <1>6 DEF PushEnqueue, queueing, inbound
<1>7. ASSUME NEW k \in 1..MaxReceive, OnMessage(k) PROVE TypeOK'
  BY <1>7 DEF OnMessage, channels, queueing, pushing
<1>8. CASE Close
  BY <1>8 DEF Close, channels, queueing, pushing, inbound
<1>9. CASE CloseEnqueue
  BY <1>9 DEF CloseEnqueue, queueing, pushing, inbound
<1>10. CASE QueueTake
  <2> DEFINE m == Head(outQueue)
  <2>1. m \in Packet /\ <<m>> \in Seq(Packet) /\ Len(<<m>>) = 1 /\ <<m>> # <<>>
    BY <1>10, Split, Single DEF QueueTake
  <2>2. CASE ~waiting /\ SendNow(m) /\ UNCHANGED pendingMsgs
    BY <1>10, <2>1, <2>2 DEF QueueTake, SendNow, pushing, inbound
  <2>3. CASE /\ waiting /\ pendingMsgs' = Append(pendingMsgs, m)
             /\ UNCHANGED <<waiting, queuer, held>>
    BY <1>10, <2>1, <2>3 DEF QueueTake, pushing, inbound
  <2> QED BY <1>10, <2>2, <2>3 DEF QueueTake, QueuePacket
<1>11. CASE QueueOffer
  BY <1>11 DEF QueueOffer, pushing, inbound
<1>12. CASE QueueNext
  <2>1. CASE NonePending
    <3>1. waiting' \in BOOLEAN /\ UNCHANGED <<pendingMsgs, queuer, held>>
      BY <2>1, Zenon DEF NonePending
    <3> QED BY <1>12, <3>1 DEF QueueNext, pushing, inbound
  <2>2. CASE NextPending
    <3>1. /\ Tail(pendingMsgs) \in Seq(Packet)
          /\ <<Head(pendingMsgs)>> \in Seq(Packet)
          /\ Len(<<Head(pendingMsgs)>>) = 1 /\ <<Head(pendingMsgs)>> # <<>>
      BY <2>2, Split, Single DEF NextPending
    <3> QED
      BY <1>12, <2>2, <3>1 DEF QueueNext, NextPending, SendNow, pushing, inbound
  <2> QED BY <1>12, <2>1, <2>2 DEF QueueNext
<1>13. CASE QueueQuit
  BY <1>13 DEF QueueQuit, pushing, inbound
<1>14. CASE QueueClean
  <2>1. pendingMsgs # <<>> => Tail(pendingMsgs) \in Seq(Packet)
    BY Split
  <2>2. /\ pendingMsgs' \in Seq(Packet) /\ queuer = "clean"
        /\ queuer' \in {"exited", "spin"}
    BY <1>14, <2>1 DEF QueueClean
  <2>3. UNCHANGED <<connected, link, channels, waiting, held, writer, current,
                    reader, pushing, closer, inbound, disconnects, written>>
    BY <1>14 DEF QueueClean
  <2> QED BY <2>2, <2>3 DEF channels, pushing, inbound
<1>15. CASE WriterTake
  <2>0. TypeOK
    OBVIOUS
  <2> HIDE DEF IInv
  <2>1. Head(sendQueue) \in Packet /\ sendQueue = <<Head(sendQueue)>>
    BY <1>15, <2>0, Split DEF WriterTake
  <2>2. /\ current' = sendQueue /\ sendQueue' = <<>>
        /\ writer' = UseOf(Head(sendQueue))
    BY <1>15 DEF WriterTake
  <2>4. \/ writer' = "close" /\ Head(sendQueue) = ClosePacket
        \/ writer' = "write" /\ Head(sendQueue) # ClosePacket
    BY <2>2 DEF UseOf
  <2>3. UNCHANGED <<connected, link, outQueue, sendDone, connclosed, queueing,
                    reader, pushing, closer, inbound, disconnects, written>>
    BY <1>15 DEF WriterTake
  <2>5. /\ sendQueue' \in Seq(Packet) /\ Len(sendQueue') <= 1
        /\ current' \in Seq(Packet) /\ Len(current') <= 1 /\ current' # <<>>
        /\ writer' = "close" => current' = <<ClosePacket>>
        /\ writer' = "write" => Head(current') # ClosePacket
    <3>1. <<>> \in Seq(Packet) /\ Len(<<>>) = 0
      BY EmptySeq
    <3>2. sendQueue \in Seq(Packet) /\ Len(sendQueue) <= 1 /\ sendQueue # <<>>
      BY <1>15, <2>0 DEF WriterTake
    <3> QED BY <2>1, <2>2, <2>4, <3>1, <3>2
  <2> QED BY <2>0, <2>3, <2>4, <2>5 DEF queueing, pushing, inbound
<1>16. CASE WriteMessage
  BY <1>16 DEF WriteMessage, Awaited, channels, queueing, pushing, inbound
<1>17. CASE WriterReply
  <2>1. /\ push' \in [Pusher -> {"idle", "enqueue", "await", "refused"}]
        /\ \A p \in Pusher : push'[p] = "enqueue" => push[p] = "enqueue"
    BY <1>17 DEF WriterReply
  <2>2. /\ writer = "reply" /\ writer' = "ack"
        /\ UNCHANGED <<connected, link, channels, queueing, current, reader, pushed,
                       closer, inbound, disconnects, written>>
    BY <1>17 DEF WriterReply
  <2> QED BY <2>1, <2>2 DEF channels, queueing, inbound
<1>18. CASE WriterAck
  BY <1>18 DEF WriterAck, queueing, pushing, inbound
<1>19. CASE CloseConnect
  BY <1>19 DEF CloseConnect, channels, queueing, pushing, inbound
<1>20. CASE CloseSignal
  BY <1>20 DEF CloseSignal, queueing, pushing, inbound
<1>21. CASE PingFails
  BY <1>21 DEF PingFails, ConnectionClosed, channels, queueing, pushing, inbound
<1>22. CASE WriterSignal
  BY <1>22 DEF WriterSignal, Signal, queueing, pushing, inbound
<1>23. CASE WriterCallback
  BY <1>23 DEF WriterCallback, OnDisconnect, channels, queueing, pushing, inbound
<1>24. CASE ReadError
  BY <1>24 DEF ReadError, ReadFails, ConnectionClosed, channels, queueing,
               pushing, inbound
<1>25. CASE ReaderSignal
  BY <1>25 DEF ReaderSignal, Signal, queueing, pushing, inbound
<1>26. CASE ReaderCallback
  BY <1>26 DEF ReaderCallback, OnDisconnect, channels, queueing, pushing, inbound
<1> QED
  BY <1>1, <1>2, <1>3, <1>4, <1>5, <1>6, <1>7, <1>8, <1>9, <1>10, <1>11,
     <1>12, <1>13, <1>14, <1>15, <1>16, <1>17, <1>18, <1>19, <1>20, <1>21,
     <1>22, <1>23, <1>24, <1>25, <1>26 DEF Next, Queuer, Writer, Reader
-----------------------------------------------------------------------------
tokenVars == <<held, sendQueue, current, sendDone, waiting, pendingMsgs>>

(* The token: only these steps move a packet along or change the flag.      *)
LEMMA TokenSteps ==
  Next => \/ UNCHANGED tokenVars
          \/ QueueTake \/ QueueOffer \/ QueueNext \/ QueueClean
          \/ WriterTake \/ WriterAck
  BY DEF Next, tokenVars, Queuer, Writer, Reader, SetConnection, LinkDown,
         ReadDeadline, ReadError, ReadFails, Receive, PushMessage, PushEnqueue,
         OnMessage, Close, CloseEnqueue, QueueQuit, WriteMessage, WriterReply,
         CloseConnect, CloseSignal, PingFails, WriterSignal, WriterCallback,
         ReaderSignal, ReaderCallback, channels, queueing

(* Every step keeps the one token between packetQueueHandler and            *)
(* packetHandler.                                                           *)
LEMMA TokenStep == ASSUME IInv, Next PROVE TokenInv'
<1> USE DEF IInv, TokenInv
<1>1. TypeOK /\ TypeOK'
  BY TypeInv
<1>2. CASE UNCHANGED tokenVars
  BY <1>2 DEF tokenVars
<1>3. CASE QueueTake
  <2>1. Len(<<Head(outQueue)>>) = 1
    OBVIOUS
  <2>2. CASE ~waiting /\ SendNow(Head(outQueue)) /\ UNCHANGED pendingMsgs
    BY <1>1, <1>3, <2>1, <2>2 DEF QueueTake, SendNow, TypeOK
  <2>3. CASE /\ waiting /\ UNCHANGED <<waiting, queuer, held>>
    BY <1>1, <1>3, <2>3 DEF QueueTake, TypeOK
  <2> QED BY <1>3, <2>2, <2>3 DEF QueueTake, QueuePacket
<1>4. CASE QueueOffer
  BY <1>1, <1>4, EmptySeq DEF QueueOffer, TypeOK
<1>5. CASE QueueNext
  <2>1. CASE NonePending
    BY <1>1, <1>5, <2>1 DEF QueueNext, NonePending, TypeOK
  <2>2. CASE NextPending
    BY <1>1, <1>5, <2>2 DEF QueueNext, NextPending, SendNow, TypeOK
  <2> QED BY <1>5, <2>1, <2>2 DEF QueueNext
<1>6. CASE QueueClean
  BY <1>1, <1>6 DEF QueueClean, channels
<1>7. CASE WriterTake
  BY <1>1, <1>7, EmptySeq DEF WriterTake, queueing, TypeOK
<1>8. CASE WriterAck
  BY <1>1, <1>8, EmptySeq DEF WriterAck, queueing, TypeOK
<1> QED
  BY <1>2, <1>3, <1>4, <1>5, <1>6, <1>7, <1>8, TokenSteps
-----------------------------------------------------------------------------
(* Where the closing packet can be.                                         *)
LEMMA CloselessParts ==
  ASSUME NEW s \in Seq(Packet), s # <<>>
  PROVE  /\ Closeless(s) => Head(s) # ClosePacket /\ Closeless(Tail(s))
         /\ Head(s) # ClosePacket /\ Len(s) <= 1 => Closeless(s)
  BY Split DEF Closeless

(* Queues stay without a closing packet when packets are moved, added or    *)
(* taken that are none.                                                     *)
LEMMA CloselessBuild ==
  /\ Closeless(<<>>)
  /\ \A m \in Packet : m # ClosePacket => Closeless(<<m>>)
  /\ \A s \in Seq(Packet), m \in Packet :
        Closeless(s) /\ m # ClosePacket => Closeless(Append(s, m))
  BY DEF Closeless

closeVars == <<outQueue, pendingMsgs, held, sendQueue, current>>

(* Only Close puts the closing packet anywhere.                             *)
LEMMA CloseSteps ==
  Next => \/ UNCHANGED closeVars
          \/ \E p \in Pusher : PushEnqueue(p)
          \/ CloseEnqueue
          \/ QueueTake \/ QueueOffer \/ QueueNext \/ QueueClean
          \/ WriterTake \/ WriterAck
  BY DEF Next, closeVars, Queuer, Writer, Reader, SetConnection, LinkDown,
         ReadDeadline, ReadError, ReadFails, Receive, PushMessage, OnMessage,
         Close, QueueQuit, WriteMessage, WriterReply, CloseConnect,
         CloseSignal, PingFails, WriterSignal, WriterCallback, ReaderSignal,
         ReaderCallback, channels, queueing

(* Unless Close queues it, there is no closing packet where there was none. *)
LEMMA CloseQueuedStep ==
  ASSUME IInv, Next, ~CloseQueued, ~CloseEnqueue
  PROVE  ~CloseQueued'
<1> USE CloselessBuild DEF CloseQueued
<1>1. TypeOK
  BY DEF IInv
<1>2. CASE UNCHANGED closeVars
  BY <1>2 DEF closeVars, Closeless
<1>3. ASSUME NEW p \in Pusher, PushEnqueue(p) PROVE ~CloseQueued'
  <2>1. pushed[p] + 1 \in 1..MaxPush
    BY <1>1, <1>3, BoundAssumption DEF PushEnqueue, TypeOK
  <2>2. Closeless(<<MessageOf(p, pushed[p] + 1)>>)
    BY <2>1, Packets
  <2>3. outQueue' = <<MessageOf(p, pushed[p] + 1)>>
        /\ UNCHANGED <<pendingMsgs, held, sendQueue, current>>
    BY <1>3 DEF PushEnqueue, queueing
  <2> QED BY <2>2, <2>3 DEF Closeless
<1>4. CASE QueueTake
  <2>1. Head(outQueue) # ClosePacket /\ Head(outQueue) \in Packet
    BY <1>1, <1>4, CloselessParts, Split DEF QueueTake, TypeOK
  <2>2. outQueue' = <<>> /\ UNCHANGED <<sendQueue, current>>
    BY <1>4 DEF QueueTake
  <2>3. CASE held' = <<Head(outQueue)>> /\ UNCHANGED pendingMsgs
    BY <2>1, <2>2, <2>3 DEF Closeless
  <2>4. CASE pendingMsgs' = Append(pendingMsgs, Head(outQueue)) /\ UNCHANGED held
    BY <1>1, <2>1, <2>2, <2>4 DEF Closeless, TypeOK
  <2> QED BY <1>4, <2>3, <2>4 DEF QueueTake, QueuePacket, SendNow
<1>5. CASE QueueOffer
  BY <1>5 DEF QueueOffer, Closeless
<1>6. CASE QueueNext
  <2>1. CASE NonePending
    BY <1>6, <2>1 DEF QueueNext, NonePending, Closeless
  <2>2. CASE NextPending
    <3>1. /\ Head(pendingMsgs) # ClosePacket /\ Head(pendingMsgs) \in Packet
          /\ Closeless(Tail(pendingMsgs))
      BY <1>1, <2>2, CloselessParts, Split DEF NextPending, TypeOK
    <3>2. /\ held' = <<Head(pendingMsgs)>> /\ pendingMsgs' = Tail(pendingMsgs)
          /\ UNCHANGED <<outQueue, sendQueue, current>>
      BY <1>6, <2>2 DEF QueueNext, NextPending, SendNow
    <3> QED BY <3>1, <3>2 DEF Closeless
  <2> QED BY <1>6, <2>1, <2>2 DEF QueueNext
<1>7. CASE QueueClean
  <2>1. \/ UNCHANGED pendingMsgs
        \/ pendingMsgs # <<>> /\ pendingMsgs' = Tail(pendingMsgs)
    BY <1>7 DEF QueueClean
  <2>2. UNCHANGED <<outQueue, held, sendQueue, current>>
    BY <1>7 DEF QueueClean, channels
  <2>3. pendingMsgs # <<>> => Closeless(Tail(pendingMsgs))
    BY <1>1, CloselessParts DEF TypeOK
  <2> QED BY <2>1, <2>2, <2>3 DEF Closeless
<1>8. CASE WriterTake
  BY <1>8 DEF WriterTake, queueing, Closeless
<1>9. CASE WriterAck
  BY <1>9 DEF WriterAck, queueing, Closeless
<1> QED
  BY <1>2, <1>3, <1>4, <1>5, <1>6, <1>7, <1>8, <1>9, CloseSteps

-----------------------------------------------------------------------------
(* Every step keeps the rule that one party alone ends the connection.      *)
LEMMA EndingStep == ASSUME IInv, Next PROVE OneEnding'
<1> USE DEF Lost, Ending, CloseWon
<1>1. TypeOK /\ TypeOK' /\ OneEnding /\ NeverBlocks
  BY TypeInv DEF IInv
<1>2. CloseQueued' => CloseQueued \/ CloseEnqueue
  BY CloseQueuedStep
<1>3. CASE SetConnection
  BY <1>1, <1>2, <1>3 DEF SetConnection, OneEnding, CloseEnqueue, channels, TypeOK
<1>4. CASE LinkDown
  BY <1>1, <1>2, <1>4 DEF LinkDown, OneEnding, CloseEnqueue, channels, queueing
<1>5. CASE ReadFails
  BY <1>1, <1>2, <1>5 DEF ReadFails, ConnectionClosed, OneEnding, CloseEnqueue,
     channels, queueing, TypeOK
<1>6. CASE PingFails
  BY <1>1, <1>2, <1>6 DEF PingFails, ConnectionClosed, OneEnding, CloseEnqueue,
     channels, queueing, TypeOK
<1>7. CASE ReaderSignal
  BY <1>1, <1>2, <1>7 DEF ReaderSignal, Signal, OneEnding, CloseEnqueue, queueing
<1>8. CASE WriterSignal
  BY <1>1, <1>2, <1>8 DEF WriterSignal, Signal, OneEnding, CloseEnqueue, queueing
<1>9. CASE ReaderCallback
  BY <1>1, <1>2, <1>9
     DEF ReaderCallback, OnDisconnect, OneEnding, CloseEnqueue, channels,
         queueing, TypeOK
<1>10. CASE WriterCallback
  BY <1>1, <1>2, <1>10
     DEF WriterCallback, OnDisconnect, OneEnding, CloseEnqueue, channels,
         queueing, TypeOK
<1>11. CASE Close
  BY <1>1, <1>2, <1>11 DEF Close, OneEnding, CloseEnqueue, channels, queueing, TypeOK
<1>12. CASE CloseEnqueue
  BY <1>1, <1>12 DEF CloseEnqueue, OneEnding, queueing
<1>13. CASE CloseConnect
  <2>1. CloseQueued
    BY <1>1, <1>13 DEF CloseConnect, CloseQueued, Closeless, TypeOK
  <2>2. connected = 2 /\ closer = "returned" /\ ~Lost
    BY <1>1, <1>13, <2>1 DEF CloseConnect, OneEnding, TypeOK
  <2> QED BY <1>1, <1>2, <1>13, <2>1, <2>2
          DEF CloseConnect, OneEnding, CloseEnqueue, channels, queueing, TypeOK
<1>14. CASE CloseSignal
  BY <1>1, <1>2, <1>14 DEF CloseSignal, OneEnding, CloseEnqueue, queueing, TypeOK
<1>15. CASE QueueQuit
  BY <1>1, <1>2, <1>15 DEF QueueQuit, OneEnding, CloseEnqueue
<1>16. CASE QueueTake \/ QueueOffer \/ QueueNext \/ QueueClean
  BY <1>1, <1>2, <1>16
     DEF QueueTake, QueuePacket, SendNow, QueueOffer, QueueNext, NonePending,
         NextPending, QueueClean, channels, OneEnding, CloseEnqueue
<1>17. CASE WriterTake \/ WriteMessage \/ WriterReply \/ WriterAck
  BY <1>1, <1>2, <1>17
     DEF WriterTake, UseOf, WriteMessage, WriterReply, WriterAck, channels,
         queueing, OneEnding, CloseEnqueue
<1>18. CASE Receive \/ \E k \in 1..MaxReceive : OnMessage(k)
  BY <1>1, <1>2, <1>18
     DEF Receive, OnMessage, channels, queueing, OneEnding, CloseEnqueue
<1>19. CASE \E p \in Pusher : PushMessage(p) \/ PushEnqueue(p)
  BY <1>1, <1>2, <1>19
     DEF PushMessage, PushEnqueue, channels, queueing, OneEnding, CloseEnqueue
<1> QED
  BY <1>3, <1>4, <1>5, <1>6, <1>7, <1>8, <1>9, <1>10, <1>11, <1>12, <1>13,
     <1>14, <1>15, <1>16, <1>17, <1>18, <1>19
     DEF Next, Queuer, Writer, Reader, ReadError, ReadDeadline
-----------------------------------------------------------------------------
SignalRoom == writer = "signal" \/ reader = "signal" => connclosed = 0

(* With the token and the one ending, no send of the hand-over can block.   *)
LEMMA RoomEverywhere ==
  TypeOK /\ TokenInv /\ OneEnding /\ SignalRoom => NeverBlocks
<1> SUFFICES ASSUME TypeOK, TokenInv, OneEnding, SignalRoom PROVE NeverBlocks
  OBVIOUS
<1>0. Len(held) \in Nat /\ Len(sendQueue) \in Nat /\ Len(current) \in Nat
  BY LenProperties DEF TypeOK
<1> DEFINE total == Len(held) + Len(sendQueue) + Len(current) + sendDone
<1>a. total <= 1 /\ sendDone \in Nat
  BY DEF TokenInv, TypeOK
<1>1. queuer = "offer" => Len(sendQueue) = 0
  <2>1. queuer = "offer" => Len(held) # 0
    BY EmptySeq DEF TypeOK
  <2> QED BY <1>0, <1>a, <2>1
<1>2. writer = "ack" => sendDone = 0
  <2>1. writer = "ack" => Len(current) # 0
    BY EmptySeq DEF TypeOK
  <2> QED BY <1>0, <1>a, <2>1
<1>3. writer = "shut" => connclosed = 0
  BY DEF OneEnding, Lost, Ending, TypeOK
<1> QED BY <1>1, <1>2, <1>3, EmptySeq DEF NeverBlocks, SignalRoom, TypeOK

(* connclosed has room for the signal of reader and pinger.                 *)
LEMMA SignalStep ==
  ASSUME IInv, Next PROVE SignalRoom'
<1> USE DEF SignalRoom, IInv, NeverBlocks, OneEnding, Lost, Ending, TypeOK
<1>1. CASE CloseSignal
  BY <1>1 DEF CloseSignal
<1>2. CASE ReaderSignal \/ WriterSignal
  BY <1>2 DEF ReaderSignal, WriterSignal, Signal
<1>3. CASE PingFails \/ ReadError \/ ReadDeadline
  BY <1>3 DEF PingFails, ReadError, ReadDeadline, ReadFails, ConnectionClosed,
              channels
<1>4. CASE \/ SetConnection \/ LinkDown \/ Receive \/ Close \/ CloseEnqueue
           \/ \E p \in Pusher : PushMessage(p) \/ PushEnqueue(p)
           \/ \E k \in 1..MaxReceive : OnMessage(k)
  BY <1>4 DEF SetConnection, LinkDown, Receive, Close, CloseEnqueue,
              PushMessage, PushEnqueue, OnMessage, channels
<1>5. CASE Queuer
  BY <1>5 DEF Queuer, QueueTake, QueueOffer, QueueNext, QueueQuit, QueueClean,
              channels
<1>6. CASE \/ WriterTake \/ WriteMessage \/ WriterReply \/ WriterAck
           \/ CloseConnect \/ WriterCallback \/ ReaderCallback
  BY <1>6 DEF WriterTake, UseOf, WriteMessage, WriterReply, WriterAck,
              CloseConnect, WriterCallback, ReaderCallback, OnDisconnect, channels
<1> QED
  BY <1>1, <1>2, <1>3, <1>4, <1>5, <1>6 DEF Next, Writer, Reader

(* The invariant speaks of the peer's variables only.                       *)
LEMMA StutterInv == ASSUME IInv, UNCHANGED vars PROVE IInv'
  BY DEF vars, channels, queueing, pushing, inbound, IInv, TypeOK, TokenInv,
         NeverBlocks, OneEnding, Lost, Ending, CloseWon, CloseQueued, Closeless

(* The four invariants of the peer are inductive.                           *)
THEOREM Inductive == Spec => []IInv
<1>1. IInv /\ Next => IInv'
  <2> SUFFICES ASSUME IInv, Next PROVE IInv'
    OBVIOUS
  <2>1. TypeOK' /\ TokenInv' /\ OneEnding'
    BY TypeInv, TokenStep, EndingStep
  <2>2. NeverBlocks'
    BY <2>1, SignalStep, RoomEverywhere, PTL
  <2> QED BY <2>1, <2>2 DEF IInv
<1> QED BY InitInv, StutterInv, <1>1, PTL DEF Spec

(* Every variable of the peer keeps its type.                               *)
THEOREM PeerTypeOK == Spec => []TypeOK
  BY Inductive, PTL DEF IInv

(* The hand-over of packets keeps one token: the flag "waiting" of          *)
(* packetQueueHandler never disagrees with what is under way.               *)
THEOREM PeerToken == Spec => []TokenInv
  BY Inductive, PTL DEF IInv

(* packetQueueHandler and packetHandler never block on each other.          *)
THEOREM PeerNeverBlocks == Spec => []NeverBlocks
  BY Inductive, PTL DEF IInv

(* One of reader, pinger and Close ends the connection, and only once.      *)
THEOREM PeerOneEnding == Spec => []OneEnding
  BY Inductive, PTL DEF IInv

-----------------------------------------------------------------------------
(* Concatenation, kept as a name so that the provers move packets by the    *)
(* laws below and never element by element.                                 *)
Then(x, y) == x \o y

(* Equality of two lines, kept as a name for the same reason.               *)
Same(x, y) == x = y

(* The laws of concatenation.                                               *)
LEMMA ThenTyped ==
  \A x, y \in Seq(Packet) : Then(x, y) \in Seq(Packet)
  BY ConcatProperties DEF Then

(* Nothing in front or behind changes nothing.                              *)
LEMMA ThenNone ==
  \A x \in Seq(Packet) : Then(x, <<>>) = x /\ Then(<<>>, x) = x
  BY ConcatEmptySeq DEF Then

(* Three sequences, whichever two are joined first.                         *)
LEMMA ThenGroups ==
  \A x, y, z \in Seq(Packet) : Then(Then(x, y), z) = Then(x, Then(y, z))
<1> SUFFICES ASSUME NEW x \in Seq(Packet), NEW y \in Seq(Packet), NEW z \in Seq(Packet)
             PROVE  Then(Then(x, y), z) = Then(x, Then(y, z))
  OBVIOUS
<1> QED BY ConcatAssociative DEF Then

(* The first packet is the first of the sequence in front.                  *)
LEMMA ThenFirst ==
  \A x, y \in Seq(Packet) :
     x # <<>> => /\ Then(x, y) # <<>> /\ Head(Then(x, y)) = Head(x)
                 /\ Tail(Then(x, y)) = Then(Tail(x), y)
<1> SUFFICES ASSUME NEW x \in Seq(Packet), NEW y \in Seq(Packet), x # <<>>
             PROVE  /\ Then(x, y) # <<>> /\ Head(Then(x, y)) = Head(x)
                    /\ Tail(Then(x, y)) = Then(Tail(x), y)
  OBVIOUS
<1> QED BY HeadOfConcat DEF Then

(* The first packet in front of the others.                                 *)
LEMMA ThenSplit ==
  \A x \in Seq(Packet) :
     x # <<>> => /\ <<Head(x)>> \in Seq(Packet) /\ Tail(x) \in Seq(Packet)
                 /\ Then(<<Head(x)>>, Tail(x)) = x
<1> SUFFICES ASSUME NEW x \in Seq(Packet), x # <<>>
             PROVE  /\ <<Head(x)>> \in Seq(Packet) /\ Tail(x) \in Seq(Packet)
                    /\ Then(<<Head(x)>>, Tail(x)) = x
  OBVIOUS
<1> QED BY Rejoin, Split, Single DEF Then

(* One packet behind the others is appended.                                *)
LEMMA ThenAppend ==
  \A x \in Seq(Packet), m \in Packet : Then(x, <<m>>) = Append(x, m)
<1> SUFFICES ASSUME NEW x \in Seq(Packet), NEW m \in Packet
             PROVE  Then(x, <<m>>) = Append(x, m)
  OBVIOUS
<1> QED BY AppendIsConcat DEF Then

(* q without one of its packets is r.                                       *)
Misses(q, r) == \E i \in DOMAIN q : r = SubSeq(q, 1, i - 1) \o SubSeq(q, i + 1, Len(q))

(* A packet lost from the sequence behind is lost from both.                *)
LEMMA ThenMisses ==
  \A x, y \in Seq(Packet) : y # <<>> => Misses(Then(x, y), Then(x, Tail(y)))
<1> SUFFICES ASSUME NEW x \in Seq(Packet), NEW y \in Seq(Packet), y # <<>>
             PROVE  Misses(Then(x, y), Then(x, Tail(y)))
  OBVIOUS
<1>1. PICK q : q = x \o y
  OBVIOUS
<1>2. \E i \in DOMAIN q :
        SubSeq(q, 1, i - 1) \o SubSeq(q, i + 1, Len(q)) = x \o Tail(y)
  BY <1>1, WithoutOne
<1> QED BY <1>1, <1>2 DEF Then, Misses

-----------------------------------------------------------------------------
(* What is under way, from the packet being written to the channel that the *)
(* pushers fill, as one line.                                               *)
Line(t, s, h, p, o) == Then(Then(Then(Then(t, s), h), p), o)

(* What the goroutines do to the line as they hand packets on.              *)
LEMMA LineMoves ==
  ASSUME NEW t \in Seq(Packet), NEW s \in Seq(Packet), NEW h \in Seq(Packet),
         NEW p \in Seq(Packet), NEW o \in Seq(Packet)
  PROVE  /\ Line(t, s, h, p, o) \in Seq(Packet)
         /\ Same(Line(t, <<>>, h, p, o), Line(t, h, <<>>, p, o))
         /\ Same(Line(<<>>, s, h, p, o), Line(s, <<>>, h, p, o))
         /\ Same(Line(t, s, <<>>, <<>>, o), Line(t, s, o, <<>>, <<>>))
         /\ Same(Line(t, s, h, p, o), Line(t, s, h, Then(p, o), <<>>))
         /\ p # <<>> => Same(Line(t, s, <<>>, p, o),
                            Line(t, s, <<Head(p)>>, Tail(p), o))
<1>1. Line(t, s, h, p, o) \in Seq(Packet)
  BY ThenTyped DEF Line
<1>2. Line(t, <<>>, h, p, o) = Line(t, h, <<>>, p, o)
  BY ThenTyped, ThenNone DEF Line
<1>3. Line(<<>>, s, h, p, o) = Line(s, <<>>, h, p, o)
  BY ThenTyped, ThenNone DEF Line
<1>4. Line(t, s, <<>>, <<>>, o) = Line(t, s, o, <<>>, <<>>)
  BY ThenTyped, ThenNone DEF Line
<1>5. Line(t, s, h, p, o) = Line(t, s, h, Then(p, o), <<>>)
  <2>1. PICK a \in Seq(Packet) : a = Then(Then(t, s), h)
    BY ThenTyped
  <2>2. Then(Then(a, p), o) = Then(a, Then(p, o)) /\ Then(a, Then(p, o)) \in Seq(Packet)
    BY ThenTyped, ThenGroups
  <2>3. Then(Then(a, Then(p, o)), <<>>) = Then(a, Then(p, o))
    BY <2>2, ThenNone
  <2> QED BY <2>1, <2>2, <2>3 DEF Line
<1>6. ASSUME p # <<>>
      PROVE  Line(t, s, <<>>, p, o) = Line(t, s, <<Head(p)>>, Tail(p), o)
  <2>1. PICK a \in Seq(Packet) : a = Then(t, s)
    BY ThenTyped
  <2>2. PICK x \in Seq(Packet), y \in Seq(Packet) :
          x = <<Head(p)>> /\ y = Tail(p) /\ Then(x, y) = p
    BY <1>6, ThenSplit
  <2>3. Then(x, y) = p
    BY <2>2
  <2>4. Then(Then(a, x), y) = Then(a, p)
    BY <2>3, ThenGroups
  <2>5. Then(a, <<>>) = a
    BY ThenNone
  <2> QED BY <2>1, <2>2, <2>4, <2>5 DEF Line
<1> QED BY <1>1, <1>2, <1>3, <1>4, <1>5, <1>6 DEF Same

(* A push is behind everything.                                            *)
LEMMA LineGrows ==
  ASSUME NEW t \in Seq(Packet), NEW s \in Seq(Packet), NEW h \in Seq(Packet),
         NEW p \in Seq(Packet), NEW m \in Packet
  PROVE  Same(Line(t, s, h, p, <<m>>), Append(Line(t, s, h, p, <<>>), m))
  BY ThenTyped, ThenNone, ThenAppend DEF Line, Same

(* x is e in front of y.                                                    *)
Begins(x, e, y) == x # <<>> /\ Head(x) = e /\ Tail(x) = y

(* A packet taken from the sequence in front is taken from both.            *)
LEMMA ThenBegins ==
  ASSUME NEW x \in Seq(Packet), NEW y \in Seq(Packet), NEW z \in Seq(Packet),
         NEW e \in Packet, Begins(x, e, y)
  PROVE  Begins(Then(x, z), e, Then(y, z))
<1>1. x # <<>> /\ Head(x) = e /\ y = Tail(x)
  BY DEF Begins
<1>2. Then(x, z) # <<>> /\ Head(Then(x, z)) = e
  BY <1>1, ThenFirst
<1>3. Tail(Then(x, z)) = Then(y, z)
  BY <1>1, ThenFirst
<1> QED BY <1>2, <1>3 DEF Begins

(* A write takes the front.                                                 *)
LEMMA LineShrinks ==
  ASSUME NEW t \in Seq(Packet), NEW s \in Seq(Packet), NEW h \in Seq(Packet),
         NEW p \in Seq(Packet), NEW o \in Seq(Packet), NEW e \in Packet,
         NEW r \in Seq(Packet), Begins(t, e, r)
  PROVE  Begins(Line(t, s, h, p, o), e, Line(r, s, h, p, o))
<1>1. Begins(Then(t, s), e, Then(r, s))
  BY ThenBegins
<1>2. Begins(Then(Then(t, s), h), e, Then(Then(r, s), h))
  BY <1>1, ThenTyped, ThenBegins
<1>3. Begins(Then(Then(Then(t, s), h), p), e, Then(Then(Then(r, s), h), p))
  BY <1>2, ThenTyped, ThenBegins
<1> QED BY <1>3, ThenTyped, ThenBegins DEF Line

(* What the clean-up of the list takes out.                                 *)
LEMMA LineCleaned ==
  ASSUME NEW t \in Seq(Packet), NEW s \in Seq(Packet), NEW h \in Seq(Packet),
         NEW p \in Seq(Packet), NEW o \in Seq(Packet), p # <<>>
  PROVE  Misses(Line(t, s, h, p, o), Line(t, s, h, Tail(p), o))
<1>1. PICK a \in Seq(Packet) : a = Then(Then(t, s), h)
  BY ThenTyped
<1>2. Then(p, o) \in Seq(Packet) /\ Then(p, o) # <<>>
  BY ThenTyped, ThenFirst
<1>3. Tail(Then(p, o)) = Then(Tail(p), o) /\ Tail(p) \in Seq(Packet)
  BY ThenFirst, ThenSplit
<1>4. Line(t, s, h, p, o) = Then(a, Then(p, o))
  BY <1>1, ThenGroups DEF Line
<1>5. Line(t, s, h, Tail(p), o) = Then(a, Then(Tail(p), o))
  <2>1. PICK y \in Seq(Packet) : y = Tail(p)
    BY <1>3
  <2>2. Then(Then(a, y), o) = Then(a, Then(y, o))
    BY ThenGroups
  <2> QED BY <1>1, <2>1, <2>2 DEF Line
<1> QED BY <1>2, <1>3, <1>4, <1>5, ThenMisses

(* What a write that fails takes out.                                       *)
LEMMA FrontLost ==
  ASSUME NEW q \in Seq(Packet), NEW e \in Packet, NEW r \in Seq(Packet), Begins(q, e, r)
  PROVE  Misses(q, r)
<1>1. q # <<>> /\ r = Tail(q)
  BY DEF Begins
<1>2. <<>> \in Seq(Packet)
  BY EmptySeq
<1>3. Misses(Then(<<>>, q), Then(<<>>, r))
  BY <1>1, <1>2, ThenMisses
<1> QED BY <1>3, ThenNone

-----------------------------------------------------------------------------
(* packetQueueHandler leaves its loop only when the connection has ended.   *)
QuitAfterEnd == queuer \in {"clean", "spin", "exited"} => Lost \/ link = "closed"

(* An end of the connection that was noticed stays noticed.                 *)
LEMMA EndStays == ASSUME IInv, Next, Lost \/ link = "closed"
                  PROVE  (Lost \/ link = "closed")'
<1> USE DEF Lost, Ending, IInv, TypeOK
<1>1. CASE PingFails \/ ReadError \/ ReadDeadline
  BY <1>1 DEF PingFails, ReadError, ReadDeadline, ReadFails, ConnectionClosed
<1>2. CASE WriterSignal \/ WriterCallback \/ ReaderSignal \/ ReaderCallback
  BY <1>2 DEF WriterSignal, WriterCallback, ReaderSignal, ReaderCallback,
              Signal, OnDisconnect
<1>3. CASE SetConnection
  BY <1>3 DEF SetConnection, OneEnding
<1>4. CASE \/ LinkDown \/ Receive \/ Close \/ CloseEnqueue
           \/ \E p \in Pusher : PushMessage(p) \/ PushEnqueue(p)
           \/ \E k \in 1..MaxReceive : OnMessage(k)
  BY <1>4 DEF LinkDown, Receive, Close, CloseEnqueue, PushMessage, PushEnqueue,
              OnMessage
<1>5. CASE Queuer
  BY <1>5 DEF Queuer, QueueTake, QueueOffer, QueueNext, QueueQuit, QueueClean
<1>6. CASE WriterTake \/ WriteMessage \/ WriterReply \/ WriterAck
           \/ CloseConnect \/ CloseSignal
  BY <1>6 DEF WriterTake, WriteMessage, WriterReply, WriterAck, CloseConnect,
              CloseSignal
<1> QED
  BY <1>1, <1>2, <1>3, <1>4, <1>5, <1>6 DEF Next, Writer, Reader

(* Only the signal on connclosed ends the loop.                             *)
LEMMA QuitSteps ==
  ASSUME Next, queuer' \in {"clean", "spin", "exited"}
  PROVE  queuer \in {"clean", "spin", "exited"} \/ QueueQuit
<1>1. CASE Queuer
  BY <1>1 DEF Queuer, QueueTake, QueuePacket, SendNow, QueueOffer, QueueNext,
              NonePending, NextPending, QueueClean
<1>2. CASE Writer \/ Reader
  BY <1>2 DEF Writer, Reader, WriterTake, WriteMessage, WriterReply, WriterAck,
     CloseConnect, CloseSignal, PingFails, WriterSignal, WriterCallback,
     ReadError, ReadFails, ReaderSignal, ReaderCallback, queueing
<1>3. CASE ~Queuer /\ ~Writer /\ ~Reader
  BY <1>3 DEF Next, SetConnection, LinkDown, ReadDeadline, ReadFails, Receive,
     PushMessage, PushEnqueue, OnMessage, Close, CloseEnqueue, queueing
<1> QED BY <1>1, <1>2, <1>3

(* Every step keeps it: the queue is quit only when the peer ends.          *)
LEMMA QuitStep == ASSUME IInv, Next, QuitAfterEnd PROVE QuitAfterEnd'
<1> SUFFICES ASSUME queuer' \in {"clean", "spin", "exited"}
             PROVE  (Lost \/ link = "closed")'
  BY DEF QuitAfterEnd
<1>1. CASE QueueQuit
  <2>1. Lost \/ link = "closed"
    BY <1>1 DEF QueueQuit, IInv, OneEnding
  <2> QED BY <2>1, EndStays
<1>2. CASE queuer \in {"clean", "spin", "exited"}
  BY <1>2, EndStays DEF QuitAfterEnd
<1> QED BY <1>1, <1>2, QuitSteps

(* The goroutine that queues is told to quit only when the peer ends.       *)
LEMMA PeerQuits == Spec => []QuitAfterEnd
<1>1. Init => QuitAfterEnd
  BY DEF Init, QuitAfterEnd
<1>2. QuitAfterEnd /\ UNCHANGED vars => QuitAfterEnd'
  BY DEF QuitAfterEnd, Lost, Ending, vars, queueing
<1> QED BY <1>1, <1>2, QuitStep, Inductive, PTL DEF Spec

-----------------------------------------------------------------------------
(* The abstract phase, case by case.                                        *)
LEMMA PhaseIs ==
  ASSUME OneEnding
  PROVE  /\ link = "closed" => Phase = "closed" /\ ~Lost
         /\ link = "down" \/ Lost => Phase = "lost"
         /\ link # "closed" /\ link # "down" /\ ~Lost => Phase = "open"
<1>1. Lost => link \in {"up", "down"}
  BY DEF OneEnding
<1> QED BY <1>1 DEF Phase

(* Only these steps change the phase.                                       *)
LEMMA PhaseSteps ==
  ASSUME IInv, Next
  PROVE  \/ UNCHANGED Phase
         \/ LinkDown \/ ReadFails \/ PingFails \/ CloseConnect
<1> USE DEF Lost, Ending, Phase
<1>1. CASE SetConnection
  BY <1>1 DEF SetConnection, IInv, TypeOK, OneEnding
<1>2. CASE WriterSignal \/ WriterCallback \/ ReaderSignal \/ ReaderCallback
  BY <1>2 DEF WriterSignal, WriterCallback, ReaderSignal, ReaderCallback,
              Signal, OnDisconnect, IInv, TypeOK
<1>3. CASE \/ Receive \/ Close \/ CloseEnqueue \/ Queuer
           \/ \E p \in Pusher : PushMessage(p) \/ PushEnqueue(p)
           \/ \E k \in 1..MaxReceive : OnMessage(k)
  BY <1>3 DEF Receive, Close, CloseEnqueue, PushMessage, PushEnqueue, OnMessage,
              Queuer, QueueTake, QueueOffer, QueueNext, QueueQuit, QueueClean
<1>4. CASE WriterTake \/ WriteMessage \/ WriterReply \/ WriterAck \/ CloseSignal
  BY <1>4 DEF WriterTake, UseOf, WriteMessage, WriterReply, WriterAck, CloseSignal
<1> QED
  BY <1>1, <1>2, <1>3, <1>4 DEF Next, Writer, Reader, ReadError, ReadDeadline

(* Only a write changes what was written.                                   *)
LEMMA WrittenSteps == Next => UNCHANGED written \/ WriteMessage
  BY DEF Next, Queuer, Writer, Reader, SetConnection, LinkDown,
         ReadDeadline, ReadError, ReadFails, Receive, PushMessage, PushEnqueue,
         OnMessage, Close, CloseEnqueue, QueueTake, QueueOffer, QueueNext,
         QueueQuit, QueueClean, WriterTake, WriterReply, WriterAck,
         CloseConnect, CloseSignal, PingFails, WriterSignal, WriterCallback,
         ReaderSignal, ReaderCallback

(* The abstract queue is the line of the peer's packets.                    *)
LEMMA QueueIs ==
  /\ Queue = Line(Taken, sendQueue, held, pendingMsgs, outQueue)
  /\ Queue' = Line(Taken', sendQueue', held', pendingMsgs', outQueue')
  BY DEF Queue, Line, Then

(* The parts of the line are sequences of packets.                          *)
LEMMA PartsTyped ==
  TypeOK => /\ Taken \in Seq(Packet) /\ sendQueue \in Seq(Packet)
            /\ held \in Seq(Packet) /\ pendingMsgs \in Seq(Packet)
            /\ outQueue \in Seq(Packet) /\ <<>> \in Seq(Packet)
  BY EmptySeq DEF TypeOK, Taken

lineVars == <<Taken, sendQueue, held, pendingMsgs, outQueue>>

(* Only these steps touch what is under way.                                *)
LEMMA LineSteps ==
  ASSUME IInv, Next
  PROVE  \/ UNCHANGED lineVars
         \/ \E p \in Pusher : PushEnqueue(p)
         \/ CloseEnqueue
         \/ QueueTake \/ QueueOffer \/ QueueNext \/ QueueClean
         \/ WriterTake \/ WriteMessage \/ CloseConnect
<1> USE DEF lineVars, Taken
<1>1. CASE SetConnection
  BY <1>1 DEF SetConnection, channels, IInv, TypeOK, OneEnding
<1>2. CASE \/ LinkDown \/ Receive \/ Close \/ ReadError \/ ReadDeadline
           \/ ReaderSignal \/ ReaderCallback \/ QueueQuit
           \/ \E p \in Pusher : PushMessage(p)
           \/ \E k \in 1..MaxReceive : OnMessage(k)
  BY <1>2 DEF LinkDown, Receive, Close, ReadError, ReadDeadline, ReadFails,
     ReaderSignal, ReaderCallback, QueueQuit, PushMessage, OnMessage,
     channels, queueing
<1>3. CASE \/ WriterReply \/ WriterAck \/ CloseSignal \/ PingFails
           \/ WriterSignal \/ WriterCallback
  BY <1>3 DEF WriterReply, WriterAck, CloseSignal, PingFails, ConnectionClosed,
     WriterSignal, Signal, WriterCallback, OnDisconnect, channels, queueing
<1> QED BY <1>1, <1>2, <1>3 DEF Next, Queuer, Writer, Reader

(* The steps that move a packet along leave the line as it is.              *)
LEMMA QueueKept ==
  ASSUME IInv, IInv', QueueTake \/ QueueOffer \/ QueueNext \/ WriterTake
  PROVE  Same(Queue, Queue')
<1>1. TypeOK /\ TypeOK' /\ TokenInv
  BY DEF IInv
<1>2. CASE QueueTake
  <2>1. PICK m \in Packet : outQueue = <<m>> /\ Head(outQueue) = m
    BY <1>1, <1>2, Split, Single DEF QueueTake, TypeOK
  <2>2. outQueue' = <<>> /\ sendQueue' = sendQueue /\ Taken' = Taken
    BY <1>2 DEF QueueTake, Taken
  <2>3. CASE ~waiting
    <3>1. /\ held' = outQueue /\ pendingMsgs' = pendingMsgs
      BY <1>2, <2>1, <2>3 DEF QueueTake, QueuePacket, SendNow
    <3>2. held = <<>> /\ pendingMsgs = <<>>
      BY <1>1, <1>2, <2>3 DEF TokenInv, TypeOK, QueueTake
    <3>3. Same(Line(Taken, sendQueue, <<>>, <<>>, outQueue),
               Line(Taken, sendQueue, outQueue, <<>>, <<>>))
      BY <1>1, PartsTyped, LineMoves
    <3> QED BY <2>2, <3>1, <3>2, <3>3, QueueIs DEF Same
  <2>4. CASE waiting
    <3>1. pendingMsgs' = Append(pendingMsgs, m) /\ held' = held
      BY <1>2, <2>1, <2>4 DEF QueueTake, QueuePacket
    <3>2. pendingMsgs' = Then(pendingMsgs, outQueue)
      BY <1>1, <2>1, <3>1, PartsTyped, ThenAppend
    <3>3. Same(Line(Taken, sendQueue, held, pendingMsgs, outQueue),
               Line(Taken, sendQueue, held, Then(pendingMsgs, outQueue), <<>>))
      BY <1>1, PartsTyped, LineMoves
    <3> QED BY <2>2, <3>1, <3>2, <3>3, QueueIs DEF Same
  <2> QED BY <2>3, <2>4
<1>3. CASE QueueOffer
  <2>1. /\ sendQueue = <<>> /\ sendQueue' = held /\ held' = <<>>
        /\ UNCHANGED <<Taken, pendingMsgs, outQueue>>
    BY <1>3 DEF QueueOffer, Taken
  <2>2. Same(Line(Taken, <<>>, held, pendingMsgs, outQueue),
             Line(Taken, held, <<>>, pendingMsgs, outQueue))
    BY <1>1, PartsTyped, LineMoves
  <2> QED BY <2>1, <2>2, QueueIs DEF Same
<1>4. CASE QueueNext
  <2>1. /\ UNCHANGED <<Taken, sendQueue, outQueue>> /\ held = <<>>
    BY <1>1, <1>4 DEF QueueNext, Taken, TypeOK
  <2>2. CASE NonePending
    <3>1. UNCHANGED <<pendingMsgs, held>>
      BY <2>2 DEF NonePending
    <3> QED BY <2>1, <3>1, QueueIs DEF Same
  <2>3. CASE NextPending
    <3>1. /\ held' = <<Head(pendingMsgs)>> /\ pendingMsgs' = Tail(pendingMsgs)
          /\ pendingMsgs # <<>>
      BY <2>3 DEF NextPending, SendNow
    <3>2. Same(Line(Taken, sendQueue, <<>>, pendingMsgs, outQueue),
               Line(Taken, sendQueue, <<Head(pendingMsgs)>>, Tail(pendingMsgs), outQueue))
      BY <1>1, <3>1, PartsTyped, LineMoves
    <3> QED BY <2>1, <3>1, <3>2, QueueIs DEF Same
  <2> QED BY <1>4, <2>2, <2>3 DEF QueueNext
<1>5. CASE WriterTake
  <2>1. /\ Taken = <<>> /\ Taken' = sendQueue /\ sendQueue' = <<>>
        /\ UNCHANGED <<held, pendingMsgs, outQueue>>
    BY <1>5 DEF WriterTake, UseOf, Taken, queueing
  <2>2. Same(Line(<<>>, sendQueue, held, pendingMsgs, outQueue),
             Line(sendQueue, <<>>, held, pendingMsgs, outQueue))
    BY <1>1, PartsTyped, LineMoves
  <2> QED BY <2>1, <2>2, QueueIs DEF Same
<1> QED BY <1>2, <1>3, <1>4, <1>5

-----------------------------------------------------------------------------
(* A new peer is an empty, open outbox.                                     *)
LEMMA OutboxInit == Init => PeerOutbox!Init
<1> SUFFICES ASSUME Init PROVE PeerOutbox!Init
  OBVIOUS
<1>1. Phase = "open"
  BY DEF Init, Phase, Lost, Ending
<1>2. Queue = <<>>
  <2>1. <<>> \in Seq(Packet)
    BY EmptySeq
  <2>2. Then(<<>>, <<>>) = <<>>
    BY <2>1, ThenNone
  <2>3. Line(<<>>, <<>>, <<>>, <<>>, <<>>) = <<>>
    BY <2>2 DEF Line
  <2> QED BY <2>3, QueueIs DEF Init, Taken
<1> QED BY <1>1, <1>2 DEF Init, PeerOutbox!Init

(* A packet put in the empty outQueue is pushed.                            *)
LEMMA OutboxPush ==
  ASSUME TypeOK, NEW m \in Packet, outQueue = <<>>, outQueue' = <<m>>,
         UNCHANGED <<Taken, sendQueue, held, pendingMsgs, written, Phase>>
  PROVE  PeerOutbox!Push(m)
<1>1. Same(Line(Taken, sendQueue, held, pendingMsgs, <<m>>),
           Append(Line(Taken, sendQueue, held, pendingMsgs, <<>>), m))
  BY PartsTyped, LineGrows
<1>2. Queue = Line(Taken, sendQueue, held, pendingMsgs, <<>>)
  BY QueueIs
<1>3. Queue' = Line(Taken, sendQueue, held, pendingMsgs, <<m>>)
  BY QueueIs
<1>4. Queue' = Append(Queue, m)
  BY <1>1, <1>2, <1>3 DEF Same
<1> QED BY <1>4 DEF PeerOutbox!Push

(* The packet that packetHandler writes or closes with is the front.        *)
LEMMA OutboxFront ==
  ASSUME IInv, NEW m \in Packet, Taken = <<m>>, Taken' = <<>>,
         UNCHANGED <<sendQueue, held, pendingMsgs, outQueue>>
  PROVE  Queue \in Seq(Packet) /\ Queue' \in Seq(Packet) /\ Begins(Queue, m, Queue')
<1>1. TypeOK
  BY DEF IInv
<1>2. Begins(Taken, m, <<>>)
  <2>1. Tail(<<m>>) = <<>>
    <3>1. <<m>> \in Seq(Packet) /\ <<m>> # <<>> /\ Len(<<m>>) = 1
      BY Single
    <3>2. Tail(<<m>>) \in Seq(Packet) /\ Len(Tail(<<m>>)) = 0
      BY <3>1, Split
    <3> QED BY <3>2, EmptySeq
  <2> QED BY <2>1, Single DEF Begins
<1>3. Begins(Line(Taken, sendQueue, held, pendingMsgs, outQueue), m,
             Line(<<>>, sendQueue, held, pendingMsgs, outQueue))
  BY <1>1, <1>2, PartsTyped, LineShrinks
<1>4. /\ Line(Taken, sendQueue, held, pendingMsgs, outQueue) \in Seq(Packet)
      /\ Line(<<>>, sendQueue, held, pendingMsgs, outQueue) \in Seq(Packet)
  BY <1>1, PartsTyped, LineMoves
<1> QED BY <1>3, <1>4, QueueIs

(* What may be dropped is dropped only by a connection that has ended.      *)
LEMMA OutboxDiscard ==
  ASSUME Misses(Queue, Queue'), UNCHANGED <<written, Phase>>, Phase # "open"
  PROVE  PeerOutbox!Discard
  BY DEF Misses, PeerOutbox!Discard

(* Every step of a goroutine is a step of the outbox, or none.              *)
LEMMA OutboxStep ==
  ASSUME IInv, IInv', QuitAfterEnd, Next
  PROVE  PeerOutbox!Next \/ UNCHANGED <<Queue, written, Phase>>
<1>1. TypeOK /\ TypeOK' /\ OneEnding /\ OneEnding'
  BY DEF IInv
<1>2. CASE \E p \in Pusher : PushEnqueue(p)
  <2>1. PICK p \in Pusher : PushEnqueue(p)
    BY <1>2
  <2>2. PICK m \in Packet : m = MessageOf(p, pushed[p] + 1)
    BY <1>1, <2>1, Packets, BoundAssumption DEF PushEnqueue, TypeOK
  <2>3. UNCHANGED Phase
    BY <2>1 DEF PushEnqueue, Phase, Lost, Ending
  <2>4. PeerOutbox!Push(m)
    BY <1>1, <2>1, <2>2, <2>3, OutboxPush DEF PushEnqueue, queueing, Taken
  <2> QED BY <2>4 DEF PeerOutbox!Next
<1>3. CASE CloseEnqueue
  <2>1. UNCHANGED Phase
    BY <1>3 DEF CloseEnqueue, Phase, Lost, Ending
  <2>2. PeerOutbox!Push(ClosePacket)
    BY <1>1, <1>3, <2>1, Packets, OutboxPush DEF CloseEnqueue, queueing, Taken
  <2> QED BY <2>2, Packets DEF PeerOutbox!Next
<1>4. CASE WriteMessage
  <2>1. PICK m \in Packet : current = <<m>> /\ Head(current) = m
    BY <1>1, <1>4, Split, Single DEF WriteMessage, TypeOK
  <2>2. /\ Taken = <<m>> /\ Taken' = <<>> /\ m # ClosePacket
        /\ UNCHANGED <<sendQueue, held, pendingMsgs, outQueue, link>>
    BY <1>1, <1>4, <2>1 DEF WriteMessage, Taken, channels, queueing, TypeOK
  <2>3. Queue \in Seq(Packet) /\ Queue' \in Seq(Packet) /\ Begins(Queue, m, Queue')
    BY <2>2, OutboxFront
  <2>4. UNCHANGED Phase
    BY <1>4 DEF WriteMessage, Phase, Lost, Ending
  <2>5. CASE link = "up"
    <3>1. Phase # "closed"
      BY <1>1, <2>5, PhaseIs
    <3>2. written' = Append(written, m)
      BY <1>1, <1>4, <2>1, <2>5, AppendIsConcat DEF WriteMessage, TypeOK
    <3>3. Queue # <<>> /\ Head(Queue) = m /\ Queue' = Tail(Queue)
      BY <2>3 DEF Begins
    <3>4. PeerOutbox!Deliver
      BY <2>2, <2>4, <3>1, <3>2, <3>3 DEF PeerOutbox!Deliver
    <3> QED BY <3>4 DEF PeerOutbox!Next
  <2>6. CASE link # "up"
    <3>1. Phase # "open"
      BY <1>1, <1>4, <2>6, PhaseIs DEF WriteMessage, OneEnding, TypeOK
    <3>2. Misses(Queue, Queue')
      BY <2>3, FrontLost
    <3>3. UNCHANGED written
      BY <1>4, <2>6 DEF WriteMessage
    <3>4. PeerOutbox!Discard
      BY <2>4, <3>1, <3>2, <3>3, OutboxDiscard
    <3> QED BY <3>4 DEF PeerOutbox!Next
  <2> QED BY <2>5, <2>6
<1>5. CASE CloseConnect
  <2>1. current = <<ClosePacket>> /\ CloseQueued
    BY <1>1, <1>5 DEF CloseConnect, CloseQueued, Closeless, TypeOK
  <2>2. connected = 2 /\ link \in {"up", "down"} /\ link' = "closed"
    BY <1>1, <1>5, <2>1 DEF CloseConnect, OneEnding, CloseWon, TypeOK
  <2>3. /\ Taken = <<ClosePacket>> /\ Taken' = <<>>
        /\ UNCHANGED <<sendQueue, held, pendingMsgs, outQueue, written>>
    BY <1>5, <2>1, <2>2 DEF CloseConnect, Taken, channels, queueing
  <2>4. Queue \in Seq(Packet) /\ Queue' \in Seq(Packet)
        /\ Begins(Queue, ClosePacket, Queue')
    BY <2>3, Packets, OutboxFront
  <2>5. Phase # "closed" /\ Phase' = "closed"
    <3>1. Phase # "closed"
      BY <1>1, <2>2, PhaseIs
    <3>2. ~Lost'
      BY <1>1, <2>2 DEF OneEnding
    <3> QED BY <2>2, <3>1, <3>2 DEF Phase
  <2>6. Queue # <<>> /\ Head(Queue) = ClosePacket /\ Queue' = Tail(Queue)
    BY <2>4 DEF Begins
  <2>7. PeerOutbox!Shut
    BY <2>3, <2>5, <2>6 DEF PeerOutbox!Shut
  <2> QED BY <2>7 DEF PeerOutbox!Next
<1>6. CASE QueueClean
  <2>1. UNCHANGED <<Taken, sendQueue, held, outQueue, written, Phase>>
    BY <1>6 DEF QueueClean, channels, Taken, Phase, Lost, Ending
  <2>2. CASE UNCHANGED pendingMsgs
    BY <2>1, <2>2, QueueIs
  <2>3. CASE pendingMsgs # <<>> /\ pendingMsgs' = Tail(pendingMsgs)
    <3>1. Misses(Line(Taken, sendQueue, held, pendingMsgs, outQueue),
                 Line(Taken, sendQueue, held, Tail(pendingMsgs), outQueue))
      BY <1>1, <2>3, PartsTyped, LineCleaned
    <3>2. Misses(Queue, Queue')
      BY <2>1, <2>3, <3>1, QueueIs
    <3>3. Phase # "open"
      BY <1>1, <1>6, PhaseIs DEF QueueClean, QuitAfterEnd
    <3>4. PeerOutbox!Discard
      BY <2>1, <3>2, <3>3, OutboxDiscard
    <3> QED BY <3>4 DEF PeerOutbox!Next
  <2> QED BY <1>6, <2>2, <2>3 DEF QueueClean
<1>7. CASE QueueTake \/ QueueOffer \/ QueueNext \/ WriterTake
  <2>1. UNCHANGED Queue
    BY <1>7, QueueKept DEF Same
  <2>2. UNCHANGED <<written, Phase>>
    BY <1>7 DEF QueueTake, QueueOffer, QueueNext, WriterTake, UseOf, Phase,
                Lost, Ending
  <2> QED BY <2>1, <2>2
<1>8. CASE UNCHANGED lineVars /\ ~WriteMessage
  <2>1. UNCHANGED Queue
    BY <1>8, QueueIs DEF lineVars
  <2>2. UNCHANGED written
    BY <1>8, WrittenSteps
  <2>3. CASE LinkDown \/ ReadFails \/ PingFails
    <3>1. Phase' = "lost" \/ UNCHANGED Phase
      BY <1>1, <2>3 DEF LinkDown, ReadFails, PingFails, ConnectionClosed, Phase,
                        Lost, Ending, OneEnding, TypeOK
    <3>2. Phase \in {"open", "lost", "closed"}
      BY <1>1, PhaseIs
    <3>3. Phase' = "lost" => Phase # "closed"
      BY <1>1, <2>3, PhaseIs
         DEF LinkDown, ReadFails, PingFails, ConnectionClosed, Phase, Lost,
             Ending, OneEnding, TypeOK
    <3>4. Phase = "open" /\ Phase' = "lost" => PeerOutbox!Lose
      BY <2>1, <2>2 DEF PeerOutbox!Lose
    <3> QED BY <2>1, <2>2, <3>1, <3>2, <3>3, <3>4 DEF PeerOutbox!Next
  <2>4. CASE UNCHANGED Phase
    BY <2>1, <2>2, <2>4
  <2> QED BY <1>5, <2>3, <2>4, PhaseSteps
<1> QED BY <1>2, <1>3, <1>4, <1>5, <1>6, <1>7, <1>8, LineSteps

(* The four channels and three goroutines of a peer are one FIFO: it loses  *)
(* and reorders nothing while the connection is open, writes everything     *)
(* ahead of the closing packet before it closes, and nothing afterwards.    *)
THEOREM PeerImplementsOutbox == Spec => ImplementsOutbox
<1>1. UNCHANGED vars => UNCHANGED <<Queue, written, Phase>>
  BY DEF vars, channels, queueing, Queue, Taken, Phase, Lost, Ending
<1>2. IInv /\ IInv' /\ QuitAfterEnd /\ [Next]_vars
        => [PeerOutbox!Next]_PeerOutbox!outbox
  BY <1>1, OutboxStep DEF PeerOutbox!outbox
<1> QED BY OutboxInit, <1>2, Inductive, PeerQuits, PTL
        DEF Spec, ImplementsOutbox, PeerOutbox!Spec
=============================================================================
