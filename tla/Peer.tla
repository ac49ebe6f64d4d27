-------------------------------- MODULE Peer --------------------------------
(***************************************************************************)
(* peer/peer.go: one websocket connection and the goroutines around it.     *)
(*                                                                          *)
(*   pushers --outQueue--> packetQueueHandler --sendQueue--> packetHandler  *)
(*                               ^                                |         *)
(*                               +----------- sendDone -----------+         *)
(*                                                                          *)
(* packetQueueHandler keeps an unbounded list so that pushers never wait    *)
(* for the network, and hands the next packet over only after sendDone.     *)
(* Reader, pinger and Close race for the end of the connection through one  *)
(* compare-and-swap on "connected".  All four channels have capacity 1.     *)
(***************************************************************************)
EXTENDS Naturals, Sequences

CONSTANTS Pusher,     \* goroutines that call PushMessage
          Waiter,     \* those that pass a done channel and wait on it
          Closer,     \* the goroutine that calls Close
          MaxPush,    \* bound: messages each pusher sends
          MaxReceive  \* bound: messages the other side sends

ASSUME WaiterAssumption == Waiter \subseteq Pusher
ASSUME CloserAssumption == Closer \notin Pusher
ASSUME BoundAssumption == MaxPush \in Nat /\ MaxReceive \in Nat

VARIABLES
  connected,    \* 0 unconnected, 1 connected, 2 closing
  link,         \* the websocket: "none", "up", "down" (broken), "closed" by us
  outQueue, sendQueue, sendDone, connclosed,   \* the channels
  pendingMsgs, waiting,  \* local state of packetQueueHandler
  queuer, held,          \* where packetQueueHandler is, the packet it sends
  writer, current,       \* where packetHandler is, the packet it took
  reader,                \* where inMessageHandler is
  push, pushed,          \* where each pusher is, how many it queued
  closer,                \* where the call of Close is
  received, handling, handled,  \* inbound: read, in OnMessage, handled in order
  disconnects,           \* calls of OnDisconnect
  written                \* packets written to the websocket, in order

channels == <<outQueue, sendQueue, sendDone, connclosed>>
queueing == <<pendingMsgs, waiting, queuer, held>>
pushing  == <<push, pushed>>
inbound  == <<received, handling, handled>>
vars == <<connected, link, channels, queueing, writer, current, reader,
          pushing, closer, inbound, disconnects, written>>

ClosePacket == [use |-> "close", by |-> Closer, n |-> 0]
MessageOf(p, k) == [use |-> "message", by |-> p, n |-> k]
Packet == {ClosePacket} \cup {MessageOf(p, k) : p \in Pusher, k \in 1..MaxPush}

Init ==
  /\ connected = 0 /\ link = "none"
  /\ outQueue = <<>> /\ sendQueue = <<>> /\ sendDone = 0 /\ connclosed = 0
  /\ pendingMsgs = <<>> /\ waiting = FALSE /\ queuer = "off" /\ held = <<>>
  /\ writer = "off" /\ current = <<>> /\ reader = "off"
  /\ push = [p \in Pusher |-> "idle"] /\ pushed = [p \in Pusher |-> 0]
  /\ closer = "idle"
  /\ received = 0 /\ handling = {} /\ handled = <<>>
  /\ disconnects = 0 /\ written = <<>>

(* SetConnection: binds the websocket and starts the three goroutines.      *)
SetConnection ==
  /\ connected = 0 /\ link = "none"
  /\ connected' = 1 /\ link' = "up"
  /\ queuer' = "select" /\ writer' = "select" /\ reader' = "reading"
  /\ UNCHANGED <<channels, pendingMsgs, waiting, held, current, pushing,
                 closer, inbound, disconnects, written>>

(* The network or the other side breaks the connection.                     *)
LinkDown ==
  /\ link = "up" /\ link' = "down"
  /\ UNCHANGED <<connected, channels, queueing, writer, current, reader,
                 pushing, closer, inbound, disconnects, written>>

-----------------------------------------------------------------------------
(* PushMessage tests the connection, and in a second step sends on          *)
(* outQueue.  "refused" is the send of ErrPeerNotOpen on doneChan: on a nil *)
(* channel, or on an unbuffered one that this same goroutine reads next.    *)
PushMessage(p) ==
  /\ push[p] = "idle" /\ pushed[p] < MaxPush /\ link # "none"
  /\ push' = [push EXCEPT ![p] = IF connected = 1 THEN "enqueue" ELSE "refused"]
  /\ UNCHANGED <<connected, link, channels, queueing, writer, current, reader,
                 pushed, closer, inbound, disconnects, written>>

PushEnqueue(p) ==
  /\ push[p] = "enqueue" /\ outQueue = <<>>
  /\ outQueue' = <<MessageOf(p, pushed[p] + 1)>>
  /\ pushed' = [pushed EXCEPT ![p] = @ + 1]
  /\ push' = [push EXCEPT ![p] = IF p \in Waiter THEN "await" ELSE "idle"]
  /\ UNCHANGED <<connected, link, sendQueue, sendDone, connclosed, queueing,
                 writer, current, reader, closer, inbound, disconnects, written>>

(* Close wins the compare-and-swap or returns, then queues its packet.      *)
Close ==
  /\ closer = "idle" /\ link # "none"
  /\ closer' = IF connected = 1 THEN "enqueue" ELSE "returned"
  /\ connected' = IF connected = 1 THEN 2 ELSE connected
  /\ UNCHANGED <<link, channels, queueing, writer, current, reader, pushing,
                 inbound, disconnects, written>>

CloseEnqueueLossy ==  \* slip: a send that gives up when the queue is full
  /\ closer = "enqueue"
  /\ outQueue' = IF outQueue = <<>> THEN <<ClosePacket>> ELSE outQueue
  /\ closer' = "returned"
  /\ UNCHANGED <<connected, link, sendQueue, sendDone, connclosed, queueing,
                 writer, current, reader, pushing, inbound, disconnects, written>>

CloseEnqueue ==
  /\ closer = "enqueue" /\ outQueue = <<>>
  /\ outQueue' = <<ClosePacket>>
  /\ closer' = "returned"
  /\ UNCHANGED <<connected, link, sendQueue, sendDone, connclosed, queueing,
                 writer, current, reader, pushing, inbound, disconnects, written>>

-----------------------------------------------------------------------------
SendNow(packet) ==
  /\ held' = <<packet>> /\ queuer' = "offer" /\ waiting' = TRUE

QueuePacketAtOnce(packet) ==  \* slip: the waiting flag is not looked at
  SendNow(packet) /\ UNCHANGED pendingMsgs

QueuePacket(packet) ==
  \/ ~waiting /\ SendNow(packet) /\ UNCHANGED pendingMsgs
  \/ waiting /\ pendingMsgs' = Append(pendingMsgs, packet)
       /\ UNCHANGED <<waiting, queuer, held>>

(* packetQueueHandler, case msg <- outQueue.                                *)
QueueTake ==
  /\ queuer = "select" /\ outQueue # <<>>
  /\ outQueue' = <<>>
  /\ QueuePacket(Head(outQueue))
  /\ UNCHANGED <<connected, link, sendQueue, sendDone, connclosed, writer,
                 current, reader, pushing, closer, inbound, disconnects, written>>

(* The blocking send on sendQueue.                                          *)
QueueOffer ==
  /\ queuer = "offer" /\ sendQueue = <<>>
  /\ sendQueue' = held /\ held' = <<>> /\ queuer' = "select"
  /\ UNCHANGED <<connected, link, outQueue, sendDone, connclosed, pendingMsgs,
                 waiting, writer, current, reader, pushing, closer, inbound,
                 disconnects, written>>

NonePendingStillWaiting ==  \* slip: the flag is not reset
  pendingMsgs = <<>> /\ UNCHANGED <<waiting, pendingMsgs, queuer, held>>

NonePending ==
  pendingMsgs = <<>> /\ waiting' = FALSE /\ UNCHANGED <<pendingMsgs, queuer, held>>

NextPendingLast ==  \* slip: Back for Front
  /\ pendingMsgs # <<>>
  /\ SendNow(pendingMsgs[Len(pendingMsgs)])
  /\ pendingMsgs' = SubSeq(pendingMsgs, 1, Len(pendingMsgs) - 1)

NextPendingKept ==  \* slip: goes idle with packets pending
  pendingMsgs # <<>> /\ waiting' = FALSE /\ UNCHANGED <<pendingMsgs, queuer, held>>

NextPending ==
  /\ pendingMsgs # <<>>
  /\ SendNow(Head(pendingMsgs))
  /\ pendingMsgs' = Tail(pendingMsgs)

(* case <-sendDone: the next pending packet, or no more waiting.            *)
QueueNext ==
  /\ queuer = "select" /\ sendDone = 1
  /\ sendDone' = 0
  /\ NonePending \/ NextPending
  /\ UNCHANGED <<connected, link, outQueue, sendQueue, connclosed, writer,
                 current, reader, pushing, closer, inbound, disconnects, written>>

(* case <-connclosed: leaves the loop for the clean-up.                     *)
QueueQuit ==
  /\ queuer = "select" /\ connclosed = 1
  /\ connclosed' = 0 /\ queuer' = "clean"
  /\ UNCHANGED <<connected, link, outQueue, sendQueue, sendDone, pendingMsgs,
                 waiting, held, writer, current, reader, pushing, closer,
                 inbound, disconnects, written>>

(* The clean-up loop never advances "next": it removes the first element    *)
(* and then removes it again for ever ("spin").                             *)
QueueClean ==
  /\ queuer = "clean"
  /\ \/ /\ pendingMsgs = <<>>
        /\ queuer' = "exited"
        /\ UNCHANGED pendingMsgs
     \/ /\ pendingMsgs # <<>>
        /\ pendingMsgs' = Tail(pendingMsgs) /\ queuer' = "spin"
  /\ UNCHANGED <<connected, link, channels, waiting, held, writer, current,
                 reader, pushing, closer, inbound, disconnects, written>>

-----------------------------------------------------------------------------
(* connectionClosed, from the reader or from the pinger: one                *)
(* compare-and-swap, the signal to packetQueueHandler, OnDisconnect.        *)
ConnectionClosedUnguarded(goroutine) ==  \* slip: no compare-and-swap
  goroutine' = "signal" /\ connected' = 2

ConnectionClosed(goroutine) ==
  /\ goroutine' = IF connected = 1 THEN "signal" ELSE "exited"
  /\ connected' = IF connected = 1 THEN 2 ELSE connected

SignalOnly(goroutine) ==  \* slip: OnDisconnect is forgotten
  /\ goroutine = "signal" /\ connclosed = 0
  /\ connclosed' = 1 /\ goroutine' = "exited"

Signal(goroutine) ==
  /\ goroutine = "signal" /\ connclosed = 0
  /\ connclosed' = 1 /\ goroutine' = "callback"

OnDisconnect(goroutine) ==
  /\ goroutine = "callback"
  /\ disconnects' = disconnects + 1 /\ goroutine' = "exited"

UseOfAny(packet) == "write"  \* slip: the use of the packet is not looked at
UseOf(packet) == IF packet = ClosePacket THEN "close" ELSE "write"

(* packetHandler, case packet <- sendQueue.                                 *)
WriterTake ==
  /\ writer = "select" /\ sendQueue # <<>>
  /\ current' = sendQueue /\ sendQueue' = <<>>
  /\ writer' = UseOf(Head(sendQueue))
  /\ UNCHANGED <<connected, link, outQueue, sendDone, connclosed, queueing,
                 reader, pushing, closer, inbound, disconnects, written>>

AwaitedOnError(packet) == link # "up" /\ packet.by \in Waiter  \* slip
Awaited(packet) == packet.by \in Waiter

(* writeMessage: on a broken websocket it returns an error, which only a    *)
(* pusher that waits will ever see.                                         *)
WriteMessage ==
  /\ writer = "write"
  /\ written' = IF link = "up" THEN written \o current ELSE written
  /\ writer' = IF Awaited(Head(current)) THEN "reply" ELSE "ack"
  /\ UNCHANGED <<connected, link, channels, queueing, current, reader, pushing,
                 closer, inbound, disconnects>>

(* packet.done <- err: a rendezvous with the pusher that waits.             *)
WriterReply ==
  /\ writer = "reply" /\ push[Head(current).by] = "await"
  /\ push' = [push EXCEPT ![Head(current).by] = "idle"]
  /\ writer' = "ack"
  /\ UNCHANGED <<connected, link, channels, queueing, current, reader, pushed,
                 closer, inbound, disconnects, written>>

WriterAck ==
  /\ writer = "ack" /\ sendDone = 0
  /\ sendDone' = 1 /\ current' = <<>> /\ writer' = "select"
  /\ UNCHANGED <<connected, link, outQueue, sendQueue, connclosed, queueing,
                 reader, pushing, closer, inbound, disconnects, written>>

(* closeConnect, and the return of packetHandler.                           *)
CloseConnect ==
  /\ writer = "close"
  /\ connected' = IF connected = 2 THEN 0 ELSE connected
  /\ link' = IF connected = 2 THEN "closed" ELSE link
  /\ writer' = IF connected = 2 THEN "shut" ELSE "exited"
  /\ UNCHANGED <<channels, queueing, current, reader, pushing, closer, inbound,
                 disconnects, written>>

CloseSignal ==
  /\ writer = "shut" /\ connclosed = 0
  /\ connclosed' = 1 /\ writer' = "exited"
  /\ UNCHANGED <<connected, link, outQueue, sendQueue, sendDone, queueing,
                 current, reader, pushing, closer, inbound, disconnects, written>>

(* case <-ticker.C: a ping that cannot be written.                          *)
PingFails ==
  /\ writer = "select" /\ link # "up"
  /\ ConnectionClosed(writer)
  /\ UNCHANGED <<link, channels, queueing, current, reader, pushing, closer,
                 inbound, disconnects, written>>

WriterSignal ==
  /\ Signal(writer)
  /\ UNCHANGED <<connected, link, outQueue, sendQueue, sendDone, queueing,
                 current, reader, pushing, closer, inbound, disconnects, written>>

WriterCallback ==
  /\ OnDisconnect(writer)
  /\ UNCHANGED <<connected, link, channels, queueing, current, reader, pushing,
                 closer, inbound, written>>

-----------------------------------------------------------------------------
(* inMessageHandler: every message read gets a goroutine of its own.        *)
Receive ==
  /\ reader = "reading" /\ link = "up" /\ received < MaxReceive
  /\ received' = received + 1
  /\ handling' = handling \cup {received + 1}
  /\ UNCHANGED <<connected, link, channels, queueing, writer, current, reader,
                 pushing, closer, handled, disconnects, written>>

OnMessage(k) ==
  /\ k \in handling
  /\ handling' = handling \ {k} /\ handled' = Append(handled, k)
  /\ UNCHANGED <<connected, link, channels, queueing, writer, current, reader,
                 pushing, closer, received, disconnects, written>>

ReadFails ==
  /\ reader = "reading"
  /\ ConnectionClosed(reader)
  /\ UNCHANGED <<link, channels, queueing, writer, current, pushing, closer,
                 inbound, disconnects, written>>

ReadError == link # "up" /\ ReadFails
(* The read deadline passes, or a message is over the limit: the websocket  *)
(* is still there.                                                          *)
ReadDeadline == link = "up" /\ ReadFails

ReaderSignal ==
  /\ Signal(reader)
  /\ UNCHANGED <<connected, link, outQueue, sendQueue, sendDone, queueing,
                 writer, current, pushing, closer, inbound, disconnects, written>>

ReaderCallback ==
  /\ OnDisconnect(reader)
  /\ UNCHANGED <<connected, link, channels, queueing, writer, current, pushing,
                 closer, inbound, written>>

-----------------------------------------------------------------------------
Queuer == QueueTake \/ QueueOffer \/ QueueNext \/ QueueQuit \/ QueueClean
Writer == \/ WriterTake \/ WriteMessage \/ WriterReply \/ WriterAck
          \/ CloseConnect \/ CloseSignal
          \/ PingFails \/ WriterSignal \/ WriterCallback
Reader == ReadError \/ ReaderSignal \/ ReaderCallback

Next ==
  \/ SetConnection \/ LinkDown \/ ReadDeadline \/ Receive
  \/ \E p \in Pusher : PushMessage(p) \/ PushEnqueue(p)
  \/ \E k \in 1..MaxReceive : OnMessage(k)
  \/ Close \/ CloseEnqueue
  \/ Queuer \/ Writer \/ Reader

(* Every goroutine that can run does run; the environment (connecting,      *)
(* breaking the link, calling PushMessage or Close) promises nothing.       *)
Fairness ==
  /\ WF_vars(Queuer) /\ WF_vars(Writer) /\ WF_vars(Reader)
  /\ WF_vars(CloseEnqueue)
  /\ \A p \in Pusher : WF_vars(PushEnqueue(p))
  /\ \A k \in 1..MaxReceive : WF_vars(OnMessage(k))

Spec == Init /\ [][Next]_vars
FairSpec == Spec /\ Fairness

-----------------------------------------------------------------------------
(* Type invariant of the peer's channels, flags and goroutine positions.    *)
TypeOK ==
  /\ connected \in 0..2
  /\ link \in {"none", "up", "down", "closed"}
  /\ outQueue \in Seq(Packet) /\ Len(outQueue) <= 1
  /\ sendQueue \in Seq(Packet) /\ Len(sendQueue) <= 1
  /\ sendDone \in 0..1 /\ connclosed \in 0..1
  /\ pendingMsgs \in Seq(Packet) /\ waiting \in BOOLEAN
  /\ queuer \in {"off", "select", "offer", "clean", "spin", "exited"}
  /\ held \in Seq(Packet) /\ Len(held) <= 1
  /\ queuer = "offer" <=> held # <<>>
  /\ writer \in {"off", "select", "write", "reply", "ack", "close", "shut",
                 "signal", "callback", "exited"}
  /\ current \in Seq(Packet) /\ Len(current) <= 1
  /\ writer \in {"close", "shut"} => current = <<ClosePacket>>
  /\ writer \in {"off", "select", "signal", "callback"} => current = <<>>
  /\ writer \in {"write", "reply", "ack"}
       => current # <<>> /\ Head(current) # ClosePacket
  /\ reader \in {"off", "reading", "signal", "callback", "exited"}
  /\ push \in [Pusher -> {"idle", "enqueue", "await", "refused"}]
  /\ pushed \in [Pusher -> 0..MaxPush]
  /\ \A p \in Pusher : push[p] = "enqueue" => pushed[p] < MaxPush
  /\ closer \in {"idle", "enqueue", "returned"}
  /\ received \in 0..MaxReceive /\ handling \subseteq 1..received
  /\ handled \in Seq(1..MaxReceive)
  /\ disconnects \in Nat /\ written \in Seq(Packet)

(* One token goes round between packetQueueHandler and packetHandler: the   *)
(* flag "waiting" says exactly whether a packet or its sendDone is under    *)
(* way, so that no packet overtakes the pending list.                       *)
TokenInv ==
  /\ Len(held) + Len(sendQueue) + Len(current) + sendDone
       = IF waiting THEN 1 ELSE 0
  /\ ~waiting => pendingMsgs = <<>>

(* Neither side of the hand-over ever blocks on the other: the sends on     *)
(* sendQueue, sendDone and connclosed always find room.                     *)
NeverBlocks ==
  /\ queuer = "offer" => sendQueue = <<>>
  /\ writer = "ack" => sendDone = 0
  /\ writer = "shut" \/ writer = "signal" \/ reader = "signal"
       => connclosed = 0

Ending == {"signal", "callback"}
Lost == reader \in Ending \/ writer \in Ending \/ disconnects > 0

(* Reader, pinger and Close race for the end of the connection and one      *)
(* alone wins: OnDisconnect runs at most once and never when Close won, a   *)
(* closing packet exists only when Close won, and connclosed carries the    *)
(* one signal of the winner.                                                *)
Closeless(s) == \A i \in DOMAIN s : s[i] # ClosePacket
CloseQueued == ~(/\ Closeless(outQueue) /\ Closeless(pendingMsgs)
                 /\ Closeless(held) /\ Closeless(sendQueue) /\ Closeless(current))
CloseWon == closer = "enqueue" \/ CloseQueued
OneEnding ==
  /\ disconnects <= 1
  /\ ~(reader \in Ending /\ writer \in Ending)
  /\ disconnects = 1 => reader \notin Ending /\ writer \notin Ending
  /\ Lost => connected = 2 /\ ~CloseWon /\ link \in {"up", "down"}
  /\ connected = 1 => ~Lost /\ ~CloseWon /\ connclosed = 0
                        /\ link \in {"up", "down"}
  /\ connected = 2 => link \in {"up", "down"}
  /\ CloseQueued => closer = "returned"
  /\ connected = 0 => \/ link = "none" /\ ~CloseWon /\ connclosed = 0
                         /\ writer = "off" /\ reader = "off" /\ queuer = "off"
                      \/ link = "closed" /\ closer # "enqueue"
                         /\ writer \in {"shut", "exited"}
  /\ writer = "shut" => connected = 0
  /\ connclosed = 1 => Lost \/ (link = "closed" /\ writer = "exited")

(* What is still under way, in the order in which it will be written.       *)
Taken == IF writer \in {"write", "close"} THEN current ELSE <<>>
Queue == Taken \o sendQueue \o held \o pendingMsgs \o outQueue

Phase == CASE link = "closed" -> "closed"
           [] link = "down" \/ Lost -> "lost"
           [] OTHER -> "open"

(* The goroutines and channels implement one lossy FIFO: no reordering, no  *)
(* duplicate, no loss while the link is up, nothing after closeConnect.     *)
PeerOutbox == INSTANCE Outbox WITH
  queue <- Queue, delivered <- written, phase <- Phase
ImplementsOutbox == PeerOutbox!Spec

Occurs(m, s) == \E i \in DOMAIN s : s[i] = m

(* What was pushed before the end is written unless the connection ends;    *)
(* Close in particular comes after everything that was queued ahead of it.  *)
Flushed ==
  \A m \in Packet \ {ClosePacket} :
    Occurs(m, Queue) ~> (Occurs(m, written) \/ link # "up" \/ Lost)

(* Close ends the connection, however many packets are queued ahead of it.  *)
CloseCompletes == (closer = "enqueue") ~> (link # "up")

(* A broken connection is reported through OnDisconnect unless Close began. *)
DropReported ==
  (link = "down" /\ connected = 1) ~> (disconnects = 1 \/ closer # "idle")

(* A pusher that waits gets its answer as long as the connection lives.     *)
WaiterAnswered ==
  \A p \in Waiter : (push[p] = "await") ~> (push[p] # "await" \/ link # "up" \/ Lost)

(* The four invariants together are inductive.                              *)
IInv == TypeOK /\ TokenInv /\ NeverBlocks /\ OneEnding

-----------------------------------------------------------------------------
(* peer.go:290 says that a message pushed after the end is dropped, so the  *)
(* call returns.                                                            *)
PushAfterEndReturns == \A p \in Pusher : push[p] # "refused"

(* peer.go:284 "clean": packetQueueHandler empties its list and returns.    *)
CleanReturns == (queuer = "clean") ~> (queuer = "exited")

(* peer.go:169: the messages read are handled one by one, in their order.   *)
HandledOneByOne == \A i \in DOMAIN handled : handled[i] = i
=============================================================================
