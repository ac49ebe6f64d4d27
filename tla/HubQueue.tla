------------------------------ MODULE HubQueue ------------------------------
(***************************************************************************)
(* hub/hub.go: how packets reach the hub's one handler goroutine.           *)
(*                                                                          *)
(*  callers --packetQueue--> packetQueueHandler --packetRelay--> packetHandler *)
(*     ^                        ^        |                        |  |  |   *)
(*     |                        |        +--- messageLog          |  |  |   *)
(*     |                        +---------- packetRelayDone ------+  |  |   *)
(*     +-- resp -----------------------------------------------------+  |   *)
(*                     packetQueue <-- packets the handler sends itself +   *)
(*                                                                          *)
(* All three channels have capacity 1; resp is unbuffered.  The handler     *)
(* sends offline notices to its own packetQueue while it is handling        *)
(* (hub.go:369), nobody waits for those: their resp is nil.                 *)
(***************************************************************************)
EXTENDS Naturals, Sequences

CONSTANTS Caller,     \* goroutines that bring one packet and wait for resp
          Relay,      \* callers whose packet is a message (it is logged)
          SelfSends,  \* per caller, how many packets its handling sends back
          Logging,    \* is there a message log?
          Oversized   \* packets the message log has no space for

ASSUME RelayAssumption == Relay \subseteq Caller
ASSUME SelfSendsAssumption == SelfSends \in [Caller -> Nat]
ASSUME LoggingAssumption == Logging \in BOOLEAN

(* n = 0 is the caller's own packet, n > 0 the n-th that its handling sends. *)
PacketOf(c, n) == [by |-> c, n |-> n]
Packet == UNION {{PacketOf(c, n) : n \in 0..SelfSends[c]} : c \in Caller}
HasResp(m) == m.n = 0
IsMessage(m) == m.n > 0 \/ m.by \in Relay

VARIABLES
  packetQueue, packetRelay, packetRelayDone,  \* the channels
  pendingMsgs, waiting, queuer, taken,  \* packetQueueHandler
  handler, current, sends,              \* packetHandler
  call,                                 \* where each caller is
  finished                              \* packets handled or turned away

queueing == <<pendingMsgs, waiting, queuer, taken>>
handling == <<handler, current, sends>>
vars == <<packetQueue, packetRelay, packetRelayDone, queueing, handling, call,
          finished>>

Init ==
  /\ packetQueue = <<>> /\ packetRelay = <<>> /\ packetRelayDone = 0
  /\ pendingMsgs = <<>> /\ waiting = FALSE /\ queuer = "select" /\ taken = <<>>
  /\ handler = "select" /\ current = <<>> /\ sends = 0
  /\ call = [c \in Caller |-> "idle"] /\ finished = {}

(* A goroutine arrives, and sends on packetQueue when there is room.        *)
Arrive(c) ==
  /\ call[c] = "idle" /\ call' = [call EXCEPT ![c] = "enqueue"]
  /\ UNCHANGED <<packetQueue, packetRelay, packetRelayDone, queueing, handling,
                 finished>>

Enqueue(c) ==
  /\ call[c] = "enqueue" /\ packetQueue = <<>>
  /\ packetQueue' = <<PacketOf(c, 0)>>
  /\ call' = [call EXCEPT ![c] = "wait"]
  /\ UNCHANGED <<packetRelay, packetRelayDone, queueing, handling, finished>>

-----------------------------------------------------------------------------
(* packetQueueHandler, case packet <- packetQueue: a message goes to the    *)
(* log first.                                                               *)
QueueTake ==
  /\ queuer = "select" /\ packetQueue # <<>>
  /\ packetQueue' = <<>> /\ taken' = packetQueue
  /\ queuer' = IF Logging /\ IsMessage(Head(packetQueue)) THEN "log" ELSE "queue"
  /\ UNCHANGED <<packetRelay, packetRelayDone, pendingMsgs, waiting, handling,
                 call, finished>>

LogFailureForgotten ==  \* slip: the packet is neither dropped nor refused
  queuer' = "select" /\ UNCHANGED <<taken, finished>>

LogFailureUnanswered ==  \* slip: the caller is not told
  taken' = <<>> /\ queuer' = "select" /\ finished' = finished \cup {Head(taken)}

LogFailure ==
  queuer' = "refuse" /\ UNCHANGED <<taken, finished>>

QueueLog ==
  /\ queuer = "log"
  /\ \/ /\ Head(taken) \in Oversized
        /\ LogFailure
     \/ /\ Head(taken) \notin Oversized
        /\ queuer' = "queue" /\ UNCHANGED <<taken, finished>>
  /\ UNCHANGED <<packetQueue, packetRelay, packetRelayDone, pendingMsgs, waiting,
                 handling, call>>

(* packet.resp <- MsgStatusException; on the nil resp of a packet that the  *)
(* handler sent itself this never returns.                                  *)
QueueRefuse ==
  /\ queuer = "refuse" /\ HasResp(Head(taken))
  /\ call' = [call EXCEPT ![Head(taken).by] = "answered"]
  /\ finished' = finished \cup {Head(taken)}
  /\ taken' = <<>> /\ queuer' = "select"
  /\ UNCHANGED <<packetQueue, packetRelay, packetRelayDone, pendingMsgs, waiting,
                 handling>>

QueuerHung == queuer = "refuse" /\ ~HasResp(Head(taken))

QueuePacketAtOnce(packet) ==  \* slip: the waiting flag is not looked at
  queuer' = "offer" /\ waiting' = TRUE /\ UNCHANGED <<pendingMsgs, taken>>

QueuePacketKept(packet) ==  \* slip: the flag is never set
  \/ /\ ~waiting
     /\ queuer' = "offer" /\ UNCHANGED <<waiting, pendingMsgs, taken>>
  \/ /\ waiting
     /\ pendingMsgs' = Append(pendingMsgs, packet)
     /\ taken' = <<>> /\ queuer' = "select" /\ UNCHANGED waiting

QueuePacket(packet) ==
  \/ /\ ~waiting
     /\ queuer' = "offer" /\ waiting' = TRUE /\ UNCHANGED <<pendingMsgs, taken>>
  \/ /\ waiting
     /\ pendingMsgs' = Append(pendingMsgs, packet)
     /\ taken' = <<>> /\ queuer' = "select" /\ UNCHANGED waiting

QueueAppend ==
  /\ queuer = "queue"
  /\ QueuePacket(Head(taken))
  /\ UNCHANGED <<packetQueue, packetRelay, packetRelayDone, handling, call,
                 finished>>

(* The blocking send on packetRelay.                                        *)
QueueOffer ==
  /\ queuer = "offer" /\ packetRelay = <<>>
  /\ packetRelay' = taken /\ taken' = <<>> /\ queuer' = "select"
  /\ UNCHANGED <<packetQueue, packetRelayDone, pendingMsgs, waiting, handling,
                 call, finished>>

NextPendingKept ==  \* slip: goes idle with packets pending
  pendingMsgs # <<>> /\ waiting' = FALSE /\ UNCHANGED <<pendingMsgs, queuer, taken>>

NextPending ==
  /\ pendingMsgs # <<>>
  /\ taken' = <<Head(pendingMsgs)>> /\ pendingMsgs' = Tail(pendingMsgs)
  /\ queuer' = "offer" /\ UNCHANGED waiting

(* case <-packetRelayDone: the next pending packet, or no more waiting.     *)
QueueNext ==
  /\ queuer = "select" /\ packetRelayDone = 1
  /\ packetRelayDone' = 0
  /\ \/ /\ pendingMsgs = <<>>
        /\ waiting' = FALSE /\ UNCHANGED <<pendingMsgs, queuer, taken>>
     \/ NextPending
  /\ UNCHANGED <<packetQueue, packetRelay, handling, call, finished>>

-----------------------------------------------------------------------------
(* packetHandler.  The work on a packet may send packets to packetQueue,    *)
(* then answers, then signals packetRelayDone.                              *)
HandlerTake ==
  /\ handler = "select" /\ packetRelay # <<>>
  /\ current' = packetRelay /\ packetRelay' = <<>>
  /\ sends' = 0 /\ handler' = "work"
  /\ UNCHANGED <<packetQueue, packetRelayDone, queueing, call, finished>>

SendsOf(m) == IF HasResp(m) THEN SelfSends[m.by] ELSE 0

HandlerSelfSend ==
  /\ handler = "work" /\ sends < SendsOf(Head(current)) /\ packetQueue = <<>>
  /\ packetQueue' = <<PacketOf(Head(current).by, sends + 1)>>
  /\ sends' = sends + 1
  /\ UNCHANGED <<packetRelay, packetRelayDone, queueing, handler, current, call,
                 finished>>

(* resp <- &response, if resp # nil: a rendezvous with the caller.          *)
HandlerReply ==
  /\ handler = "work" /\ sends = SendsOf(Head(current))
  /\ call' = IF HasResp(Head(current))
             THEN [call EXCEPT ![Head(current).by] = "answered"] ELSE call
  /\ handler' = "done"
  /\ UNCHANGED <<packetQueue, packetRelay, packetRelayDone, queueing, current,
                 sends, finished>>

(* A push to a connection that has ended blocks the handler for good.       *)
HandlerHangs ==
  /\ handler = "work" /\ handler' = "hung"
  /\ UNCHANGED <<packetQueue, packetRelay, packetRelayDone, queueing, current,
                 sends, call, finished>>

HandlerDone ==
  /\ handler = "done" /\ packetRelayDone = 0
  /\ packetRelayDone' = 1
  /\ finished' = finished \cup {Head(current)}
  /\ current' = <<>> /\ handler' = "select"
  /\ UNCHANGED <<packetQueue, packetRelay, queueing, sends, call>>

-----------------------------------------------------------------------------
Queuer == \/ QueueTake \/ QueueLog \/ QueueRefuse \/ QueueAppend
          \/ QueueOffer \/ QueueNext
Handler == HandlerTake \/ HandlerSelfSend \/ HandlerReply \/ HandlerDone

Next == \/ \E c \in Caller : Arrive(c) \/ Enqueue(c)
        \/ Queuer \/ Handler \/ HandlerHangs

(* Both goroutines run when they can, and the senders blocked on            *)
(* packetQueue are served in turn; nothing says that anybody arrives.       *)
Fairness == /\ WF_vars(Queuer) /\ WF_vars(Handler)
            /\ SF_vars(HandlerSelfSend)
            /\ \A c \in Caller : SF_vars(Enqueue(c))

Spec == Init /\ [][Next]_vars
FairSpec == Spec /\ Fairness

-----------------------------------------------------------------------------
(* Type invariant of the hub's channels and goroutine positions.            *)
TypeOK ==
  /\ packetQueue \in Seq(Packet) /\ Len(packetQueue) <= 1
  /\ packetRelay \in Seq(Packet) /\ Len(packetRelay) <= 1
  /\ packetRelayDone \in 0..1
  /\ pendingMsgs \in Seq(Packet) /\ waiting \in BOOLEAN
  /\ queuer \in {"select", "log", "refuse", "queue", "offer"}
  /\ taken \in Seq(Packet) /\ Len(taken) <= 1
  /\ queuer = "select" <=> taken = <<>>
  /\ handler \in {"select", "work", "done", "hung"}
  /\ current \in Seq(Packet) /\ Len(current) <= 1
  /\ handler = "select" <=> current = <<>>
  /\ sends \in Nat /\ (current # <<>> => sends <= SendsOf(Head(current)))
  /\ call \in [Caller -> {"idle", "enqueue", "wait", "answered"}]
  /\ finished \subseteq Packet

(* One token goes round between the two goroutines of the hub.  It is why   *)
(* the handler may send on packetQueue in the middle of its work: the       *)
(* goroutine that must make room never waits for the handler then.          *)
Offered == IF queuer = "offer" THEN taken ELSE <<>>
TokenInv ==
  /\ Len(Offered) + Len(packetRelay) + Len(current) + packetRelayDone
       = IF waiting THEN 1 ELSE 0
  /\ ~waiting => pendingMsgs = <<>>
  /\ queuer = "offer" => packetRelay = <<>> /\ handler = "select"
  /\ handler = "done" => packetRelayDone = 0

(* The channels and goroutines implement a serial handler.                  *)
HubSerial == INSTANCE Serial WITH
  Caller <- {PacketOf(c, 0) : c \in Caller},
  taken <- packetRelay \o Offered \o pendingMsgs,
  running <- {current[i] : i \in DOMAIN current},
  answered <- {PacketOf(c, 0) : c \in {d \in Caller : call[d] = "answered"}}
ImplementsSerial == HubSerial!Spec

(* Every caller is answered, unless one of the hub's goroutines is stuck.   *)
CallersAnswered ==
  \A c \in Caller :
    (call[c] = "enqueue") ~> (call[c] = "answered" \/ handler = "hung" \/ QueuerHung)

(* What reaches packetQueue is handled or refused, the packets that the     *)
(* handler sends itself included.                                           *)
TakenFinished ==
  \A m \in Packet :
    (packetQueue = <<m>>) ~> (m \in finished \/ handler = "hung" \/ QueuerHung)
=============================================================================
