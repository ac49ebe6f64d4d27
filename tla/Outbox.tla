------------------------------- MODULE Outbox -------------------------------
(***************************************************************************)
(* What a Peer promises to the goroutines that push messages to it,        *)
(* whatever channels and goroutines it is made of: one FIFO queue that      *)
(* loses nothing while the connection is open, that closes only after       *)
(* everything pushed ahead of the closing packet was delivered, and that    *)
(* delivers nothing afterwards.                                             *)
(***************************************************************************)
EXTENDS Naturals, Sequences

CONSTANTS Packet,       \* everything that can be pushed
          ClosePacket   \* the packet that asks for the connection's end

VARIABLES queue,      \* pushed, not yet delivered
          delivered,  \* what was written to the connection, in order
          phase       \* "open", "lost" (the other side is gone) or "closed"

outbox == <<queue, delivered, phase>>

Init == /\ queue = <<>>
        /\ delivered = <<>>
        /\ phase = "open"

Push(m) == /\ queue' = Append(queue, m)
           /\ UNCHANGED <<delivered, phase>>

Deliver == /\ phase # "closed"
           /\ queue # <<>>
           /\ Head(queue) # ClosePacket
           /\ queue' = Tail(queue)
           /\ delivered' = Append(delivered, Head(queue))
           /\ UNCHANGED phase

Shut == /\ phase # "closed"
        /\ queue # <<>>
        /\ Head(queue) = ClosePacket
        /\ queue' = Tail(queue)
        /\ phase' = "closed"
        /\ UNCHANGED delivered

Lose == /\ phase = "open"
        /\ phase' = "lost"
        /\ UNCHANGED <<queue, delivered>>

(* Only a connection that is gone may drop what it was given. *)
Discard == /\ phase # "open"
           /\ \E i \in DOMAIN queue :
                 queue' = SubSeq(queue, 1, i - 1)
                            \o SubSeq(queue, i + 1, Len(queue))
           /\ UNCHANGED <<delivered, phase>>

Next == \/ \E m \in Packet : Push(m)
        \/ Deliver
        \/ Shut
        \/ Lose
        \/ Discard

Spec == Init /\ [][Next]_outbox
=============================================================================
