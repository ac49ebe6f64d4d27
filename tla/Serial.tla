------------------------------- MODULE Serial -------------------------------
(***************************************************************************)
(* What the hub promises to the goroutines that bring it packets: it        *)
(* handles one packet at a time, in the order in which it took them, and    *)
(* each at most once; a caller is answered after its packet was handled or  *)
(* was turned away, never before and never twice.                           *)
(***************************************************************************)
EXTENDS Naturals, Sequences

CONSTANTS Packet,   \* everything the hub can be asked to handle
          Caller    \* the packets somebody waits for

VARIABLES taken,     \* accepted, in order, not yet handled
          running,   \* at most one packet
          finished,  \* handled or turned away
          answered   \* callers that have their answer

serial == <<taken, running, finished, answered>>

Init == taken = <<>> /\ running = {} /\ finished = {} /\ answered = {}

Fresh(m) == /\ m \notin running \cup finished
            /\ \A i \in DOMAIN taken : taken[i] # m

Accept(m) == /\ Fresh(m)
             /\ taken' = Append(taken, m)
             /\ UNCHANGED <<running, finished, answered>>

TurnAway(m) == /\ Fresh(m)
               /\ finished' = finished \cup {m}
               /\ answered' = answered \cup ({m} \cap Caller)
               /\ UNCHANGED <<taken, running>>

Start == /\ running = {} /\ taken # <<>>
         /\ running' = {Head(taken)} /\ taken' = Tail(taken)
         /\ UNCHANGED <<finished, answered>>

Finish == /\ running # {}
          /\ finished' = finished \cup running /\ running' = {}
          /\ UNCHANGED <<taken, answered>>

Answer(m) == /\ m \in Caller \cap (finished \cup running) /\ m \notin answered
             /\ answered' = answered \cup {m}
             /\ UNCHANGED <<taken, running, finished>>

Next == \/ \E m \in Packet : Accept(m) \/ TurnAway(m) \/ Answer(m)
        \/ Start
        \/ Finish

Spec == Init /\ [][Next]_serial
=============================================================================
