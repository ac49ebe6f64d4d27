----------------------------- MODULE MCHubQueue -----------------------------
(* Small instances of HubQueue for TLC: two goroutines bring messages, two   *)
(* unregister connections, with two offline notices and with one.            *)
EXTENDS HubQueue

CONSTANTS send1, send2, leave1, leave2
SelfSendsValue == [c \in Caller |-> CASE c = leave1 -> 2
                                      [] c = leave2 -> 1
                                      [] OTHER -> 0]
OversizedValue == {PacketOf(send2, 0), PacketOf(leave1, 1)}
=============================================================================
