------------------------------- MODULE MCPeer -------------------------------
(* Small instances of Peer for TLC: p2 waits for an answer, p1 does not. *)
EXTENDS Peer

CONSTANTS p1, p2
=============================================================================
