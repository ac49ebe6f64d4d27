------------------------------ MODULE MCGroup ------------------------------
(* Small instances of Group for TLC: client a logs in twice, b once.         *)
EXTENDS Group

CONSTANTS a, b, a1, a2, b1
AddrOfValue == [c \in Conn |-> IF c = b1 THEN b ELSE a]
=============================================================================
