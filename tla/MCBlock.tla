------------------------------ MODULE MCBlock ------------------------------
(* Block with bytes of 4 values: a uint16 has 16, a block has 10 bytes.     *)
(* Two records fill a block, one does not quite, 13 exceeds it, 14 and 16   *)
(* overflow.                                                                *)
EXTENDS Block

AnyLengths == {2, 5, 13, 14, 16}
=============================================================================
