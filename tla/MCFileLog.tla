----------------------------- MODULE MCFileLog -----------------------------
(* Small instances of FileLog for TLC: two small records fill a block, a     *)
(* large one fills a block alone, another one fits in no block.              *)
EXTENDS FileLog

CONSTANTS r1, r2, large, huge
SizeValue == [r \in Record |-> CASE r = large -> 2 [] r = huge -> 3 [] OTHER -> 1]
KindValue == [r \in Record |-> CASE r = r2 -> "group" [] r = huge -> "other" [] OTHER -> "chat"]
=============================================================================
