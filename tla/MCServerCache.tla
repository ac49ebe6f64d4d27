--------------------------- MODULE MCServerCache ---------------------------
(* Small instances of ServerCache for TLC.                                   *)
EXTENDS ServerCache
=============================================================================
