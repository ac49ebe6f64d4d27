----------------------------- MODULE MCCluster -----------------------------
(* Small instances of Cluster for TLC.  Client a logs in with a1 and a3 on   *)
(* s1 and with a2 on s2 or s3, b with b2 on s2, c with c3 on s3; m1 goes     *)
(* from a to b, m2 back, or to everyone.                                     *)
EXTENDS Cluster

CONSTANTS s1, s2, s3, a, b, c, a1, a2, a3, b2, c3, m1, m2

AddrOfValue == [x \in Conn |-> CASE x = b2 -> b [] x = c3 -> c [] OTHER -> a]
HomeOfValue == [x \in Conn |-> CASE x \in {a1, a3} -> s1 [] x = c3 -> s3 [] OTHER -> s2]
HomeOfMoved == [x \in Conn |-> CASE x \in {a1, a3} -> s1 [] x = a2 -> s3 [] OTHER -> s2]
ViaValue == [m \in Chat |-> IF m = m1 THEN a1 ELSE b2]
ViaHttp == [m \in Chat |-> IF m = m1 THEN s1 ELSE s2]
SourceValue == [m \in Chat |-> IF m = m1 THEN a ELSE b]
DestValue == [m \in Chat |-> IF m = m1 THEN b ELSE a]
DestEveryone == [m \in Chat |-> IF m = m1 THEN b ELSE Everyone]
NoLink == {}
LinkS1S2 == {{s1, s2}}
AllLinks == {{s1, s2}, {s1, s3}, {s2, s3}}
=============================================================================
