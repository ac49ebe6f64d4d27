---------------------------- MODULE MCMembership ----------------------------
(* Small instances of Membership for TLC: a seed and two more servers.       *)
EXTENDS Membership

CONSTANTS seed, s1, s2
=============================================================================
