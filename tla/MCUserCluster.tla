---------------------------- MODULE MCUserCluster ----------------------------
(* Instances of UserCluster for TLC: two mailstores, one tool on each.     *)
EXTENDS UserCluster

CONSTANTS h1, h2, p1, p2

MCHosts  == {h1, h2}
MCProcs  == {p1, p2}
MCHostOf == [p \in MCProcs |-> IF p = p1 THEN h1 ELSE h2]
=============================================================================
