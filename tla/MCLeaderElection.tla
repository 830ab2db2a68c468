--------------------------- MODULE MCLeaderElection ---------------------------
(* Instances of LeaderElection for TLC. *)
EXTENDS LeaderElection, TLC

CONSTANTS n1, n2, n3

Idle == [cpu |-> 1, mem |-> 1, load |-> 0]
Busy == [cpu |-> 2, mem |-> 1, load |-> 50]

(* n1 is always busier than the others. *)
BusyFirst == [n \in Node |-> IF n = n1 THEN {Busy} ELSE {Idle}]
IdleNodes == Permutations(Node \ {n1})
===============================================================================
