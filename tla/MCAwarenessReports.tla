-------------------------- MODULE MCAwarenessReports --------------------------
(* Instances of AwarenessReports for TLC. *)
EXTENDS AwarenessReports

CONSTANTS j1, j2, j3, n1, n2, cpu, gpu

\* Two jobs of one user and one of another; n1 has a GPU besides its socket.
TwoUsers   == [j \in Jobs |-> IF j = j3 THEN "u2" ELSE "u1"]
MixedNodes == [n \in Nodes |-> IF n = n1 THEN {cpu, gpu} ELSE {cpu}]
QueryFails == {"query"}
==============================================================================
