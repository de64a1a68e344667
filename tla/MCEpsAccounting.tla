--------------------------- MODULE MCEpsAccounting ---------------------------
(* Instances of EpsAccounting for TLC. *)
EXTENDS EpsAccounting

CONSTANTS j1, j2, n1, n2, cpu, gpu

\* The two jobs belong to one user, n1 has a GPU besides its socket.
OneUser    == [j \in Jobs |-> "u"]
MixedNodes == [n \in Nodes |-> IF n = n1 THEN {cpu, gpu} ELSE {cpu}]
AllFaults  == FaultKinds
NoFault    == {}
==============================================================================
