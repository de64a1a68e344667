-------------------------- MODULE MCAwarenessDaemon --------------------------
(* Instances of AwarenessDaemon for TLC: everything may fail. *)
EXTENDS AwarenessDaemon

AllFaults == FaultKinds
==============================================================================
