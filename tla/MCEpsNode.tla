------------------------------ MODULE MCEpsNode ------------------------------
(* Instances of EpsNode for TLC: which faults each run allows. *)
EXTENDS EpsNode

AllFaults    == FaultKinds
FailuresOnly == {"prolog", "efp", "nodevs"}
NoDevices    == {"nodevs"}
NoFault      == {}
==============================================================================
