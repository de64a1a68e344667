------------------------------ MODULE MCEpsGres ------------------------------
(* Instances of EpsGres for TLC. *)
EXTENDS EpsGres

Entry(S) == [count |-> Cardinality(S), idx |-> S, shown |-> TRUE]
Other    == [count |-> 1, idx |-> {}, shown |-> FALSE]

\* No GRES; another resource only; some GPUs, alone, before and behind another
\* resource; GPUs of two types.
Few == {<<>>, <<Other>>}
       \union {<<Entry(S)>> : S \in SUBSET {0, 1, 2}}
       \union {<<Other, Entry(S)>> : S \in SUBSET {0, 1, 2}}
       \union {<<Entry(S), Other>> : S \in SUBSET {0, 1, 2}}
       \union {<<Entry({0}), Entry({2})>>, <<Entry({}), Entry({1, 2})>>}

\* A node of sixteen GPUs, nine or ten of them in use.
Many == {<<Entry(0..8)>>, <<Entry(0..9)>>}
AllFaults   == FaultKinds
NoFault     == {}
FewGpus     == 0..3
SixteenGpus == 0..15
==============================================================================
