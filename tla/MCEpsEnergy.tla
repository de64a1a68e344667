----------------------------- MODULE MCEpsEnergy -----------------------------
(* Instances of EpsEnergy for TLC: seven bits, and numbers of two digits.    *)
EXTENDS EpsEnergy

\* The smallest and largest of each width, and what wraps beyond them.
Edges == {0, 1, 63, 64, 100, 127}
==============================================================================
