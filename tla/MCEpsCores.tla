----------------------------- MODULE MCEpsCores -----------------------------
(* Instances of EpsCores for TLC. *)
EXTENDS EpsCores

\* Every bitmap of two nodes with four and three or four cores, with a core on
\* both, seen from each node.
Bitmaps(c) == {b \in SUBSET (0..(c[1] + c[2] - 1)) :
                  (\E x \in b : x < c[1]) /\ (\E x \in b : x >= c[1])}
Small == UNION {{[cores |-> c, bits |-> b, node |-> n] : b \in Bitmaps(c), n \in {0, 1}} :
                   c \in {<<4, 3>>, <<4, 4>>}}

\* Every s-th core of a node with 128 cores, from f on.  As text they are all there, cut
\* in front of a comma, in a number that is then no core of the job, a core read before
\* (8 again), or behind a comma.
Large == {[cores |-> <<128>>, node |-> 0, bits |-> {b \in f..127 : (b - f) % s = 0}] :
             <<f, s>> \in {<<0, 1>>, <<0, 4>>, <<0, 2>>, <<1, 3>>, <<2, 2>>, <<0, 3>>}}

\* Ranges of w cores, one every s: the last one is cut.
Ranges128 == {[cores |-> <<128>>, node |-> 0, bits |-> {b \in f..127 : (b - f) % s < w}] :
                 <<f, s, w>> \in {<<0, 5, 3>>, <<0, 6, 4>>, <<1, 6, 5>>, <<0, 7, 4>>, <<3, 4, 2>>}}
SmallAndLarge == Small \union Large \union Ranges128

\* A core of each node, a range of cores, and one that no node has.
SomeTokens == {<<1, 1>>, <<0, 2>>, <<200, 200>>}

\* Two sockets, cores in blocks, in turns, unevenly; a core without a socket.
LargeTopologies == {[c \in 1..128 |-> IF c <= 64 THEN 0 ELSE 1]}
AllTopologies   == LargeTopologies \union
                   {<<0, 0, 1, 1>>, <<0, 1, 0, 1>>, <<0, 0, 0, 1>>, <<0, 1, 1, -1>>,
                    <<0, 0, 1>>, <<0, 1, 1>>}
MinusOne == -1
=============================================================================
