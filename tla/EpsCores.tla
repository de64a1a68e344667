------------------------------ MODULE EpsCores ------------------------------
(***************************************************************************)
(* From Slurm's core bitmap to the utilization of the sockets: the prolog  *)
(* cuts its node's cores out of the bitmap of the whole allocation and     *)
(* prints them (eps_cpuinfo.c); the EFP parses the text (eps_utils.c) and  *)
(* counts the cores per socket (eps_efp.c).                                *)
(*                                                                         *)
(* A token of the text is a core <<c, c>> or a range of cores <<first,     *)
(* last>>; of characters only the number counts, and what a cut leaves.    *)
(***************************************************************************)
EXTENDS Integers, FiniteSets, Sequences, Functions

CONSTANTS Allocations,  \* [cores: cores of each node of the allocation, in
                        \*  order; bits: the bitmap; node: this node, from 0]
          Topologies,   \* hwloc's socket of each core of this node, or NoSocket
          NoSocket,     \* less than every socket
          CPU_IDS_SIZE, \* bytes of the text, its end included
          Garbage       \* tokens that an uninitialised pointer may lead to

ASSUME BitsAssumption == \A x \in Allocations :
          /\ x.cores \in Seq(Nat) /\ x.node \in 0..(Len(x.cores) - 1)
          /\ \A n \in DOMAIN x.cores : x.cores[n] <= 1000
          /\ \A b \in x.bits : b \in Nat
ASSUME SizeAssumption == CPU_IDS_SIZE \in Nat \ 0..2
ASSUME GarbageAssumption == \A g \in Garbage : g \in Nat \X Nat /\ g[1] <= g[2]

VARIABLES
    a,          \* the allocation
    hw,         \* the topology of this node
    pc,
    text,       \* cpu_ids: what is between its commas, and if it ends in a comma
    parsed,     \* the tokens as parse_index_range has parsed them
    indexes,    \* what parse_index_range has flattened
    j, k,       \* its position: token and element
    utilized    \* cores of the job on each socket

vars == <<a, hw, pc, text, parsed, indexes, j, k, utilized>>

-----------------------------------------------------------------------------
(* hwloc and populate_cpuinfo.                                             *)

CoreCount == Len(hw)
Cores == 0..(CoreCount - 1)
Parent(c) == hw[c + 1]
Sockets == {Parent(c) : c \in Cores} \ {NoSocket}

CoresPerSocket(s) == Cardinality({c \in Cores : Parent(c) = s})

\* A core without a socket is passed over: calloc has filled in socket 0.
SocketIdx(c) == IF Parent(c) = NoSocket THEN 0 ELSE Parent(c)

-----------------------------------------------------------------------------
(* Slurm's core bitmap.                                                    *)

\* get_job_resources_offset
Offset(n) == SumFunctionOnSet(a.cores, 1..n)
Local == {b - Offset(a.node) : b \in a.bits \intersect Offset(a.node)..(Offset(a.node + 1) - 1)}

\* bit_fmt: the maximal ranges in ascending order ...
Ranges(S) == {r \in S \X S : /\ r[1]..r[2] \subseteq S /\ r[1] <= r[2]
                             /\ r[1] - 1 \notin S /\ r[2] + 1 \notin S}
Digits(n) == IF n < 10 THEN 1 ELSE IF n < 100 THEN 2 ELSE 3
Chars(r) == 1 + Digits(r[1]) + IF r[1] = r[2] THEN 0 ELSE 1 + Digits(r[2])
TextLength(t) == SumFunction([i \in DOMAIN t |-> Chars(t[i])])

Tokens(S) == LET R == Ranges(S)
             IN  [i \in 1..Cardinality(R) |->
                     CHOOSE r \in R : Cardinality({x \in R : x[1] <= r[1]}) = i]

\* ... each with a comma behind it.  snprintf keeps one character less than the size, and
\* bit_fmt takes off the last one: the last comma when all of them fit, else whatever is
\* there.  What a cut leaves of a token are the first digits of its numbers.
FirstDigits(n, d) == LET missing == Digits(n) - d
                     IN  CASE d = 0 -> 0
                           [] d > 0 /\ missing = 1 -> n \div 10
                           [] d > 0 /\ missing = 2 -> n \div 100
                           [] OTHER -> n
Left(r, m) == IF m <= Digits(r[1]) THEN <<FirstDigits(r[1], m), FirstDigits(r[1], m)>>
              ELSE <<r[1], FirstDigits(r[2], m - Digits(r[1]) - 1)>>

NoText == [tokens |-> <<>>, comma |-> FALSE]
Fmt(S) ==
    LET t == Tokens(S)
        room == CPU_IDS_SIZE - 2
        fits == {n \in 0..Len(t) : TextLength(SubSeq(t, 1, n)) <= room}
        most == CHOOSE n \in fits : \A m \in fits : m <= n
        whole == SubSeq(t, 1, most)
        left == room - TextLength(whole)
    IN  IF TextLength(t) < CPU_IDS_SIZE THEN [tokens |-> t, comma |-> FALSE]
        ELSE IF left = 0 THEN [tokens |-> whole, comma |-> TRUE]
        ELSE [tokens |-> Append(whole, Left(t[most + 1], left)), comma |-> FALSE]

-----------------------------------------------------------------------------
Init == /\ a \in Allocations /\ hw \in {t \in Topologies : Len(t) = a.cores[a.node + 1]}
        /\ pc = "prolog" /\ text = NoText /\ parsed = <<>> /\ indexes = <<>> /\ j = 1 /\ k = 0
        /\ utilized = [s \in Sockets |-> 0]

\* Defect: the slice ends with the allocation instead of with the node.
ProcessCpus_ToTheEnd ==
    /\ pc = "prolog" /\ pc' = "parse"
    /\ text' = Fmt({b - Offset(a.node) : b \in {x \in a.bits : x >= Offset(a.node)}})
    /\ UNCHANGED <<a, hw, parsed, indexes, j, k, utilized>>

\* _process_cpus: the slice of this node, starting with core 0.  When it fails
\* (the host is not in the node list, say) that is logged and the text stays empty.
ProcessCpus ==
    /\ pc = "prolog" /\ pc' = "parse"
    /\ text' \in {Fmt(Local), NoText}
    /\ UNCHANGED <<a, hw, parsed, indexes, j, k, utilized>>

\* parse_index_token: is_range wants an end above the start, else it is one number.
Value(r) == IF r[1] < r[2] THEN r ELSE <<r[1], r[1]>>
Values(t) == [i \in DOMAIN t |-> Value(t[i])]
SizeOf(r) == r[2] - r[1] + 1
TotalSize == SumFunction([i \in DOMAIN parsed |-> SizeOf(parsed[i])])

\* parse_index_range: the tokens are those strtok finds; but their number is that of the
\* commas and one, so that behind a last comma a pointer is parsed that was never set.
\* An empty text is no list, and the EFP exits; so it does, or crashes, when the pointer
\* does not lead to a number.
Parses ==
    /\ pc = "parse"
    /\ \/ /\ text.tokens # <<>> /\ pc' = "flatten"
          /\ IF text.comma THEN \E g \in Garbage : parsed' = Append(Values(text.tokens), g)
             ELSE parsed' = Values(text.tokens)
       \/ (text.tokens = <<>> \/ text.comma) /\ pc' = "failed" /\ UNCHANGED parsed
    /\ UNCHANGED <<a, hw, text, indexes, j, k, utilized>>

\* Defect: `k == sizes[j]' for `k == sizes[j] - 1'.
Flattens_OneTooMany ==
    /\ pc = "flatten" /\ Len(indexes) < TotalSize
    /\ indexes' = Append(indexes, parsed[j][1] + k)
    /\ IF k = SizeOf(parsed[j]) THEN k' = 0 /\ j' = j + 1 ELSE k' = k + 1 /\ j' = j
    /\ UNCHANGED <<a, hw, pc, text, parsed, utilized>>

\* The loop of parse_index_range over all elements of all tokens; the
\* pointer it reads behind the last one is not used.
Flattens ==
    /\ pc = "flatten" /\ Len(indexes) < TotalSize
    /\ indexes' = Append(indexes, parsed[j][1] + k)
    /\ IF k = SizeOf(parsed[j]) - 1 THEN k' = 0 /\ j' = j + 1 ELSE k' = k + 1 /\ j' = j
    /\ UNCHANGED <<a, hw, pc, text, parsed, utilized>>

Flattened ==
    /\ pc = "flatten" /\ Len(indexes) = TotalSize /\ pc' = "count" /\ k' = 0
    /\ UNCHANGED <<a, hw, text, parsed, indexes, j, utilized>>

\* Behind the topology anything may be read, a socket or not.
SocketsRead(c) == IF c \in Cores THEN {SocketIdx(c)} ELSE Sockets \union {NoSocket}

\* Defect: the last index is left out.
Utilizes_ButLast ==
    /\ pc = "count"
    /\ IF k < Len(indexes) - 1
       THEN \/ /\ \E x \in SocketsRead(indexes[k + 1]) :
                     utilized' = [s \in Sockets |-> utilized[s] + IF s = x THEN 1 ELSE 0]
               /\ k' = k + 1 /\ pc' = pc
            \/ indexes[k + 1] \notin Cores /\ pc' = "failed" /\ UNCHANGED <<k, utilized>>
       ELSE pc' = "done" /\ UNCHANGED <<k, utilized>>
    /\ UNCHANGED <<a, hw, text, parsed, indexes, j>>

\* efp_main: one step per core; reading behind the topology may crash the EFP.
Utilizes ==
    /\ pc = "count"
    /\ IF k < Len(indexes)
       THEN \/ /\ \E x \in SocketsRead(indexes[k + 1]) :
                     utilized' = [s \in Sockets |-> utilized[s] + IF s = x THEN 1 ELSE 0]
               /\ k' = k + 1 /\ pc' = pc
            \/ indexes[k + 1] \notin Cores /\ pc' = "failed" /\ UNCHANGED <<k, utilized>>
       ELSE pc' = "done" /\ UNCHANGED <<k, utilized>>
    /\ UNCHANGED <<a, hw, text, parsed, indexes, j>>

Ended == pc \in {"failed", "done"} /\ UNCHANGED vars

Next == ProcessCpus \/ Parses \/ Flattens \/ Flattened \/ Utilizes \/ Ended
Spec == Init /\ [][Next]_vars

-----------------------------------------------------------------------------
Whole == TextLength(Tokens(Local)) < CPU_IDS_SIZE

\* The EFP reads this node's cores of the job, each once, when the text has room for
\* them.  Of a text that is cut inside a token it reads some of them, each once, and a
\* last index that may be another job's core or one read before; of a text cut behind
\* a comma nothing is promised.
OwnCoresOnce ==
    pc \in {"count", "done"} /\ ~text.comma =>
        LET own == SubSeq(indexes, 1, Len(indexes) - 1)
        IN  /\ IsInjective(own) /\ Range(own) \subseteq Local
            /\ Whole => IsInjective(indexes) /\ Range(indexes) = Local

\* The loop over tokens and elements ends with the last element.  What it yields are
\* cores of the node's topology, so that socket_idx is read in bounds, also when the
\* text is cut; unless that leaves a comma at its end.
ReadsInBounds ==
    /\ pc = "flatten" /\ Len(indexes) < TotalSize => j <= Len(parsed) /\ k < SizeOf(parsed[j])
    /\ ~text.comma => Range(indexes) \subseteq Cores

\* README.md:26-30: "if 2 cores from 4 available on the socket were allocated the
\* utilization value will be 50%".
UtilizationAsDocumented ==
    pc = "done" => \A s \in Sockets :
                      utilized[s] = Cardinality({c \in Local : Parent(c) = s})

\* The share of a socket that a job is said to use is the one it was allocated, as
\* long as the text has room and every core a socket; a socket is never used by
\* more cores than it has.
UtilizationIsShare ==
    Whole /\ (\A c \in Cores : Parent(c) # NoSocket)
    => /\ UtilizationAsDocumented
       /\ \A s \in Sockets : utilized[s] <= CoresPerSocket(s)
=============================================================================
