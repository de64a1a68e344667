------------------------------- MODULE EpsGres -------------------------------
(***************************************************************************)
(* Which GPUs a job's EFP measures: the prolog reads the node's gres_used  *)
(* (eps_gres.c), parses the list of indexes out of it (parse_gres), asks   *)
(* NVML for the UUIDs of these GPUs (eps_nvml.c) and hands them to the     *)
(* EFP, which selects EMA's devices by them (eps_efp.c); and who frees the *)
(* two lists meanwhile.                                                    *)
(*                                                                         *)
(* gres_used is a sequence of entries, such as gpu:a100:2(IDX:0-1) or      *)
(* nic:1; a GPU's UUID is as good as its minor number.                     *)
(***************************************************************************)
EXTENDS Integers, FiniteSets, Sequences

CONSTANTS GresUsed,     \* values of gres_used: sequences of [count, idx, shown]
          Gpus,         \* minor numbers of the GPUs of the node
          Cpus,         \* EMA's CPU devices
          Faults        \* "nvml": its calls; "prolog": the rest of the prolog

FaultKinds == {"nvml", "prolog"}
ASSUME FaultsAssumption == Faults \subseteq FaultKinds
\* Slurm counts the GPUs in use and shows the indexes of those it counts.
ASSUME GresAssumption ==
    /\ GresUsed \subseteq Seq([count : Nat, idx : SUBSET Gpus, shown : BOOLEAN])
    /\ \A g \in GresUsed : \A i \in DOMAIN g : g[i].idx # {} => g[i].shown /\ g[i].count > 0
ASSUME GpusAssumption == IsFiniteSet(Gpus)

VARIABLES
    used,       \* gres_used
    own,        \* the GPUs of the job: other jobs may use the rest
    pc,
    idxs,       \* gres_idxs as a set
    list,       \* gres_uuid_list: "null", "held" or "freed"
    uuids,      \* what it holds
    left,       \* GPUs whose handle the loop has still to get
    frees,      \* how often each list was freed
    nvml,       \* history: FALSE once a call of NVML has failed
    measured    \* filtered_devices

vars == <<used, own, pc, idxs, list, uuids, left, frees, nvml, measured>>

Fault(f) == f \in Faults
UsedGpus == UNION {used[i].idx : i \in DOMAIN used}

-----------------------------------------------------------------------------
\* Entries with an index list; the text of one that has none is dropped.
Shown(g) == {i \in DOMAIN g : g[i].shown}

\* parse_gres and parse_index_range.  What follows the five characters of a count
\* of one digit and its "(IDX" is a list only when it ends with the text: another
\* entry behind it, or a longer count, leaves a token that has no digits in front,
\* and the whole list is given up.  A count of 0 ends it at once.
Parsed(g) ==
    IF /\ Shown(g) = {Len(g)}
       /\ g[Len(g)].count \in 1..9
    THEN g[Len(g)].idx
    ELSE {}

Init == /\ used \in GresUsed /\ own \in SUBSET UsedGpus
        /\ pc = "load" /\ idxs = {} /\ list = "null" /\ uuids = {}
        /\ left = {} /\ frees = [idxs |-> 0, list |-> 0]
        /\ nvml = TRUE /\ measured = {}

-----------------------------------------------------------------------------
(* The prolog: init_gres.                                                  *)

\* _process_gres_count; without an index nothing is allocated.
ProcessesCount ==
    /\ pc = "load"
    /\ idxs' = Parsed(used)
    /\ IF idxs' = {} THEN pc' = "freeidx" /\ list' = list ELSE pc' = "nvml" /\ list' = "held"
    /\ UNCHANGED <<used, own, uuids, left, frees, measured, nvml>>

\* slurm_load_node_single fails, and with it the prolog.
FailsToLoad ==
    /\ pc = "load" /\ Fault("prolog") /\ pc' = "end"
    /\ UNCHANGED <<used, own, idxs, list, uuids, left, frees, measured, nvml>>

\* NVML_HANDLE_RET: both lists are freed, the count of UUIDs stays.
NvmlError ==
    /\ Fault("nvml")
    /\ pc' = "freeidx" /\ list' = "freed" /\ nvml' = FALSE
    /\ frees' = [idxs |-> frees.idxs + 1, list |-> frees.list + 1]

NvmlInit ==
    /\ pc = "nvml"
    /\ \/ pc' = "loop" /\ left' = Gpus /\ UNCHANGED <<list, frees, nvml>>
       \/ NvmlError /\ UNCHANGED left
    /\ UNCHANGED <<used, own, idxs, uuids, measured>>

\* Defect: every GPU of the node is taken.
NvmlNextGpu_NoMatch(g) ==
    /\ pc = "loop" /\ g \in left
    /\ left' = left \ {g} /\ uuids' = uuids \union {g}
    /\ UNCHANGED <<used, own, pc, idxs, list, frees, measured, nvml>>

\* Defect: the count of UUIDs is not increased.
NvmlNextGpu_Overwrites(g) ==
    /\ pc = "loop" /\ g \in left
    /\ left' = left \ {g}
    /\ uuids' = IF g \in idxs THEN {g} ELSE uuids
    /\ UNCHANGED <<used, own, pc, idxs, list, frees, measured, nvml>>

\* The handle, the minor number and, when that is wanted, the UUID of a GPU.
NvmlNextGpu(g) ==
    /\ pc = "loop" /\ g \in left
    /\ \/ /\ left' = left \ {g}
          /\ uuids' = uuids \union ({g} \intersect idxs)
          /\ UNCHANGED <<pc, list, frees, nvml>>
       \/ NvmlError /\ UNCHANGED <<left, uuids>>
    /\ UNCHANGED <<used, own, idxs, measured>>

\* An error of nvmlShutdown is returned, and frees nothing.
NvmlShutdown ==
    /\ pc = "loop" /\ left = {} /\ pc' = "freeidx"
    /\ UNCHANGED <<used, own, idxs, list, uuids, left, frees, measured, nvml>>

\* The end of _process_gres, which only logs NVML's errors.
FreesIdxs ==
    /\ pc = "freeidx" /\ pc' = "fork"
    /\ frees' = IF idxs = {} THEN frees ELSE [frees EXCEPT !.idxs = @ + 1]
    /\ UNCHANGED <<used, own, idxs, list, uuids, left, measured, nvml>>

\* Defect: a match of the UUID is asked of the CPUs as well.
Selected_ByUuidOnly(matching) == IF uuids = {} THEN Cpus ELSE matching

\* The EFP: without UUIDs the CPUs, else the CPUs and the devices that match.
Selected(matching) == IF uuids = {} THEN Cpus ELSE Cpus \union matching

\* The EFP has a copy of the lists; a list that was freed may hold anything.
EfpSelects ==
    /\ pc = "fork" /\ pc' = "free"
    /\ \E matching \in IF list = "freed" THEN SUBSET Gpus ELSE {uuids} :
          measured' = Selected(matching)
    /\ UNCHANGED <<used, own, idxs, list, uuids, left, frees, nvml>>

\* Defect: the path of an error forgets the list.
FreesUuids_OnError ==
    /\ \/ pc = "free" /\ list # "null" /\ frees' = [frees EXCEPT !.list = @ + 1] /\ list' = "freed"
       \/ pc = "free" /\ list = "null" /\ UNCHANGED <<frees, list>>
       \/ pc = "fork" /\ Fault("prolog") /\ UNCHANGED <<frees, list>>
    /\ pc' = "end"
    /\ UNCHANGED <<used, own, idxs, uuids, left, measured, nvml>>

\* FREE_GRES_UUIDS: at the end of the prolog and wherever it fails before.
FreesUuids ==
    /\ pc = "free" \/ (pc = "fork" /\ Fault("prolog"))
    /\ pc' = "end"
    /\ IF list = "null" THEN UNCHANGED <<frees, list>>
       ELSE frees' = [frees EXCEPT !.list = @ + 1] /\ list' = "freed"
    /\ UNCHANGED <<used, own, idxs, uuids, left, measured, nvml>>

Ended == pc = "end" /\ UNCHANGED vars

Next == \/ ProcessesCount \/ FailsToLoad \/ NvmlInit \/ NvmlShutdown \/ FreesIdxs
        \/ EfpSelects \/ FreesUuids \/ Ended
        \/ \E g \in Gpus : NvmlNextGpu(g)
Spec == Init /\ [][Next]_vars

-----------------------------------------------------------------------------
\* gres_uuid_list has room for as many UUIDs as there are indexes: NVML's loop
\* never writes behind it, wherever it breaks off.
UuidsFit == Cardinality(uuids) <= Cardinality(idxs)

\* GPUs that no job uses are not measured, and the CPUs of every EFP are.
NoIdleGpu == /\ pc = "free" => Cpus \subseteq measured
             /\ list # "freed" => measured \subseteq Cpus \union UsedGpus

\* As long as NVML works, each list is freed once by the end of the prolog,
\* wherever that fails; after an error of NVML each is freed twice.
FreedOnce == nvml => /\ frees.idxs <= 1 /\ frees.list <= 1
                     /\ pc = "end" => frees.idxs = frees.list

\* README.md:63-67: without NVML the plugin "would not be able to measure GPU
\* devices"; with it, it "uses NVML internally" for the nodes that have them.
JobsGpusMeasured == pc = "free" => own \subseteq measured

\* They are, when gres_used ends with its one index list, of nine GPUs at most,
\* and NVML works.
ListedGpusMeasured ==
    nvml /\ Shown(used) = {Len(used)} /\ used[Len(used)].count < 10 => JobsGpusMeasured
==============================================================================
