---------------------------- MODULE EpsGresProofs ----------------------------
(***************************************************************************)
(* Theorems about EpsGres, for all values of gres_used, all sets of        *)
(* devices and all faults.                                                 *)
(***************************************************************************)
EXTENDS EpsGres, FiniteSetTheorems, SequenceTheorems, TLAPS

Inside == {"nvml", "loop"}                      \* _process_gres asks NVML
Over   == {"freeidx", "fork", "free", "end"}

TypeInv ==
    /\ used \in GresUsed /\ own \subseteq UsedGpus
    /\ pc \in {"load"} \union Inside \union Over
    /\ idxs \subseteq Gpus /\ uuids \subseteq idxs /\ left \subseteq Gpus
    /\ list \in {"null", "held", "freed"}
    /\ frees \in [idxs : Nat, list : Nat]
    /\ nvml \in BOOLEAN

\* The lists are those of gres_used, and without a list nothing is asked.
IdxsInv ==
    /\ pc = "load" => idxs = {}
    /\ pc \notin {"load", "end"} => idxs = Parsed(used)
    /\ pc \in Inside => idxs # {}
    /\ pc \in {"load"} \union Inside => nvml

\* NVML's loop has passed the GPUs that are not left.
UuidsInv ==
    /\ pc \in {"load", "nvml"} => uuids = {}
    /\ pc = "loop" => uuids = idxs \ left
    /\ nvml /\ pc \in {"freeidx", "fork", "free"} => uuids = idxs

\* Who has freed what as long as NVML works.
FreesInv ==
    nvml =>
    /\ pc # "end" => /\ list = IF pc = "load" \/ idxs = {} THEN "null" ELSE "held"
                     /\ frees.list = 0
                     /\ frees.idxs = IF pc \in {"fork", "free"} /\ idxs # {} THEN 1 ELSE 0
    /\ pc = "end" => frees.idxs = frees.list /\ frees.idxs <= 1

MeasuredInv ==
    /\ pc \notin {"free", "end"} => measured = {}
    /\ pc = "free" => Cpus \subseteq measured
    /\ list # "freed" => measured \subseteq Cpus \union UsedGpus
    /\ nvml /\ pc = "free" => measured = Selected(uuids)

GresInv == TypeInv /\ IdxsInv /\ UuidsInv /\ FreesInv /\ MeasuredInv

-----------------------------------------------------------------------------
LEMMA EntryTyped ==
    ASSUME used \in GresUsed, NEW i \in DOMAIN used
    PROVE  used[i] \in [count : Nat, idx : SUBSET Gpus, shown : BOOLEAN]
<1> DEFINE E == [count : Nat, idx : SUBSET Gpus, shown : BOOLEAN]
<1>1. used \in Seq(E) BY GresAssumption
<1> HIDE DEF E
<1>2. i \in 1..Len(used) BY <1>1
<1>3. used[i] \in E BY <1>1, <1>2, ElementOfSeq
<1> QED BY <1>3 DEF E

LEMMA ParsedUsed == ASSUME used \in GresUsed PROVE Parsed(used) \subseteq Gpus \intersect UsedGpus
<1>1. \A i \in DOMAIN used : used[i].idx \subseteq Gpus /\ used[i].idx \subseteq UsedGpus
  BY EntryTyped DEF UsedGpus
<1>2. Shown(used) \subseteq DOMAIN used BY DEF Shown
<1> QED BY <1>1, <1>2 DEF Parsed

LEMMA InitGres == Init => GresInv
BY DEF Init, GresInv, TypeInv, IdxsInv, UuidsInv, FreesInv, MeasuredInv, Inside, Over

LEMMA NextGres == GresInv /\ [Next]_vars => GresInv'
<1> SUFFICES ASSUME GresInv, [Next]_vars PROVE GresInv' OBVIOUS
<1> USE DEF GresInv, TypeInv, IdxsInv, UuidsInv, FreesInv, MeasuredInv, Inside, Over
<1>1. Parsed(used) \subseteq Gpus /\ Parsed(used) \subseteq UsedGpus BY ParsedUsed
<1>2. NvmlError => frees' \in [idxs : Nat, list : Nat] BY DEF NvmlError
<1>3. CASE ProcessesCount
  <2>1. TypeInv' BY <1>1, <1>3 DEF ProcessesCount, UsedGpus
  <2>2. IdxsInv' BY <1>3 DEF ProcessesCount
  <2>3. UuidsInv' BY <1>3 DEF ProcessesCount
  <2>4. FreesInv' BY <1>3 DEF ProcessesCount
  <2>5. MeasuredInv' BY <1>3 DEF ProcessesCount, UsedGpus
  <2> QED BY <2>1, <2>2, <2>3, <2>4, <2>5
<1>4. CASE FailsToLoad
  <2>1. TypeInv' BY <1>4 DEF FailsToLoad, UsedGpus
  <2>2. IdxsInv' BY <1>4 DEF FailsToLoad
  <2>3. UuidsInv' BY <1>4 DEF FailsToLoad
  <2>4. FreesInv' BY <1>4 DEF FailsToLoad
  <2>5. MeasuredInv' BY <1>4 DEF FailsToLoad, UsedGpus
  <2> QED BY <2>1, <2>2, <2>3, <2>4, <2>5
<1>5. CASE NvmlInit
  <2>1. TypeInv' /\ IdxsInv' BY <1>2, <1>5 DEF NvmlInit, NvmlError, UsedGpus
  <2>2. UuidsInv' BY <1>5 DEF NvmlInit, NvmlError
  <2>3. FreesInv' /\ MeasuredInv' BY <1>5 DEF NvmlInit, NvmlError, UsedGpus
  <2> QED BY <2>1, <2>2, <2>3
<1>6. ASSUME NEW g \in Gpus, NvmlNextGpu(g) PROVE GresInv'
  <2>1. TypeInv' BY <1>2, <1>6 DEF NvmlNextGpu, NvmlError, UsedGpus
  <2>2. IdxsInv'
    <3>1. used' = used /\ idxs' = idxs /\ pc = "loop" BY <1>6 DEF NvmlNextGpu
    <3>2. \/ pc' = pc /\ nvml' = nvml
          \/ pc' = "freeidx"
      BY <1>6 DEF NvmlNextGpu, NvmlError
    <3> QED BY <3>1, <3>2
  <2>3. UuidsInv' BY <1>6 DEF NvmlNextGpu, NvmlError
  <2>4. FreesInv' /\ MeasuredInv' BY <1>6 DEF NvmlNextGpu, NvmlError, UsedGpus
  <2> QED BY <2>1, <2>2, <2>3, <2>4
<1>7. CASE NvmlShutdown BY <1>7 DEF NvmlShutdown, UsedGpus
<1>8. CASE FreesIdxs BY <1>8 DEF FreesIdxs, UsedGpus
<1>9. CASE EfpSelects
  <2>1. TypeInv' /\ IdxsInv' /\ UuidsInv' /\ FreesInv' BY <1>9 DEF EfpSelects, UsedGpus
  <2>2. PICK m \in IF list = "freed" THEN SUBSET Gpus ELSE {uuids} : measured' = Selected(m)
    BY <1>9 DEF EfpSelects
  <2>3. list # "freed" => m = uuids /\ m \subseteq UsedGpus BY <1>1, <1>9, <2>2 DEF EfpSelects
  <2>4. nvml => list # "freed" BY <1>9 DEF EfpSelects
  <2>5. Cpus \subseteq measured' /\ (list # "freed" => measured' \subseteq Cpus \union UsedGpus)
    BY <2>2, <2>3 DEF Selected
  <2>6. UsedGpus' = UsedGpus /\ uuids' = uuids /\ list' = list /\ nvml' = nvml /\ pc' = "free"
    BY <1>9 DEF EfpSelects, UsedGpus
  <2>7. nvml' => measured' = Selected(uuids)' BY <2>2, <2>3, <2>4, <2>6 DEF Selected
  <2>8. MeasuredInv' BY <2>5, <2>6, <2>7
  <2> QED BY <2>1, <2>8
<1>10. CASE FreesUuids BY <1>10 DEF FreesUuids, UsedGpus
<1>11. CASE UNCHANGED vars BY <1>11 DEF vars, UsedGpus, Selected
<1> QED BY <1>3, <1>4, <1>5, <1>6, <1>7, <1>8, <1>9, <1>10, <1>11 DEF Next, Ended

\* The prolog's lists and what is measured fit one another on every path.
THEOREM GresInvariant == Spec => []GresInv
BY InitGres, NextGres, PTL DEF Spec

-----------------------------------------------------------------------------
\* NVML's loop never writes behind the list that was allocated for the indexes.
THEOREM ListsHold == Spec => []UuidsFit
<1>1. GresInv => UuidsFit
  <2> SUFFICES ASSUME GresInv PROVE UuidsFit OBVIOUS
  <2>1. uuids \subseteq idxs /\ idxs \subseteq Gpus BY DEF GresInv, TypeInv
  <2>2. IsFiniteSet(idxs) BY <2>1, GpusAssumption, FS_Subset
  <2> QED BY <2>1, <2>2, FS_Subset DEF UuidsFit
<1> QED BY <1>1, GresInvariant, PTL

\* No GPU without a job is measured while the list is intact, and every EFP
\* measures the CPUs.
THEOREM IdleGpusNotMeasured == Spec => []NoIdleGpu
<1>1. GresInv => NoIdleGpu BY DEF GresInv, MeasuredInv, NoIdleGpu
<1> QED BY <1>1, GresInvariant, PTL

\* While NVML works each list is freed exactly once, on every path of the prolog.
THEOREM FreesEachOnce == Spec => []FreedOnce
<1>1. GresInv => FreedOnce BY DEF GresInv, TypeInv, FreesInv, FreedOnce, Inside, Over
<1> QED BY <1>1, GresInvariant, PTL

\* When the text ends with its one index list, of nine GPUs at most, the EFP
\* measures every GPU of the job.
THEOREM MeasuresListedGpus == Spec => []ListedGpusMeasured
<1>1. ASSUME GresInv, nvml, Shown(used) = {Len(used)}, used[Len(used)].count < 10, pc = "free"
      PROVE  own \subseteq measured
  <2> DEFINE n == Len(used)
  <2>1. n \in DOMAIN used BY <1>1 DEF Shown
  <2>2. \A i \in DOMAIN used : i # n => used[i].idx = {}
    BY <1>1, GresAssumption DEF GresInv, TypeInv, Shown
  <2>3. UsedGpus = used[n].idx BY <2>1, <2>2 DEF UsedGpus
  <2>4. used[n].count \in Nat BY <1>1, <2>1, EntryTyped DEF GresInv, TypeInv
  <2>5. used[n].count = 0 => used[n].idx = {}
    BY <1>1, <2>1, GresAssumption DEF GresInv, TypeInv
  <2>6. UsedGpus = Parsed(used)
    <3>1. CASE used[n].count = 0 BY <2>3, <2>5, <3>1 DEF Parsed
    <3>2. CASE used[n].count # 0
      <4>1. used[n].count \in 1..9 BY <1>1, <2>4, <3>2
      <4> QED BY <1>1, <2>3, <4>1 DEF Parsed
    <3> QED BY <3>1, <3>2
  <2>7. own \subseteq uuids BY <1>1, <2>6 DEF GresInv, TypeInv, IdxsInv, UuidsInv
  <2> QED BY <1>1, <2>7 DEF GresInv, MeasuredInv, Selected
<1>2. GresInv => ListedGpusMeasured BY <1>1 DEF ListedGpusMeasured, JobsGpusMeasured
<1> QED BY <1>2, GresInvariant, PTL
==============================================================================
