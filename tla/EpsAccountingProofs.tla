------------------------ MODULE EpsAccountingProofs ------------------------
(***************************************************************************)
(* Theorems about EpsAccounting, for all values of its constants, and its  *)
(* refinement of EpsTables.                                                *)
(***************************************************************************)
EXTENDS EpsAccounting, TLAPS

-----------------------------------------------------------------------------
(* Types.                                                                  *)

EfpStates == {"none", "wait", "begin", "rows", "done", "lost"}

LEMMA RecMoved ==
    ASSUME TypeOK, NEW j \in Jobs, NEW n \in Nodes, NEW from, NEW to, RecMoves(j, n, from, to)
    PROVE  /\ tx[j][n] = from
           /\ \A i \in Jobs, m \in Nodes : tx'[i][m] = IF i = j /\ m = n THEN to ELSE tx[i][m]
           /\ to \in EfpStates => tx' \in [Jobs -> [Nodes -> EfpStates]]
<1>1. tx \in [Jobs -> [Nodes -> EfpStates]]
  BY DEF TypeOK, EfpStates
<1> DEFINE f == [tx[j] EXCEPT ![n] = to]
<1>2. tx[j][n] = from /\ tx' = [tx EXCEPT ![j] = f]
  BY DEF RecMoves
<1>3. tx[j] \in [Nodes -> EfpStates] BY <1>1
<1>4. \A m \in Nodes : f[m] = IF m = n THEN to ELSE tx[j][m] BY <1>3
<1>5. to \in EfpStates => f \in [Nodes -> EfpStates] BY <1>3
<1> HIDE DEF f
<1> QED BY <1>1, <1>2, <1>4, <1>5

LEMMA InitTyped == Init => TypeOK
  BY BoundsAssumption DEF Init, TypeOK

LEMMA CtldTyped ==
    ASSUME TypeOK, RunInv, NEW j \in Jobs,
           CtldInsertsUser(j) \/ CtldInsertsAllocation(j) \/ CtldSpawnsThread(j)
    PROVE  TypeOK'
<1> USE BoundsAssumption DEF TypeOK, tables, recs, thread, ctld
<1>1. CASE CtldInsertsUser(j)
  <2>1. run[j] + 1 \in 0..MaxRuns
    BY <1>1 DEF CtldInsertsUser, Startable
  <2> QED BY <1>1, <2>1 DEF CtldInsertsUser, Users
<1>2. CASE CtldInsertsAllocation(j)
  <2>1. PICK f \in [Nodes -> EfpStates] : tx' = [tx EXCEPT ![j] = f]
    <3>1. ASSUME NEW S PROVE [n \in Nodes |-> IF n \in S THEN "wait" ELSE "none"] \in [Nodes -> EfpStates]
      BY DEF EfpStates
    <3>2. CASE tx' = tx
      <4>1. tx[j] \in [Nodes -> EfpStates] BY DEF EfpStates
      <4> QED BY <3>2, <4>1
    <3> QED BY <1>2, <3>1, <3>2 DEF CtldInsertsAllocation
  <2>2. tx' \in [Jobs -> [Nodes -> EfpStates]]
    BY <2>1 DEF EfpStates
  <2> QED BY <1>2, <2>2 DEF CtldInsertsAllocation, EfpStates
<1>3. CASE CtldSpawnsThread(j)
  <2>1. job' \in [Jobs -> {"pending", "prolog", "running", "failed", "terminating"}]
    BY <1>3 DEF CtldSpawnsThread
  <2>2. /\ waited' \in [Jobs -> 0..PollLimit]
        /\ total' \in [Jobs -> {NoTotal} \union SUBSET Measurements]
    BY <1>3 DEF CtldSpawnsThread
  <2>3. /\ thr' \in [Jobs -> {"none", "connect", "poll", "sum", "log", "callback", "done"}]
        /\ rc' \in [Jobs -> {"success", "error"}]
    BY <1>3 DEF CtldSpawnsThread
  <2> QED BY <1>3, <2>1, <2>2, <2>3 DEF CtldSpawnsThread
<1> QED BY <1>1, <1>2, <1>3

LEMMA ThreadTyped == ASSUME TypeOK, RunInv, NEW j \in Jobs, ThreadStep(j) PROVE TypeOK'
<1> USE BoundsAssumption DEF TypeOK, tables, recs, ctld, Moves, Errs
<1>1. CASE ThreadConnects(j) BY <1>1 DEF ThreadConnects
<1>2. CASE ThreadPolls(j)
  <2>1. waited' \in [Jobs -> 0..PollLimit]
    <3>1. waited[j] < PollLimit => waited[j] + 1 \in 0..PollLimit OBVIOUS
    <3> QED BY <1>2, <3>1 DEF ThreadPolls
  <2>2. /\ thr' \in [Jobs -> {"none", "connect", "poll", "sum", "log", "callback", "done"}]
        /\ rc' \in [Jobs -> {"success", "error"}]
    BY <1>2 DEF ThreadPolls
  <2> QED BY <1>2, <2>1, <2>2 DEF ThreadPolls
<1>3. CASE ThreadSums(j)
  <2>1. MeasurementsOf(j) \in SUBSET Measurements
    BY DEF MeasurementsOf
  <2>2. total' \in [Jobs -> {NoTotal} \union SUBSET Measurements]
    BY <1>3, <2>1 DEF ThreadSums
  <2>3. /\ thr' \in [Jobs -> {"none", "connect", "poll", "sum", "log", "callback", "done"}]
        /\ rc' \in [Jobs -> {"success", "error"}]
    BY <1>3 DEF ThreadSums
  <2> QED BY <1>3, <2>2, <2>3 DEF ThreadSums
<1>4. CASE ThreadLogs(j)
  <2>1. \A w \in BOOLEAN :
           [job |-> j, run |-> run[j], total |-> total[j], written |-> w]
              \in [job : Jobs, run : 1..MaxRuns, total : SUBSET Measurements, written : BOOLEAN]
    BY <1>4 DEF ThreadLogs, RunInv
  <2>2. log' \subseteq [job : Jobs, run : 1..MaxRuns, total : SUBSET Measurements,
                       written : BOOLEAN]
    BY <1>4, <2>1 DEF ThreadLogs, HandsOver
  <2>3. /\ thr' \in [Jobs -> {"none", "connect", "poll", "sum", "log", "callback", "done"}]
        /\ rc' \in [Jobs -> {"success", "error"}]
    BY <1>4 DEF ThreadLogs
  <2> QED BY <1>4, <2>2, <2>3 DEF ThreadLogs
<1>5. CASE ThreadCallsBack(j) BY <1>5 DEF ThreadCallsBack
<1> QED BY <1>1, <1>2, <1>3, <1>4, <1>5 DEF ThreadStep

LEMMA EfpTyped == ASSUME TypeOK, RunInv, NEW j \in Jobs, NEW n \in Nodes, EfpStep(j, n)
                  PROVE  TypeOK'
<1> USE DEF tables, thread, ctld
<1>1. CASE EfpBegins(j, n)
  BY <1>1, RecMoved DEF EfpBegins, TypeOK, EfpStates
<1>2. CASE EfpInsertsExecution(j, n)
  BY <1>2, RecMoved DEF EfpInsertsExecution, TypeOK, EfpStates
<1>3. CASE EfpInsertsMeasurement(j, n)
  <2>1. PICK d \in DevsOf[n] \ ins[j][n] : ins' = [ins EXCEPT ![j][n] = @ \union {d}]
    BY <1>3 DEF EfpInsertsMeasurement
  <2> DEFINE f == [ins[j] EXCEPT ![n] = @ \union {d}]
  <2>2. d \in Devices BY DevicesAssumption
  <2>3. ins[j] \in [Nodes -> SUBSET Devices] BY DEF TypeOK
  <2>4. f \in [Nodes -> SUBSET Devices] BY <2>2, <2>3
  <2>5. ins' = [ins EXCEPT ![j] = f] BY <2>1
  <2> HIDE DEF f
  <2>6. ins' \in [Jobs -> [Nodes -> SUBSET Devices]] BY <2>4, <2>5 DEF TypeOK
  <2> QED BY <1>3, <2>6 DEF EfpInsertsMeasurement, TypeOK
<1>4. CASE EfpCommits(j, n)
  <2>1. run[j] \in 1..MaxRuns \/ tx[j][n] # "rows"
    BY BoundsAssumption DEF RunInv, TypeOK
  <2>2. tx[j][n] = "rows" /\ tx' \in [Jobs -> [Nodes -> EfpStates]]
    BY <1>4, RecMoved DEF EfpCommits, EfpStates
  <2>3. Execution(j, n) \in Executions
    BY <2>1, <2>2 DEF Execution, Executions
  <2>4. \A d \in ins[j][n] : Measurement(j, n, d) \in Measurements
    BY <2>1, <2>2 DEF Measurement, Measurements, TypeOK
  <2> QED BY <1>4, <2>2, <2>3, <2>4 DEF EfpCommits, TypeOK, EfpStates
<1>5. CASE EfpLoses(j, n)
  BY <1>5, RecMoved DEF EfpLoses, RecMoves, TypeOK, EfpStates
<1> QED BY <1>1, <1>2, <1>3, <1>4, <1>5 DEF EfpStep

-----------------------------------------------------------------------------
(* Runs: what there is of a job belongs to a run of it.                    *)

LEMMA InitRun == Init => RunInv
<1> SUFFICES ASSUME Init PROVE RunInv OBVIOUS
<1>1. \A j \in Jobs : job[j] = "pending" /\ thr[j] = "none" BY DEF Init
<1>2. \A j \in Jobs, n \in Nodes : tx[j][n] = "none" BY DEF Init
<1> QED BY <1>1, <1>2 DEF RunInv

LEMMA CtldRun ==
    ASSUME TypeOK, RunInv, NEW j \in Jobs,
           CtldInsertsUser(j) \/ CtldInsertsAllocation(j) \/ CtldSpawnsThread(j)
    PROVE  RunInv'
<1> USE DEF TypeOK, tables, recs, thread, ctld
<1>1. CASE CtldInsertsUser(j)
  <2>1. /\ \A i \in Jobs : i # j => job'[i] = job[i] /\ run'[i] = run[i]
        /\ job'[j] \in {"prolog", "failed"} /\ run'[j] = run[j] + 1
        /\ thr[j] \in {"none", "done"} /\ UNCHANGED <<thr, tx, total>>
    BY <1>1 DEF CtldInsertsUser, Startable, Stopped, RunInv
  <2> QED BY <2>1, BoundsAssumption DEF RunInv
<1>2. CASE CtldInsertsAllocation(j)
  <2>1. /\ \A i \in Jobs : i # j => job'[i] = job[i] /\ tx'[i] = tx[i]
        /\ job'[j] \in {"running", "failed"} /\ job[j] = "prolog"
        /\ UNCHANGED <<run, thr, total>>
    BY <1>2 DEF CtldInsertsAllocation
  <2> QED BY <2>1 DEF RunInv
<1>3. CASE CtldSpawnsThread(j)
  <2>1. /\ \A i \in Jobs : i # j => job'[i] = job[i] /\ thr'[i] = thr[i] /\ total'[i] = total[i]
        /\ job'[j] = "terminating" /\ job[j] \in {"running", "failed"}
        /\ thr'[j] \in {"connect", "none"}
        /\ UNCHANGED <<run, tx>>
    BY <1>3 DEF CtldSpawnsThread
  <2> QED BY <2>1 DEF RunInv
<1> QED BY <1>1, <1>2, <1>3

LEMMA ThreadRun == ASSUME TypeOK, RunInv, NEW j \in Jobs, ThreadStep(j) PROVE RunInv'
<1> USE DEF TypeOK, tables, recs, ctld, Moves
<1>1. /\ UNCHANGED <<job, run, tx>> /\ \A i \in Jobs : i # j => thr'[i] = thr[i] /\ total'[i] = total[i]
      /\ thr[j] \notin {"none", "done"}
  BY DEF ThreadStep, ThreadConnects, ThreadPolls, ThreadSums, ThreadLogs, ThreadCallsBack
<1>2. thr'[j] = "log" => total'[j] = MeasurementsOf(j) /\ thr[j] = "sum"
  BY DEF ThreadStep, ThreadConnects, ThreadPolls, ThreadSums, ThreadLogs, ThreadCallsBack
<1>3. thr'[j] = "log" => total'[j] \subseteq Measurements
  BY <1>2 DEF MeasurementsOf
<1> QED BY <1>1, <1>3 DEF RunInv

\* An EFP's step leaves slurmctld and its threads alone, and brings only its own
\* transaction forward.
LEMMA EfpForward ==
    ASSUME TypeOK, NEW j \in Jobs, NEW n \in Nodes, EfpStep(j, n)
    PROVE  /\ UNCHANGED <<job, run, users, alloc, thr, waited, total, rc, log>>
           /\ tx[j][n] \in {"wait", "begin", "rows"} /\ tx'[j][n] # "none"
           /\ \A i \in Jobs, m \in Nodes : i # j \/ m # n => tx'[i][m] = tx[i][m]
           /\ \/ /\ UNCHANGED <<execs, rows>>
                 /\ tx'[j][n] # "done"
              \/ /\ tx'[j][n] = "done"
                 /\ execs' = execs \union {Execution(j, n)}
                 /\ rows' = rows \union {Measurement(j, n, d) : d \in DevsOf[n]}
<1> USE DEF tables, thread, ctld
<1>1. CASE EfpBegins(j, n)
  BY <1>1, RecMoved DEF EfpBegins
<1>2. CASE EfpInsertsExecution(j, n)
  BY <1>2, RecMoved DEF EfpInsertsExecution
<1>3. CASE EfpInsertsMeasurement(j, n)
  BY <1>3 DEF EfpInsertsMeasurement
<1>4. CASE EfpCommits(j, n)
  BY <1>4, RecMoved DEF EfpCommits
<1>5. CASE EfpLoses(j, n)
  BY <1>5, RecMoved DEF EfpLoses, RecMoves
<1> QED BY <1>1, <1>2, <1>3, <1>4, <1>5 DEF EfpStep

LEMMA EfpRun == ASSUME TypeOK, RunInv, NEW j \in Jobs, NEW n \in Nodes, EfpStep(j, n)
                PROVE  RunInv'
  BY EfpForward DEF RunInv

-----------------------------------------------------------------------------
(* Executions: one for each job and node.                                  *)

LEMMA InitKey == Init => KeyInv
<1> SUFFICES ASSUME Init PROVE KeyInv OBVIOUS
<1>1. execs = {} /\ \A j \in Jobs, n \in Nodes : tx[j][n] = "none" BY DEF Init
<1> QED BY <1>1 DEF KeyInv, NoDoubleCount

LEMMA CtldKey ==
    ASSUME TypeOK, KeyInv, NEW j \in Jobs,
           CtldInsertsUser(j) \/ CtldInsertsAllocation(j) \/ CtldSpawnsThread(j)
    PROVE  KeyInv'
<1> USE DEF tables, recs, thread, ctld
<1>1. CASE CtldInsertsUser(j) \/ CtldSpawnsThread(j)
  <2>1. UNCHANGED <<alloc, execs, tx>>
    BY <1>1 DEF CtldInsertsUser, CtldSpawnsThread
  <2> QED BY <2>1 DEF KeyInv, NoDoubleCount
<1>2. CASE CtldInsertsAllocation(j)
  <2>1. execs' = execs BY <1>2 DEF CtldInsertsAllocation
  <2>2. CASE UNCHANGED <<alloc, tx>>
    BY <2>1, <2>2 DEF KeyInv, NoDoubleCount
  <2>3. CASE /\ j \notin alloc /\ alloc' = alloc \union {j}
             /\ \A i \in Jobs : i # j => tx'[i] = tx[i]
    <3>1. \A e \in execs : e.job \in Jobs /\ e.node \in Nodes
      BY DEF TypeOK, Executions
    <3>2. \A e \in execs : e.job # j
      BY <2>3, <3>1 DEF KeyInv
    <3> QED BY <2>1, <2>3, <3>1, <3>2 DEF KeyInv, NoDoubleCount
  <2> QED BY <1>2, <2>2, <2>3 DEF CtldInsertsAllocation, InsertsAllocation, TypeOK
<1> QED BY <1>1, <1>2

LEMMA EfpKey == ASSUME TypeOK, KeyInv, NEW j \in Jobs, NEW n \in Nodes, EfpStep(j, n)
                PROVE  KeyInv'
<1>1. /\ alloc' = alloc /\ tx[j][n] \in {"wait", "begin", "rows"}
      /\ \A i \in Jobs, m \in Nodes : i # j \/ m # n => tx'[i][m] = tx[i][m]
  BY EfpForward
<1>2. \A e \in execs : e.job \in Jobs /\ e.node \in Nodes /\ (e.job # j \/ e.node # n)
  BY <1>1 DEF KeyInv, TypeOK, Executions
<1>3. j \in alloc
  BY <1>1 DEF KeyInv
<1>4. \A e \in execs : tx'[e.job][e.node] = "done"
  BY <1>1, <1>2 DEF KeyInv
<1>5. CASE execs' = execs
  BY <1>1, <1>3, <1>4, <1>5 DEF KeyInv, NoDoubleCount
<1>6. CASE tx'[j][n] = "done" /\ execs' = execs \union {Execution(j, n)}
  <2>1. Execution(j, n).job = j /\ Execution(j, n).node = n BY DEF Execution
  <2> HIDE DEF Execution
  <2> QED BY <1>1, <1>2, <1>3, <1>4, <1>6, <2>1 DEF KeyInv, NoDoubleCount
<1> QED BY <1>5, <1>6, EfpForward

-----------------------------------------------------------------------------
(* Transactions: an execution and its measurements appear together.        *)

LEMMA InitWhole == Init => WholeInv
<1> SUFFICES ASSUME Init PROVE WholeInv OBVIOUS
<1>1. execs = {} /\ rows = {} /\ log = {} /\ \A j \in Jobs : thr[j] = "none" BY DEF Init
<1> QED BY <1>1 DEF WholeInv, NoTornExecution

LEMMA CtldWhole ==
    ASSUME TypeOK, WholeInv, NEW j \in Jobs,
           CtldInsertsUser(j) \/ CtldInsertsAllocation(j) \/ CtldSpawnsThread(j)
    PROVE  WholeInv'
<1>1. /\ UNCHANGED <<execs, rows, log>>
      /\ \A i \in Jobs : thr'[i] = "log" => thr[i] = "log" /\ total'[i] = total[i]
  BY DEF CtldInsertsUser, CtldInsertsAllocation, CtldSpawnsThread, tables, recs, thread, ctld, TypeOK
<1> QED BY <1>1 DEF WholeInv, NoTornExecution

LEMMA ThreadWhole == ASSUME TypeOK, WholeInv, NEW j \in Jobs, ThreadStep(j) PROVE WholeInv'
<1> USE DEF Moves
<1>1. UNCHANGED <<execs, rows>>
  BY DEF ThreadStep, ThreadConnects, ThreadPolls, ThreadSums, ThreadLogs, ThreadCallsBack, tables
<1>2. \A i \in Jobs : i # j => thr'[i] = thr[i] /\ total'[i] = total[i]
  BY DEF ThreadStep, ThreadConnects, ThreadPolls, ThreadSums, ThreadLogs, ThreadCallsBack, TypeOK
<1>3. WholeNodes(MeasurementsOf(j))
  <2> SUFFICES ASSUME NEW m \in MeasurementsOf(j), NEW d \in Devices, d \in DevsOf[m.node]
               PROVE  [m EXCEPT !.dev = d] \in MeasurementsOf(j)
    BY DEF WholeNodes
  <2>1. m \in rows /\ m.job = j /\ m \in Measurements BY DEF MeasurementsOf, TypeOK
  <2> DEFINE e == [job |-> m.job, run |-> m.run, node |-> m.node]
  <2>2. e \in execs BY <2>1 DEF WholeInv, NoTornExecution
  <2>3. [job |-> m.job, run |-> m.run, node |-> m.node, dev |-> d] \in rows
    BY <2>2 DEF WholeInv, NoTornExecution, TypeOK
  <2>4. [m EXCEPT !.dev = d] = [job |-> m.job, run |-> m.run, node |-> m.node, dev |-> d]
    BY <2>1 DEF Measurements
  <2> QED BY <2>1, <2>3, <2>4 DEF MeasurementsOf
<1>4. thr'[j] = "log" => total'[j] = MeasurementsOf(j)
  BY DEF ThreadStep, ThreadConnects, ThreadPolls, ThreadSums, ThreadLogs, ThreadCallsBack, TypeOK
<1>5. \A l \in log' : l \in log \/ (thr[j] = "log" /\ l.total = total[j])
  BY DEF ThreadStep, ThreadConnects, ThreadPolls, ThreadSums, ThreadLogs, ThreadCallsBack,
         HandsOver
<1>6. \A i \in Jobs : thr'[i] = "log" => WholeNodes(total'[i])
  BY <1>2, <1>3, <1>4 DEF WholeInv
<1>7. \A l \in log' : WholeNodes(l.total)
  BY <1>5 DEF WholeInv, NoTornExecution
<1> QED BY <1>1, <1>6, <1>7 DEF WholeInv, NoTornExecution

LEMMA EfpWhole == ASSUME TypeOK, WholeInv, NEW j \in Jobs, NEW n \in Nodes, EfpStep(j, n)
                  PROVE  WholeInv'
<1>1. UNCHANGED <<thr, total, log>> BY EfpForward
<1>2. CASE UNCHANGED <<execs, rows>>
  BY <1>1, <1>2 DEF WholeInv, NoTornExecution
<1>3. CASE /\ execs' = execs \union {Execution(j, n)}
           /\ rows' = rows \union {Measurement(j, n, d) : d \in DevsOf[n]}
  <2>1. ASSUME NEW e \in Executions, e \in execs', NEW d \in DevsOf[e.node]
        PROVE  [job |-> e.job, run |-> e.run, node |-> e.node, dev |-> d] \in rows'
    BY <1>3, <2>1 DEF WholeInv, NoTornExecution, Execution, Measurement
  <2>2. ASSUME NEW m \in rows'
        PROVE  [job |-> m.job, run |-> m.run, node |-> m.node] \in execs'
    BY <1>3, <2>2 DEF WholeInv, NoTornExecution, Execution, Measurement
  <2> QED BY <1>1, <2>1, <2>2 DEF WholeInv, NoTornExecution
<1> QED BY <1>2, <1>3, EfpForward

-----------------------------------------------------------------------------
(* The log: a run's line is its thread's.                                  *)

LEMMA InitLine == Init => LineInv
<1> SUFFICES ASSUME Init PROVE LineInv OBVIOUS
<1>1. log = {} /\ \A j \in Jobs : job[j] = "pending" /\ thr[j] = "none" BY DEF Init
<1> QED BY <1>1 DEF LineInv, AnswerMatchesLog

LEMMA CtldLine ==
    ASSUME TypeOK, RunInv, LineInv, NEW j \in Jobs,
           CtldInsertsUser(j) \/ CtldInsertsAllocation(j) \/ CtldSpawnsThread(j)
    PROVE  LineInv'
<1> USE DEF tables, recs, thread, ctld
<1>1. CASE CtldInsertsUser(j)
  <2>1. /\ \A i \in Jobs : i # j => job'[i] = job[i] /\ run'[i] = run[i]
        /\ job'[j] \in {"prolog", "failed"} /\ run'[j] = run[j] + 1 /\ run[j] \in Nat
        /\ thr[j] \in {"none", "done"} /\ UNCHANGED <<thr, rc, log>>
    BY <1>1 DEF CtldInsertsUser, Startable, Stopped, RunInv, TypeOK
  <2>2. \A l \in log : l.job \in Jobs /\ l.run \in Nat /\ l.run <= run[l.job]
    BY BoundsAssumption DEF LineInv, TypeOK
  <2>3. ~LineOf(j)'
    BY <2>1, <2>2 DEF LineOf
  <2>4. \A i \in Jobs : i # j => (LineOf(i)' <=> LineOf(i))
    BY <2>1 DEF LineOf
  <2>5. \A l \in log : l.run <= run'[l.job]
    BY <2>1, <2>2
  <2>6. AnswerMatchesLog'
    BY <2>1 DEF LineInv, AnswerMatchesLog
  <2> QED BY <2>1, <2>3, <2>4, <2>5, <2>6 DEF LineInv
<1>2. CASE CtldInsertsAllocation(j)
  <2>1. /\ \A i \in Jobs : i # j => job'[i] = job[i]
        /\ job'[j] \in {"running", "failed"} /\ job[j] = "prolog"
        /\ UNCHANGED <<run, thr, rc, log>>
    BY <1>2 DEF CtldInsertsAllocation, TypeOK
  <2>2. \A i \in Jobs : LineOf(i)' <=> LineOf(i)
    BY <2>1 DEF LineOf
  <2>3. AnswerMatchesLog'
    BY <2>1 DEF LineInv, AnswerMatchesLog
  <2> QED BY <2>1, <2>2, <2>3 DEF LineInv
<1>3. CASE CtldSpawnsThread(j)
  <2>1. /\ \A i \in Jobs : i # j => job'[i] = job[i] /\ thr'[i] = thr[i] /\ rc'[i] = rc[i]
        /\ job'[j] = "terminating" /\ job[j] \in {"running", "failed"}
        /\ thr'[j] = "none" \/ (thr'[j] = "connect" /\ rc'[j] = "success")
        /\ UNCHANGED <<run, log>>
    <3>1. CASE thr' = [thr EXCEPT ![j] = "connect"] /\ rc' = [rc EXCEPT ![j] = "success"]
      BY <1>3, <3>1 DEF CtldSpawnsThread, TypeOK
    <3>2. CASE thr' = [thr EXCEPT ![j] = "none"] /\ rc' = [rc EXCEPT ![j] = "error"]
      BY <1>3, <3>2 DEF CtldSpawnsThread, TypeOK
    <3> QED BY <1>3, <3>1, <3>2 DEF CtldSpawnsThread
  <2>2. \A i \in Jobs : LineOf(i)' <=> LineOf(i)
    BY <2>1 DEF LineOf
  <2>3. AnswerMatchesLog'
    BY <2>1 DEF LineInv, AnswerMatchesLog
  <2> QED BY <2>1, <2>2, <2>3 DEF LineInv
<1> QED BY <1>1, <1>2, <1>3

LEMMA ThreadLine == ASSUME TypeOK, RunInv, LineInv, NEW j \in Jobs, ThreadStep(j) PROVE LineInv'
<1> USE DEF Moves, Errs, ctld
<1>1. /\ UNCHANGED <<job, run>> /\ job[j] = "terminating"
      /\ \A i \in Jobs : i # j => thr'[i] = thr[i] /\ rc'[i] = rc[i]
  BY DEF ThreadStep, ThreadConnects, ThreadPolls, ThreadSums, ThreadLogs, ThreadCallsBack, TypeOK, RunInv
<1>2. \/ /\ log' = log
         /\ thr[j] \in {"connect", "poll", "sum", "log"}
         /\ \/ thr'[j] \in {"poll", "sum", "log"} /\ rc' = rc
            \/ thr'[j] = "callback" /\ rc'[j] = "error"
      \/ /\ \E w \in BOOLEAN : HandsOver(j, w)
         /\ thr[j] = "log" /\ thr'[j] = "callback" /\ rc' = rc
      \/ log' = log /\ thr[j] = "callback" /\ thr'[j] = "done" /\ rc' = rc
  BY DEF ThreadStep, ThreadConnects, ThreadPolls, ThreadSums, ThreadLogs, ThreadCallsBack, TypeOK
<1>3. \A i \in Jobs : i # j => (LineOf(i)' <=> LineOf(i))
  BY <1>1, <1>2 DEF LineOf, HandsOver
<1>4. \A l \in log' : l.run <= run'[l.job]
  BY <1>1, <1>2 DEF LineInv, TypeOK, HandsOver
<1>5. log' = log => (LineOf(j)' <=> LineOf(j))
  BY <1>1 DEF LineOf
<1>6. /\ thr'[j] \in {"connect", "poll", "sum", "log"} => rc'[j] = "success" /\ ~LineOf(j)'
      /\ thr'[j] \in {"callback", "done"} => (rc'[j] = "success" <=> LineOf(j)')
  <2>1. CASE /\ log' = log
             /\ thr[j] \in {"connect", "poll", "sum", "log"}
             /\ \/ thr'[j] \in {"poll", "sum", "log"} /\ rc' = rc
                \/ thr'[j] = "callback" /\ rc'[j] = "error"
    BY <1>5, <2>1 DEF LineInv
  <2>2. CASE /\ \E w \in BOOLEAN : HandsOver(j, w)
             /\ thr[j] = "log" /\ thr'[j] = "callback" /\ rc' = rc
    <3>1. PICK w \in BOOLEAN, l \in log' :
             l = [job |-> j, run |-> run[j], total |-> total[j], written |-> w]
      BY <2>2 DEF HandsOver
    <3>2. l.job = j /\ l.run = run'[j] BY <1>1, <3>1
    <3>3. LineOf(j)' BY <3>2 DEF LineOf
    <3> QED BY <2>2, <3>3 DEF LineInv
  <2>3. CASE log' = log /\ thr[j] = "callback" /\ thr'[j] = "done" /\ rc' = rc
    BY <1>5, <2>3 DEF LineInv
  <2> QED BY <1>2, <2>1, <2>2, <2>3
<1>7. AnswerMatchesLog'
  BY <1>1, <1>3, <1>6 DEF LineInv, AnswerMatchesLog, LineOf
<1> QED BY <1>1, <1>3, <1>4, <1>6, <1>7 DEF LineInv

LEMMA EfpLine == ASSUME TypeOK, LineInv, NEW j \in Jobs, NEW n \in Nodes, EfpStep(j, n)
                 PROVE  LineInv'
  BY EfpForward DEF LineInv, AnswerMatchesLog, LineOf

-----------------------------------------------------------------------------
(* Empty totals.                                                           *)

LEMMA InitEmpty == Init => EmptyInv
<1> SUFFICES ASSUME Init PROVE EmptyInv OBVIOUS
<1>1. \A j \in Jobs : thr[j] = "none" BY DEF Init
<1> QED BY <1>1 DEF EmptyInv, EmptyTotalOnlyAfterTimeout

LEMMA CtldEmpty ==
    ASSUME TypeOK, EmptyInv, NEW j \in Jobs,
           CtldInsertsUser(j) \/ CtldInsertsAllocation(j) \/ CtldSpawnsThread(j)
    PROVE  EmptyInv'
<1>1. rows' = rows
  BY DEF CtldInsertsUser, CtldInsertsAllocation, CtldSpawnsThread, tables
<1>2. \A i \in Jobs : \/ UNCHANGED <<thr[i], total[i], waited[i]>>
                      \/ thr'[i] \in {"none", "connect"} /\ total'[i] = NoTotal
  BY DEF CtldInsertsUser, CtldInsertsAllocation, CtldSpawnsThread, thread, TypeOK
<1> QED BY <1>1, <1>2, NoTotalAssumption DEF EmptyInv, EmptyTotalOnlyAfterTimeout, MeasurementsOf

LEMMA ThreadEmpty == ASSUME TypeOK, EmptyInv, NEW j \in Jobs, ThreadStep(j) PROVE EmptyInv'
<1> USE DEF Moves, tables
<1>1. rows' = rows
  BY DEF ThreadStep, ThreadConnects, ThreadPolls, ThreadSums, ThreadLogs, ThreadCallsBack
<1>2. \A i \in Jobs : i # j => UNCHANGED <<thr[i], total[i], waited[i]>>
  BY DEF ThreadStep, ThreadConnects, ThreadPolls, ThreadSums, ThreadLogs, ThreadCallsBack, TypeOK
<1>3. /\ waited[j] \in 0..PollLimit /\ PollLimit \in Nat
      /\ thr[j] # "none"
  BY BoundsAssumption
  DEF ThreadStep, ThreadConnects, ThreadPolls, ThreadSums, ThreadLogs, ThreadCallsBack, TypeOK
<1>4. \/ /\ thr'[j] = "sum" => MeasurementsOf(j) # {} \/ waited[j] >= PollLimit
         /\ UNCHANGED <<total, waited>>
      \/ thr[j] = "poll" /\ thr'[j] = "poll" /\ waited[j] < PollLimit /\ total' = total
      \/ thr[j] = "sum" /\ thr'[j] = "log" /\ total'[j] = MeasurementsOf(j) /\ waited' = waited
  BY DEF ThreadStep, ThreadConnects, ThreadPolls, ThreadSums, ThreadLogs, ThreadCallsBack, TypeOK
<1>5. thr'[j] = "sum" => MeasurementsOf(j) # {} \/ waited'[j] = PollLimit
  BY <1>3, <1>4
<1>6. total'[j] = {} => waited'[j] = PollLimit
  BY <1>3, <1>4 DEF EmptyInv, EmptyTotalOnlyAfterTimeout
<1> QED BY <1>1, <1>2, <1>5, <1>6 DEF EmptyInv, EmptyTotalOnlyAfterTimeout, MeasurementsOf

LEMMA EfpEmpty == ASSUME TypeOK, EmptyInv, NEW j \in Jobs, NEW n \in Nodes, EfpStep(j, n)
                  PROVE  EmptyInv'
<1>1. rows \subseteq rows' BY EfpForward
<1>2. \A i \in Jobs : MeasurementsOf(i) # {} => MeasurementsOf(i)' # {}
  BY <1>1 DEF MeasurementsOf
<1> QED BY <1>2, EfpForward DEF EmptyInv, EmptyTotalOnlyAfterTimeout

-----------------------------------------------------------------------------
(* The theorems.                                                           *)

LEMMA NextAcct == TypeOK /\ AcctInv /\ [Next]_vars => TypeOK' /\ AcctInv'
<1> SUFFICES ASSUME TypeOK, AcctInv, [Next]_vars PROVE TypeOK' /\ AcctInv' OBVIOUS
<1> USE DEF AcctInv
<1>1. ASSUME NEW j \in Jobs, CtldInsertsUser(j) \/ CtldInsertsAllocation(j) \/ CtldSpawnsThread(j)
      PROVE  TypeOK' /\ AcctInv'
  BY <1>1, CtldTyped, CtldRun, CtldKey, CtldWhole, CtldLine, CtldEmpty
<1>2. ASSUME NEW j \in Jobs, ThreadStep(j) PROVE TypeOK' /\ AcctInv'
  <2>1. KeyInv'
    BY <1>2 DEF ThreadStep, ThreadConnects, ThreadPolls, ThreadSums, ThreadLogs, ThreadCallsBack,
                tables, recs, KeyInv, NoDoubleCount
  <2> QED BY <1>2, <2>1, ThreadTyped, ThreadRun, ThreadWhole, ThreadLine, ThreadEmpty
<1>3. ASSUME NEW j \in Jobs, NEW n \in Nodes, EfpStep(j, n) PROVE TypeOK' /\ AcctInv'
  BY <1>3, EfpTyped, EfpRun, EfpKey, EfpWhole, EfpLine, EfpEmpty
<1>4. CASE UNCHANGED vars
  <2>1. UNCHANGED <<job, run, users, alloc, execs, rows, tx, ins, thr, waited, total, rc, log>>
    BY <1>4 DEF vars, ctld, tables, recs, thread
  <2> QED BY <2>1 DEF TypeOK, RunInv, KeyInv, NoDoubleCount, WholeInv, NoTornExecution, LineInv,
                      AnswerMatchesLog, LineOf, EmptyInv, EmptyTotalOnlyAfterTimeout, MeasurementsOf
<1> QED BY <1>1, <1>2, <1>3, <1>4 DEF Next, Finished

\* The tables, the threads and the log are what the next four theorems need, for
\* any jobs, nodes, devices, numbers of runs and polls, whatever fails.
THEOREM AcctInvariant == Spec => [](TypeOK /\ AcctInv)
<1>1. Init => TypeOK /\ AcctInv
  BY InitTyped, InitRun, InitKey, InitWhole, InitLine, InitEmpty DEF AcctInv
<1>2. TypeOK /\ AcctInv /\ [Next]_vars => TypeOK' /\ AcctInv' BY NextAcct
<1> QED BY <1>1, <1>2, PTL DEF Spec

\* Every reachable state has rows, totals and lines of the jobs' runs only.
THEOREM TypeCorrect == Spec => []TypeOK
<1>1. TypeOK /\ AcctInv => TypeOK OBVIOUS
<1> QED BY <1>1, AcctInvariant, PTL

\* However EFPs of however many nodes and devices fail or are killed, the tables
\* have an execution with all its measurements or neither, and so has every total.
THEOREM NeverTorn == Spec => []NoTornExecution
<1>1. TypeOK /\ AcctInv => NoTornExecution BY DEF AcctInv, WholeInv
<1> QED BY <1>1, AcctInvariant, PTL

\* However often a job is requeued, each of its nodes has one execution at most.
THEOREM CountedOnce == Spec => []NoDoubleCount
<1>1. TypeOK /\ AcctInv => NoDoubleCount BY DEF AcctInv, KeyInv
<1> QED BY <1>1, AcctInvariant, PTL

\* A total without a row is only read after the whole time-out.
THEOREM EmptyIsLate == Spec => []EmptyTotalOnlyAfterTimeout
<1>1. TypeOK /\ AcctInv => EmptyTotalOnlyAfterTimeout BY DEF AcctInv, EmptyInv
<1> QED BY <1>1, AcctInvariant, PTL

\* Whatever fails, in this run or an earlier one, the result given to slurmctld is
\* success just when this run's thread has handed its line to the open log; a line
\* that fprintf or fclose loses is answered with success too.
THEOREM AnswersTruly == Spec => []AnswerMatchesLog
<1>1. TypeOK /\ AcctInv => AnswerMatchesLog BY DEF AcctInv, LineInv
<1> QED BY <1>1, AcctInvariant, PTL


-----------------------------------------------------------------------------
(* EpsAccounting implements EpsTables.                                     *)

\* What InsertsAllocation and EfpInsertsExecution find: slurmctld's prolog has
\* inserted the owner before the allocation, and nothing is ever deleted.
OwnerInv == \A j \in Jobs : job[j] = "prolog" \/ j \in alloc => UserOf[j] \in users

LEMMA InitOwner == Init => OwnerInv
<1> SUFFICES ASSUME Init PROVE OwnerInv OBVIOUS
<1>1. \A j \in Jobs : job[j] = "pending" BY DEF Init
<1> QED BY <1>1 DEF Init, OwnerInv

LEMMA NextOwner == TypeOK /\ OwnerInv /\ [Next]_vars => OwnerInv'
<1> SUFFICES ASSUME TypeOK, OwnerInv, [Next]_vars PROVE OwnerInv' OBVIOUS
<1> USE DEF TypeOK
<1>1. ASSUME NEW j \in Jobs, CtldInsertsUser(j) PROVE OwnerInv'
  BY <1>1 DEF CtldInsertsUser, OwnerInv
<1>2. ASSUME NEW j \in Jobs, CtldInsertsAllocation(j) PROVE OwnerInv'
  <2>1. /\ users' = users /\ alloc' \subseteq alloc \union {j} /\ job[j] = "prolog"
        /\ \A i \in Jobs : job'[i] = "prolog" => job[i] = "prolog"
    BY <1>2 DEF CtldInsertsAllocation
  <2> QED BY <2>1 DEF OwnerInv
<1>3. ASSUME NEW j \in Jobs, CtldSpawnsThread(j) PROVE OwnerInv'
  <2>1. /\ users' = users /\ alloc' = alloc
        /\ \A i \in Jobs : job'[i] = "prolog" => job[i] = "prolog"
    BY <1>3 DEF CtldSpawnsThread, tables
  <2> QED BY <2>1 DEF OwnerInv
<1>4. ASSUME NEW j \in Jobs, ThreadStep(j) PROVE OwnerInv'
  BY <1>4 DEF ThreadStep, ThreadConnects, ThreadPolls, ThreadSums, ThreadLogs, ThreadCallsBack,
              ctld, tables, OwnerInv
<1>5. ASSUME NEW j \in Jobs, NEW n \in Nodes, EfpStep(j, n) PROVE OwnerInv'
  BY <1>5 DEF EfpStep, EfpBegins, EfpInsertsExecution, EfpInsertsMeasurement, EfpCommits,
              EfpLoses, ctld, tables, OwnerInv
<1>6. CASE UNCHANGED vars
  BY <1>6 DEF vars, ctld, tables, OwnerInv
<1> QED BY <1>1, <1>2, <1>3, <1>4, <1>5, <1>6 DEF Next, Finished

\* Each step of the hooks, threads and EFPs is a step of the tables or leaves them
\* alone; only a COMMIT adds an execution, and it has all its measurements.
LEMMA StepImplements ==
    TypeOK /\ AcctInv /\ OwnerInv /\ [Next]_vars => [Tables!TablesNext]_Tables!tables
<1> SUFFICES ASSUME TypeOK, AcctInv, OwnerInv, [Next]_vars
             PROVE  [Tables!TablesNext]_Tables!tables
  OBVIOUS
<1> USE DEF Tables!tables, Tables!TablesNext
<1>1. ASSUME NEW j \in Jobs, CtldInsertsUser(j) PROVE [Tables!TablesNext]_Tables!tables
  <2>1. Tables!AddUser(j) \/ UNCHANGED Tables!tables
    BY <1>1 DEF CtldInsertsUser, Tables!AddUser
  <2> QED BY <2>1
<1>2. ASSUME NEW j \in Jobs, CtldInsertsAllocation(j) PROVE [Tables!TablesNext]_Tables!tables
  <2>1. UserOf[j] \in users
    BY <1>2 DEF CtldInsertsAllocation, OwnerInv
  <2>2. Tables!AddAllocation(j) \/ UNCHANGED Tables!tables
    BY <1>2, <2>1 DEF CtldInsertsAllocation, InsertsAllocation, Tables!AddAllocation
  <2> QED BY <2>2
<1>3. ASSUME NEW j \in Jobs, CtldSpawnsThread(j) \/ ThreadStep(j)
      PROVE  [Tables!TablesNext]_Tables!tables
  BY <1>3 DEF CtldSpawnsThread, ThreadStep, ThreadConnects, ThreadPolls, ThreadSums, ThreadLogs,
              ThreadCallsBack, tables
<1>4. ASSUME NEW j \in Jobs, NEW n \in Nodes, EfpCommits(j, n)
      PROVE  [Tables!TablesNext]_Tables!tables
  <2>1. CASE UNCHANGED <<execs, rows>>
    BY <1>4, <2>1 DEF EfpCommits
  <2>2. CASE /\ RecMoves(j, n, "rows", "done")
             /\ execs' = execs \union {Execution(j, n)}
             /\ rows' = rows \union {Measurement(j, n, d) : d \in ins[j][n]}
    <3>1. tx[j][n] = "rows" BY <2>2 DEF RecMoves
    <3>2. j \in alloc BY <3>1 DEF AcctInv, KeyInv
    <3>3. UserOf[j] \in users BY <3>2 DEF OwnerInv
    <3>4. \A e \in execs : ~(e.job = j /\ e.node = n)
      BY <3>1 DEF AcctInv, KeyInv
    <3>5. run[j] \in 1..MaxRuns
      BY <3>1, BoundsAssumption DEF AcctInv, RunInv, TypeOK
    <3>6. rows' = rows \union Tables!Reported(j, run[j], n)
      BY <1>4, <2>2 DEF EfpCommits, Measurement, Tables!Reported
    <3>7. Tables!AddExecution(j, run[j], n)
      BY <1>4, <2>2, <3>2, <3>3, <3>4, <3>6
         DEF EfpCommits, Execution, Tables!AddExecution, Tables!Execution
    <3> QED BY <3>5, <3>7
  <2> QED BY <1>4, <2>1, <2>2 DEF EfpCommits
<1>5. ASSUME NEW j \in Jobs, NEW n \in Nodes, EfpStep(j, n), ~EfpCommits(j, n)
      PROVE  [Tables!TablesNext]_Tables!tables
  BY <1>5 DEF EfpStep, EfpBegins, EfpInsertsExecution, EfpInsertsMeasurement, EfpLoses, tables
<1>6. CASE UNCHANGED vars
  BY <1>6 DEF vars, tables
<1> QED BY <1>1, <1>2, <1>3, <1>4, <1>5, <1>6 DEF Next, Finished

\* For any jobs, nodes, devices and numbers of runs, whatever fails: what slurmctld
\* and the EFPs do to the database is what EpsTables promises its readers.
THEOREM ImplementsTables == Spec => TablesGrowByWholeExecutions
<1>1. Init => Tables!TablesInit BY DEF Init, Tables!TablesInit
<1>2. Init => OwnerInv BY InitOwner
<1>3. TypeOK /\ AcctInv /\ OwnerInv /\ [Next]_vars => [Tables!TablesNext]_Tables!tables
  BY StepImplements
<1>4. TypeOK /\ OwnerInv /\ [Next]_vars => OwnerInv' BY NextOwner
<1> QED BY <1>1, <1>2, <1>3, <1>4, AcctInvariant, PTL
       DEF Spec, TablesGrowByWholeExecutions, Tables!TablesSpec
==============================================================================
