---------------------------- MODULE EpsAccounting ----------------------------
(***************************************************************************)
(* The accounting of jobs in the database: slurmctld's prolog, which       *)
(* inserts the user and the allocation; one EFP per node, which inserts    *)
(* its execution and measurements in one transaction once the job has      *)
(* ended; and the detached thread of slurmctld's epilog, which polls for   *)
(* the measurements and appends the job's total to the log (prep_epsa.c,   *)
(* src/eps_efp.c, src/eps_db.c, db/base-scheme.sql).                       *)
(*                                                                         *)
(* What an EFP does before it is resumed is EpsNode's subject.  Energy is  *)
(* a set of rows here: a total is the set of measurements it sums up.      *)
(***************************************************************************)
EXTENDS Integers

CONSTANTS Jobs, Nodes, Devices,
          UserOf,       \* the owner of each job
          DevsOf,       \* the devices the EFP of each node measures
          MaxRuns,      \* bound: runs of a job (it is requeued)
          PollLimit,    \* polls until the time-out (150 in the code)
          Faults,       \* what may fail, see FaultKinds
          NoTotal       \* a value that is no set of rows

\* "db": a connection or a query; "efp": an EFP, or there is none to start
\* with; "thread": pthread_create; "log": opening the log file; "write": a write
\* to it, at which nobody looks.
FaultKinds == {"db", "efp", "thread", "log", "write"}

ASSUME DevicesAssumption == DevsOf \in [Nodes -> SUBSET Devices]
ASSUME BoundsAssumption == MaxRuns \in Nat \ {0} /\ PollLimit \in Nat \ {0}
ASSUME FaultsAssumption == Faults \subseteq FaultKinds
ASSUME NoTotalAssumption == NoTotal # {}

Users == {UserOf[j] : j \in Jobs}

VARIABLES
    job,        \* what slurmctld is doing with each job
    run,        \* how often the job was started
    users, alloc,       \* rows of users and allocations
    execs, rows,        \* committed rows of executions and measurements
    tx,         \* where the EFP of each job and node is
    ins,        \* devices it has inserted in its open transaction
    thr,        \* where the epilog thread of the job is
    waited,     \* polls it has slept through
    total,      \* the total it has read, or NoTotal
    rc,         \* its result
    log         \* lines handed to eps_energy.log, each with whether it was
                \* really written

ctld   == <<job, run>>
tables == <<users, alloc, execs, rows>>
recs   == <<tx, ins>>
thread == <<thr, waited, total, rc>>
vars   == <<ctld, tables, recs, thread, log>>

Executions   == [job : Jobs, run : 1..MaxRuns, node : Nodes]
Measurements == [job : Jobs, run : 1..MaxRuns, node : Nodes, dev : Devices]
Init == /\ job = [j \in Jobs |-> "pending"]
        /\ run = [j \in Jobs |-> 0]
        /\ users = {} /\ alloc = {} /\ execs = {} /\ rows = {}
        /\ tx = [j \in Jobs |-> [n \in Nodes |-> "none"]]
        /\ ins = [j \in Jobs |-> [n \in Nodes |-> {}]]
        /\ thr = [j \in Jobs |-> "none"]
        /\ waited = [j \in Jobs |-> 0]
        /\ total = [j \in Jobs |-> NoTotal]
        /\ rc = [j \in Jobs |-> "success"]
        /\ log = {}

Fault(f) == f \in Faults

-----------------------------------------------------------------------------
(* prep_p_prolog_slurmctld.  It is synchronous; when it fails slurmctld    *)
(* does not launch the job.                                                *)

Stopped(j) == thr[j] \in {"none", "done"} /\ \A n \in Nodes : tx[j][n] \in {"none", "done", "lost"}
Startable(j) == /\ run[j] < MaxRuns
                /\ \/ job[j] = "pending"
                   \/ job[j] = "terminating" /\ Stopped(j)

\* Connects, and inserts or refreshes the user: the first of two statements
\* that are committed one by one.
CtldInsertsUser(j) ==
    /\ Startable(j)
    /\ run' = [run EXCEPT ![j] = @ + 1]
    /\ \/ /\ users' = users \union {UserOf[j]}
          /\ job' = [job EXCEPT ![j] = "prolog"]
       \/ /\ Fault("db")
          /\ job' = [job EXCEPT ![j] = "failed"]
          /\ UNCHANGED users
    /\ UNCHANGED <<alloc, execs, rows, recs, thread, log>>

\* Defect: a requeued job's allocation is inserted with ON CONFLICT DO UPDATE.
InsertsAllocation_Upserts(j) == TRUE

\* The jobid is the primary key of allocations: a second insert fails.
InsertsAllocation(j) == j \notin alloc

\* The nodes' prologs then start the EFPs, as EpsNode tells.
CtldInsertsAllocation(j) ==
    /\ job[j] = "prolog"
    /\ \/ /\ InsertsAllocation(j)
          /\ alloc' = alloc \union {j}
          /\ job' = [job EXCEPT ![j] = "running"]
          /\ \E started \in SUBSET Nodes :
                /\ Fault("efp") \/ started = Nodes
                /\ tx' = [tx EXCEPT ![j] = [n \in Nodes |->
                             IF n \in started THEN "wait" ELSE "none"]]
       \/ /\ ~InsertsAllocation(j) \/ Fault("db")
          /\ job' = [job EXCEPT ![j] = "failed"]
          /\ UNCHANGED <<alloc, tx>>
    /\ ins' = [ins EXCEPT ![j] = [n \in Nodes |-> {}]]
    /\ UNCHANGED <<run, users, execs, rows, thread, log>>

-----------------------------------------------------------------------------
(* prep_p_epilog_slurmctld, called as soon as the job is terminating.      *)

CtldSpawnsThread(j) ==
    /\ job[j] \in {"running", "failed"}
    /\ job' = [job EXCEPT ![j] = "terminating"]
    /\ waited' = [waited EXCEPT ![j] = 0]
    /\ total' = [total EXCEPT ![j] = NoTotal]
    /\ \/ /\ thr' = [thr EXCEPT ![j] = "connect"]
          /\ rc' = [rc EXCEPT ![j] = "success"]
       \/ /\ Fault("thread")                    \* async = false
          /\ thr' = [thr EXCEPT ![j] = "none"]
          /\ rc' = [rc EXCEPT ![j] = "error"]
    /\ UNCHANGED <<run, tables, recs, log>>

Moves(j, from, to) == thr[j] = from /\ thr' = [thr EXCEPT ![j] = to]
Errs(j) == rc' = [rc EXCEPT ![j] = "error"]

ThreadConnects(j) ==
    /\ \/ Moves(j, "connect", "poll") /\ UNCHANGED rc
       \/ Fault("db") /\ Moves(j, "connect", "callback") /\ Errs(j)
    /\ UNCHANGED <<ctld, tables, recs, waited, total, log>>

MeasurementsOf(j) == {m \in rows : m.job = j}

\* Defect: the thread gives up one poll early.
ThreadPolls_Hasty(j) ==
    /\ \/ /\ MeasurementsOf(j) # {} \/ waited[j] >= PollLimit - 1
          /\ Moves(j, "poll", "sum")
          /\ UNCHANGED waited
       \/ /\ MeasurementsOf(j) = {} /\ waited[j] < PollLimit
          /\ Moves(j, "poll", "poll")
          /\ waited' = [waited EXCEPT ![j] = @ + 1]
    /\ UNCHANGED <<ctld, tables, recs, total, rc, log>>

\* Defect: `>' for `>=': one poll too many.
ThreadPolls_Late(j) ==
    /\ \/ /\ MeasurementsOf(j) # {} \/ waited[j] > PollLimit
          /\ Moves(j, "poll", "sum")
          /\ UNCHANGED waited
       \/ /\ MeasurementsOf(j) = {} /\ waited[j] <= PollLimit
          /\ Moves(j, "poll", "poll")
          /\ waited' = [waited EXCEPT ![j] = @ + 1]
    /\ UNCHANGED <<ctld, tables, recs, total, rc, log>>

\* Defect: the thread really waits as long as it takes.
ThreadPolls_Forever(j) ==
    /\ MeasurementsOf(j) # {}
    /\ Moves(j, "poll", "sum")
    /\ UNCHANGED <<ctld, tables, recs, waited, total, rc, log>>

\* get_measurement_count, and the sleep when there is nothing yet.
ThreadPolls(j) ==
    /\ \/ /\ MeasurementsOf(j) # {} \/ waited[j] >= PollLimit
          /\ Moves(j, "poll", "sum")
          /\ UNCHANGED <<waited, rc>>
       \/ /\ MeasurementsOf(j) = {} /\ waited[j] < PollLimit
          /\ Moves(j, "poll", "poll")
          /\ waited' = [waited EXCEPT ![j] = @ + 1]
          /\ UNCHANGED rc
       \/ /\ Fault("db")
          /\ Moves(j, "poll", "callback") /\ Errs(j)
          /\ UNCHANGED waited
    /\ UNCHANGED <<ctld, tables, recs, total, log>>

\* get_total_energy_consumption, a second query.
ThreadSums(j) ==
    /\ \/ /\ Moves(j, "sum", "log")
          /\ total' = [total EXCEPT ![j] = MeasurementsOf(j)]
          /\ UNCHANGED rc
       \/ /\ Fault("db")
          /\ Moves(j, "sum", "callback") /\ Errs(j)
          /\ UNCHANGED total
    /\ UNCHANGED <<ctld, tables, recs, waited, log>>

HandsOver(j, w) ==
    log' = log \union {[job |-> j, run |-> run[j], total |-> total[j], written |-> w]}

\* Defect: a log file that cannot be opened is not an error.
ThreadLogs_Silent(j) ==
    /\ Moves(j, "log", "callback")
    /\ \/ \E w \in BOOLEAN : (w \/ Fault("write")) /\ HandsOver(j, w)
       \/ Fault("log") /\ UNCHANGED log
    /\ UNCHANGED <<ctld, tables, recs, waited, total, rc>>

\* fopen, fprintf and fclose; only the first one's result is looked at.
ThreadLogs(j) ==
    /\ Moves(j, "log", "callback")
    /\ \/ /\ \E w \in BOOLEAN : (w \/ Fault("write")) /\ HandsOver(j, w)
          /\ UNCHANGED rc
       \/ /\ Fault("log")
          /\ Errs(j)
          /\ UNCHANGED log
    /\ UNCHANGED <<ctld, tables, recs, waited, total>>

\* prep_epilog_slurmctld_callback: the job is no longer held up.
ThreadCallsBack(j) ==
    /\ Moves(j, "callback", "done")
    /\ UNCHANGED <<ctld, tables, recs, waited, total, rc, log>>

ThreadStep(j) == ThreadConnects(j) \/ ThreadPolls(j) \/ ThreadSums(j)
                 \/ ThreadLogs(j) \/ ThreadCallsBack(j)

-----------------------------------------------------------------------------
(* efp_main from the moment the epilog of its node resumes it.             *)

RecMoves(j, n, from, to) == tx[j][n] = from /\ tx' = [tx EXCEPT ![j][n] = to]
Execution(j, n) == [job |-> j, run |-> run[j], node |-> n]
Measurement(j, n, d) == [job |-> j, run |-> run[j], node |-> n, dev |-> d]

\* The final readings, the connection and BEGIN.
EfpBegins(j, n) ==
    /\ job[j] = "terminating"
    /\ RecMoves(j, n, "wait", "begin")
    /\ UNCHANGED <<ctld, tables, ins, thread, log>>

\* Both columns of executions that reference another table must find their row.
EfpInsertsExecution(j, n) ==
    /\ IF j \in alloc /\ UserOf[j] \in users
       THEN RecMoves(j, n, "begin", "rows")
       ELSE RecMoves(j, n, "begin", "lost")
    /\ UNCHANGED <<ctld, tables, ins, thread, log>>

\* Defect: without BEGIN every insert is committed by itself.
EfpInsertsMeasurement_Autocommit(j, n) ==
    /\ tx[j][n] = "rows"
    /\ \E d \in DevsOf[n] \ ins[j][n] :
          /\ ins' = [ins EXCEPT ![j][n] = @ \union {d}]
          /\ rows' = rows \union {Measurement(j, n, d)}
    /\ execs' = execs \union {Execution(j, n)}
    /\ UNCHANGED <<ctld, users, alloc, tx, thread, log>>

EfpInsertsMeasurement(j, n) ==
    /\ tx[j][n] = "rows"
    /\ \E d \in DevsOf[n] \ ins[j][n] : ins' = [ins EXCEPT ![j][n] = @ \union {d}]
    /\ UNCHANGED <<ctld, tables, tx, thread, log>>

\* Defect: a measurement that cannot be inserted does not end the transaction.
EfpCommits_Partly(j, n) ==
    /\ RecMoves(j, n, "rows", "done")
    /\ execs' = execs \union {Execution(j, n)}
    /\ rows' = rows \union {Measurement(j, n, d) : d \in ins[j][n]}
    /\ UNCHANGED <<ctld, users, alloc, ins, thread, log>>

\* COMMIT: the execution and its measurements appear at once.  When it fails
\* the EFP says so in its log and goes on as if it had not.
EfpCommits(j, n) ==
    /\ ins[j][n] = DevsOf[n]
    /\ \/ /\ RecMoves(j, n, "rows", "done")
          /\ execs' = execs \union {Execution(j, n)}
          /\ rows' = rows \union {Measurement(j, n, d) : d \in ins[j][n]}
       \/ /\ Fault("db")
          /\ RecMoves(j, n, "rows", "lost")
          /\ UNCHANGED <<execs, rows>>
    /\ UNCHANGED <<ctld, users, alloc, ins, thread, log>>

\* A statement fails, or the EFP does, or the epilog's deadline passes and it
\* is killed: the server rolls back.
EfpLoses(j, n) ==
    /\ Fault("db") \/ Fault("efp")
    /\ job[j] = "terminating"
    /\ tx[j][n] \in {"wait", "begin", "rows"}
    /\ tx' = [tx EXCEPT ![j][n] = "lost"]
    /\ UNCHANGED <<ctld, tables, ins, thread, log>>

EfpStep(j, n) == EfpBegins(j, n) \/ EfpInsertsExecution(j, n)
                 \/ EfpInsertsMeasurement(j, n) \/ EfpCommits(j, n) \/ EfpLoses(j, n)

-----------------------------------------------------------------------------
Finished == /\ \A j \in Jobs : job[j] = "terminating" /\ Stopped(j) /\ run[j] = MaxRuns
            /\ UNCHANGED vars

Next == \/ \E j \in Jobs : \/ CtldInsertsUser(j) \/ CtldInsertsAllocation(j)
                           \/ CtldSpawnsThread(j) \/ ThreadStep(j)
                           \/ \E n \in Nodes : EfpStep(j, n)
        \/ Finished

Spec == Init /\ [][Next]_vars

\* The thread is scheduled and each call of libpq it makes returns; EFPs and
\* the rest of slurmctld may be as slow as they like.
FairSpec == Spec /\ \A j \in Jobs : WF_vars(ThreadStep(j))

-----------------------------------------------------------------------------
TypeOK ==
    /\ job \in [Jobs -> {"pending", "prolog", "running", "failed", "terminating"}]
    /\ run \in [Jobs -> 0..MaxRuns]
    /\ users \subseteq Users /\ alloc \subseteq Jobs
    /\ execs \subseteq Executions /\ rows \subseteq Measurements
    /\ tx \in [Jobs -> [Nodes -> {"none", "wait", "begin", "rows", "done", "lost"}]]
    /\ ins \in [Jobs -> [Nodes -> SUBSET Devices]]
    /\ thr \in [Jobs -> {"none", "connect", "poll", "sum", "log", "callback", "done"}]
    /\ waited \in [Jobs -> 0..PollLimit]
    /\ total \in [Jobs -> {NoTotal} \union SUBSET Measurements]
    /\ rc \in [Jobs -> {"success", "error"}]
    /\ log \subseteq [job : Jobs, run : 1..MaxRuns, total : SUBSET Measurements, written : BOOLEAN]

WholeNodes(T) == \A m \in T, d \in Devices :
                    d \in DevsOf[m.node] => [m EXCEPT !.dev = d] \in T

\* An EFP that fails or is killed half-way leaves nothing: whoever reads the
\* tables finds an execution with all its measurements or neither, and so the
\* logged total has each node's energy entirely or not at all.
NoTornExecution ==
    /\ \A e \in Executions : e \in execs =>
          \A d \in DevsOf[e.node] :
             [job |-> e.job, run |-> e.run, node |-> e.node, dev |-> d] \in rows
    /\ \A m \in rows : [job |-> m.job, run |-> m.run, node |-> m.node] \in execs
    /\ \A l \in log : WholeNodes(l.total)

\* The energy of a job counts once per node, also when the job is requeued:
\* the total adds up whatever executions carry the jobid.
NoDoubleCount == \A e, f \in execs : e.job = f.job /\ e.node = f.node => e = f

\* A line that says 0 kWh is only written after the time-out: measurements
\* that are there when the thread looks are not passed over.
EmptyTotalOnlyAfterTimeout ==
    \A j \in Jobs : thr[j] # "none" /\ total[j] = {} => waited[j] = PollLimit

\* prep_epsa.c:515-538: whatever fails before, slurmctld is answered success just
\* when this run's thread opened the log and handed it its line, and error when
\* there is none.  That the line has reached the file success does not tell: the
\* results of fprintf and fclose are ignored, and a full disk goes unnoticed.
AnswerMatchesLog ==
    \A j \in Jobs : job[j] = "terminating" /\ thr[j] = "done" =>
        (rc[j] = "success" <=> \E l \in log : l.job = j /\ l.run = run[j])

\* A terminating job whose thread was started is always answered: the thread
\* does not wait for nodes that never report.
JobAnswered == \A j \in Jobs : thr[j] = "connect" ~> thr[j] = "done"

\* prep_epsa.c:454-463: the epilog "can race ahead of" the EFPs that insert the
\* measurements; it is asynchronous "so we can wait as long as it takes".  So a
\* total logged before the time-out counts every node of the job.
LoggedTotalComplete ==
    \A j \in Jobs : thr[j] \in {"callback", "done"} /\ total[j] # NoTotal /\ waited[j] < PollLimit
                    => \A n \in Nodes : tx[j][n] \in {"none", "done", "lost"}

-----------------------------------------------------------------------------
(* Inductive invariants, from which the safety properties follow           *)
(* (EpsAccountingProofs).                                                  *)

\* Threads and EFPs only come with a run, a thread's total with its last query.
RunInv == \A j \in Jobs :
    /\ job[j] # "pending" => run[j] # 0
    /\ job[j] = "pending" => thr[j] = "none" /\ \A n \in Nodes : tx[j][n] = "none"
    /\ job[j] # "terminating" => thr[j] \in {"none", "done"}
    /\ thr[j] = "log" => total[j] \subseteq Measurements

\* A node's EFP of a job commits once: it was started by the one run that could
\* insert the allocation.
KeyInv ==
    /\ \A j \in Jobs \ alloc, n \in Nodes : tx[j][n] = "none"
    /\ \A e \in execs : tx[e.job][e.node] = "done"
    /\ NoDoubleCount

WholeInv ==
    /\ NoTornExecution
    /\ \A j \in Jobs : thr[j] = "log" => WholeNodes(total[j])

LineOf(j) == \E l \in log : l.job = j /\ l.run = run[j]

\* The line of a run comes from its thread, which remembers whether it did.
LineInv ==
    /\ \A l \in log : l.run <= run[l.job]
    /\ \A j \in Jobs :
          /\ job[j] \in {"prolog", "running", "failed"} => ~LineOf(j)
          /\ thr[j] \in {"connect", "poll", "sum", "log"} => rc[j] = "success" /\ ~LineOf(j)
          /\ thr[j] = "callback" => (rc[j] = "success" <=> LineOf(j))
    /\ AnswerMatchesLog

EmptyInv ==
    /\ \A j \in Jobs : thr[j] = "sum" => MeasurementsOf(j) # {} \/ waited[j] = PollLimit
    /\ EmptyTotalOnlyAfterTimeout

AcctInv == RunInv /\ KeyInv /\ WholeInv /\ LineInv /\ EmptyInv

-----------------------------------------------------------------------------
(* What readers of the database may rely on: EpsTables, of which the       *)
(* threads, transactions and failures of this module are the inside.       *)

Tables == INSTANCE EpsTables WITH Runs <- 1..MaxRuns

\* Whatever the hooks, EFPs and failures do, the tables only grow, by users,
\* by allocations of users that are there, and by an execution with all its
\* measurements at a time, at most one per job and node.
TablesGrowByWholeExecutions == Tables!TablesSpec
==============================================================================
