--------------------------- MODULE AwarenessReports ---------------------------
(***************************************************************************)
(* How the awareness daemon reads the accounting database (db.py): the     *)
(* figures of a user, for the mails of a tick (get_all_users) and for the  *)
(* user's page (get_user_by_userid), come from many queries.  Each is a    *)
(* transaction of its own, between any two of which hooks and EFPs may     *)
(* commit (EpsTables), and an error in one of the inner ones is logged and *)
(* answered with nothing.                                                  *)
(*                                                                         *)
(* An amount of energy is the set of measurements that are summed up.      *)
(***************************************************************************)
EXTENDS EpsTables

CONSTANTS Faults,       \* "query": an inner query may fail
          NoUser        \* a value that is no user

ASSUME FaultsAssumption == Faults \subseteq {"query"}
ASSUME DevicesAssumption == DevsOf \in [Nodes -> SUBSET Devices]

Users == {UserOf[j] : j \in Jobs}
ASSUME NoUserAssumption == NoUser \notin Users

VARIABLES
    old,        \* allocations whose time stamp is more than seven days back,
                \* though their jobs may run on and their EFPs still commit
    pc,         \* where the reader is
    kind,       \* what it reads for: "mail" or "page"
    todo,       \* users it still has to read
    user,       \* the user it reads
    jobs,       \* jobs left in the loop it is in
    recent,     \* the job just found to be recent, if any
    total, week,        \* energies read for the user
    counted,            \* jobs counted
    listed,             \* jobs listed, each with its energy
    before,     \* history: the tables when it turned to the user
    failed      \* history: a query has failed since

report == <<total, week, counted, listed>>
reader == <<pc, kind, todo, user, jobs, recent, report, before, failed>>
vars   == <<tables, old, reader>>

Empty == [rows |-> {}, old |-> {}]
Init == /\ TablesInit /\ old = {}
        /\ pc = "idle" /\ kind = "mail" /\ todo = {} /\ user = NoUser
        /\ jobs = {} /\ recent = {}
        /\ total = {} /\ week = {} /\ counted = {} /\ listed = {}
        /\ before = Empty /\ failed = FALSE

-----------------------------------------------------------------------------
(* The queries.                                                            *)

\* executions.userid is the job's owner: the EFP takes it from the job.
JobsOf(u) == {e.job : e \in {x \in execs : UserOf[x.job] = u}}
EnergyOf(j) == {m \in rows : m.job = j}
Listed(u) == {[job |-> j, energy |-> EnergyOf(j)] : j \in {i \in alloc : UserOf[i] = u}}

\* Defect: the value that stands for an error is taken for a row.
Answers_None(result) == {[got |-> result, bad |-> FALSE]}
                        \union IF "query" \in Faults THEN {[got |-> {NoUser}, bad |-> TRUE]} ELSE {}

\* What a query answers: what the tables have, or nothing when it fails.
Answers(result) == {[got |-> result, bad |-> FALSE]}
                   \union IF "query" \in Faults THEN {[got |-> {}, bad |-> TRUE]} ELSE {}
Notes(a) == failed' = (failed \/ a.bad)

-----------------------------------------------------------------------------
\* The rows of users; when this query fails there is nobody to read.
ReadsUsers ==
    /\ pc = "idle" /\ pc' = "next" /\ kind' = "mail"
    /\ \E a \in Answers(users) : todo' = a.got
    /\ UNCHANGED <<user, jobs, recent, report, before, failed>>

\* The page of one user; without a row for it there is no page.
ReadsUser(u) ==
    /\ pc = "idle" /\ pc' = "next" /\ kind' = "page"
    /\ \E a \in Answers({u} \intersect users) : todo' = a.got
    /\ UNCHANGED <<user, jobs, recent, report, before, failed>>

\* Defect: the sums of the user before are carried on.
TurnsTo_Accumulates(u) ==
    /\ pc = "next" /\ u \in todo
    /\ pc' = "jobs" /\ user' = u /\ todo' = todo \ {u}
    /\ before' = [rows |-> rows, old |-> old] /\ failed' = FALSE
    /\ UNCHANGED <<kind, jobs, recent, report>>

TurnsTo(u) ==
    /\ pc = "next" /\ u \in todo
    /\ pc' = "jobs" /\ user' = u /\ todo' = todo \ {u}
    /\ before' = [rows |-> rows, old |-> old] /\ failed' = FALSE
    /\ total' = {} /\ week' = {} /\ counted' = {} /\ listed' = {}
    /\ UNCHANGED <<kind, jobs, recent>>

Done ==
    /\ pc = "next" /\ todo = {} /\ pc' = "idle"
    /\ UNCHANGED <<kind, todo, user, jobs, recent, report, before, failed>>

\* get_total_energy_consumption_for_user_in_kwh: the jobs, then one query each.
ReadsJobs ==
    /\ pc = "jobs" /\ pc' = "totals"
    /\ \E a \in Answers(JobsOf(user)) : jobs' = a.got /\ Notes(a)
    /\ UNCHANGED <<kind, todo, user, recent, report, before>>

\* Defect: the sum is assigned where it should be added.
SumsTotal_Assigns(j) ==
    /\ pc = "totals" /\ j \in jobs
    /\ jobs' = jobs \ {j}
    /\ \E a \in Answers(EnergyOf(j)) : total' = a.got /\ Notes(a)
    /\ UNCHANGED <<pc, kind, todo, user, recent, week, counted, listed, before>>

SumsTotal(j) ==
    /\ pc = "totals" /\ j \in jobs
    /\ jobs' = jobs \ {j}
    /\ \E a \in Answers(EnergyOf(j)) : total' = total \union a.got /\ Notes(a)
    /\ UNCHANGED <<pc, kind, todo, user, recent, week, counted, listed, before>>

\* get_last_week_energy_consumption_for_user_in_kwh, which only the mails need.
ReadsJobsAgain ==
    /\ pc = "totals" /\ jobs = {} /\ kind = "mail" /\ pc' = "weeks"
    /\ \E a \in Answers(JobsOf(user)) : jobs' = a.got /\ Notes(a)
    /\ UNCHANGED <<kind, todo, user, recent, report, before>>

\* Defect: the age of the job is not looked at.
ReadsAge_Ignored(j) ==
    /\ pc = "weeks" /\ recent = {} /\ j \in jobs
    /\ jobs' = jobs \ {j}
    /\ \E a \in Answers({j} \intersect alloc) : recent' = a.got /\ Notes(a)
    /\ UNCHANGED <<pc, kind, todo, user, report, before>>

\* The allocation's time stamp: without it, or when it is too old, the job is
\* passed over.
ReadsAge(j) ==
    /\ pc = "weeks" /\ recent = {} /\ j \in jobs
    /\ jobs' = jobs \ {j}
    /\ \E a \in Answers({j} \intersect alloc) : recent' = a.got \ old /\ Notes(a)
    /\ UNCHANGED <<pc, kind, todo, user, report, before>>

SumsWeek(j) ==
    /\ j \in recent /\ recent' = {}
    /\ \E a \in Answers(EnergyOf(j)) : week' = week \union a.got /\ Notes(a)
    /\ UNCHANGED <<pc, kind, todo, user, jobs, total, counted, listed, before>>

\* get_all_jobs_of_user for the number of jobs.
CountsJobs ==
    /\ pc = (IF kind = "mail" THEN "weeks" ELSE "totals") /\ jobs = {} /\ recent = {}
    /\ pc' = "list"
    /\ \E a \in Answers(JobsOf(user)) : counted' = a.got /\ Notes(a)
    /\ UNCHANGED <<kind, todo, user, jobs, recent, total, week, listed, before>>

\* Defect: only the recent jobs are listed.
ListsJobs_Recent ==
    /\ pc = "list" /\ pc' = "told"
    /\ \E a \in Answers({l \in Listed(user) : l.job \notin old}) : listed' = a.got /\ Notes(a)
    /\ UNCHANGED <<kind, todo, user, jobs, recent, total, week, counted, before>>

\* get_jobs_with_energy_for_user: one query.
ListsJobs ==
    /\ pc = "list" /\ pc' = "told"
    /\ \E a \in Answers(Listed(user)) : listed' = a.got /\ Notes(a)
    /\ UNCHANGED <<kind, todo, user, jobs, recent, total, week, counted, before>>

\* The user joins the list of those that were read.
Tells ==
    /\ pc = "told" /\ pc' = "next"
    /\ UNCHANGED <<kind, todo, user, jobs, recent, report, before, failed>>

Loops(j) == SumsTotal(j) \/ ReadsAge(j) \/ SumsWeek(j)
Reads == \/ ReadsUsers \/ Done \/ ReadsJobs \/ ReadsJobsAgain
         \/ CountsJobs \/ ListsJobs \/ Tells
         \/ \E u \in Users : ReadsUser(u) \/ TurnsTo(u)
         \/ \E j \in Jobs : Loops(j)
ReaderStep == Reads /\ UNCHANGED <<tables, old>>

\* Seven days pass since an allocation was made.
JobAges(j) == /\ j \in alloc /\ old' = old \union {j}
              /\ UNCHANGED <<tables, reader>>
TablesStep == TablesNext /\ UNCHANGED <<old, reader>>

Next == TablesStep \/ ReaderStep \/ \E j \in Jobs : JobAges(j)
Spec == Init /\ [][Next]_vars

-----------------------------------------------------------------------------
Measured == [job : Jobs, run : Runs, node : Nodes, dev : Devices]
TypeOK ==
    /\ users \subseteq Users /\ alloc \subseteq Jobs /\ old \subseteq Jobs
    /\ execs \subseteq [job : Jobs, run : Runs, node : Nodes] /\ rows \subseteq Measured
    /\ pc \in {"idle", "next", "jobs", "totals", "weeks", "list", "told"}
    /\ kind \in {"mail", "page"} /\ todo \subseteq Users /\ user \in Users \union {NoUser}
    /\ jobs \subseteq Jobs /\ recent \subseteq Jobs
    /\ total \subseteq Measured /\ week \subseteq Measured /\ counted \subseteq Jobs
    /\ listed \subseteq [job : Jobs, energy : SUBSET Measured]
    /\ before \in [rows : SUBSET Measured, old : SUBSET Jobs] /\ failed \in BOOLEAN

Told == pc = "told" /\ ~failed
RowsOf(u) == {m \in rows : UserOf[m.job] = u}
WholeIn(S) == \A m \in S : Reported(m.job, m.run, m.node) \subseteq S

\* Whatever fails or is committed while the queries run, a user is told of its
\* own measurements only, of all devices of a node or of none.
OnlyOwnWholeNodes == pc # "idle" => \A S \in {total, week} : S \subseteq RowsOf(user) /\ WholeIn(S)

\* When no query fails the total has everything that was committed before the
\* user's turn came, although no two of its parts are read at one time.
TotalUpToDate == Told => {m \in before.rows : UserOf[m.job] = user} \subseteq total

\* Last week's energy has all that was committed then for jobs that were allocated
\* in the last seven days even now, and nothing of a job allocated before when the
\* turn came.  So it is not the energy of the last seven days: what a job that began
\* eight days ago measured since, and committed today, is left out (db.py:437-439).
WeekIsRecent ==
    Told /\ kind = "mail" =>
        /\ {m \in before.rows : UserOf[m.job] = user /\ m.job \notin old} \subseteq week
        /\ \A m \in week : m.job \notin before.old

\* The jobs of a user's page add up to the total above them at least, and there
\* are as many as were counted at least, although they are read last.
PageAddsUp ==
    Told => /\ total \union week \subseteq UNION {l.energy : l \in listed}
            /\ {m.job : m \in total} \subseteq counted
            /\ counted \subseteq {l.job : l \in listed}

-----------------------------------------------------------------------------
(* The inductive invariants of AwarenessReportsProofs.                     *)

\* The tables: executions are whole and of jobs that were allocated.
TablesInv ==
    /\ WholeIn(rows)
    /\ \A e \in execs : e.job \in alloc
    /\ \A m \in rows : \E e \in execs : e.job = m.job

Owned(S) == {m \in S : UserOf[m.job] = user}

\* What has been read is the user's own and whole, and so is what is about to be.
OwnInv ==
    /\ before.rows \subseteq rows /\ before.old \subseteq old
    /\ pc \in {"totals", "weeks"} => \A j \in jobs : UserOf[j] = user
    /\ \A j \in recent : UserOf[j] = user /\ j \notin before.old
    /\ recent # {} => pc = "weeks" /\ \E j \in Jobs : recent = {j}
    /\ \A S \in {total, week} : S \subseteq Owned(rows) /\ WholeIn(S)
    /\ \A m \in week : m.job \notin before.old

\* What was there when the turn came is read or belongs to a job still to be read.
UpToDateInv == ~failed =>
    /\ pc = "totals" => \A m \in Owned(before.rows) : m \in total \/ m.job \in jobs
    /\ pc \in {"weeks", "list", "told"} => Owned(before.rows) \subseteq total
    /\ pc = "weeks" => \A m \in Owned(before.rows) :
                          m.job \in old \/ m \in week \/ m.job \in jobs \union recent
    /\ pc \in {"list", "told"} /\ kind = "mail" =>
          \A m \in Owned(before.rows) : m.job \in old \/ m \in week

\* What is read later has what was read before.
AddUpInv == ~failed =>
    /\ pc \in {"list", "told"} => /\ \A m \in total : m.job \in counted
                                  /\ \A j \in counted : j \in alloc /\ UserOf[j] = user
    /\ pc = "told" => /\ \A m \in total \union week : \E l \in listed : m \in l.energy
                      /\ \A j \in counted : \E l \in listed : l.job = j

ReportInv == TablesInv /\ OwnInv /\ UpToDateInv /\ AddUpInv
==============================================================================
