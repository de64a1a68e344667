------------------------ MODULE AwarenessReportsProofs ------------------------
(***************************************************************************)
(* Theorems about AwarenessReports, for all values of its constants: what  *)
(* the many queries of a report amount to while hooks and EFPs commit.     *)
(***************************************************************************)
EXTENDS AwarenessReports, TLAPS

LEMMA AnswersAre ==
    ASSUME NEW R, NEW a \in Answers(R)
    PROVE  \/ a.got = R /\ a.bad = FALSE
           \/ a.got = {} /\ a.bad = TRUE
  BY DEF Answers

LEMMA Owners == \A j \in Jobs : UserOf[j] \in Users
  BY DEF Users

LEMMA ReportedTyped ==
    ASSUME NEW j \in Jobs, NEW r \in Runs, NEW n \in Nodes
    PROVE  /\ Reported(j, r, n) \subseteq Measured
           /\ \A m \in Reported(j, r, n) :
                 m.job = j /\ Reported(m.job, m.run, m.node) = Reported(j, r, n)
<1>1. DevsOf[n] \subseteq Devices BY DevicesAssumption
<1> QED BY <1>1 DEF Reported, Measured

-----------------------------------------------------------------------------
(* TypeOK.                                                                 *)

LEMMA InitTyped == Init => TypeOK
<1> SUFFICES ASSUME Init PROVE TypeOK OBVIOUS
<1>1. before \in [rows : SUBSET Measured, old : SUBSET Jobs] BY DEF Init, Empty
<1> QED BY <1>1 DEF Init, TablesInit, TypeOK

LEMMA QueriesTyped ==
    ASSUME TypeOK
    PROVE  /\ \A u : JobsOf(u) \subseteq Jobs
           /\ \A j : EnergyOf(j) \subseteq Measured
           /\ \A u : Listed(u) \subseteq [job : Jobs, energy : SUBSET Measured]
<1>1. \A u : JobsOf(u) \subseteq Jobs BY DEF JobsOf, TypeOK
<1>2. \A j : EnergyOf(j) \subseteq Measured BY DEF EnergyOf, TypeOK
<1>3. \A u : Listed(u) \subseteq [job : Jobs, energy : SUBSET Measured]
  BY <1>2 DEF Listed, TypeOK
<1> QED BY <1>1, <1>2, <1>3

LEMMA TablesTyped == TypeOK /\ TablesStep => TypeOK'
<1> SUFFICES ASSUME TypeOK, TablesStep PROVE TypeOK' OBVIOUS
<1>1. UNCHANGED <<old, pc, kind, todo, user, jobs, recent, total, week, counted, listed, before, failed>>
  BY DEF TablesStep, reader, report
<1>2. PICK j \in Jobs : AddUser(j) \/ AddAllocation(j)
                        \/ \E r \in Runs, n \in Nodes : AddExecution(j, r, n)
  BY DEF TablesStep, TablesNext
<1>3. /\ users' \subseteq Users /\ alloc' \subseteq Jobs
      /\ execs' \subseteq [job : Jobs, run : Runs, node : Nodes] /\ rows' \subseteq Measured
  <2>1. CASE AddUser(j) BY <2>1, Owners DEF AddUser, TypeOK
  <2>2. CASE AddAllocation(j) BY <2>2 DEF AddAllocation, TypeOK
  <2>3. ASSUME NEW r \in Runs, NEW n \in Nodes, AddExecution(j, r, n)
        PROVE  /\ users' \subseteq Users /\ alloc' \subseteq Jobs
               /\ execs' \subseteq [job : Jobs, run : Runs, node : Nodes] /\ rows' \subseteq Measured
    BY <2>3, ReportedTyped DEF AddExecution, Execution, TypeOK
  <2> QED BY <1>2, <2>1, <2>2, <2>3
<1> QED BY <1>1, <1>3 DEF TypeOK

LEMMA ReaderTyped == TypeOK /\ ReaderStep => TypeOK'
<1> SUFFICES ASSUME TypeOK, ReaderStep PROVE TypeOK' OBVIOUS
<1>0. UNCHANGED <<users, alloc, execs, rows, old>> BY DEF ReaderStep, tables
<1> USE <1>0 DEF TypeOK, report, Notes
<1>1. CASE ReadsUsers
  <2>1. PICK a \in Answers(users) : todo' = a.got BY <1>1 DEF ReadsUsers
  <2>2. todo' \subseteq Users BY <2>1, AnswersAre
  <2> QED BY <1>1, <2>2 DEF ReadsUsers
<1>2. CASE Done BY <1>2 DEF Done
<1>3. CASE ReadsJobs BY <1>3, AnswersAre, QueriesTyped DEF ReadsJobs
<1>4. CASE ReadsJobsAgain BY <1>4, AnswersAre, QueriesTyped DEF ReadsJobsAgain
<1>5. CASE CountsJobs BY <1>5, AnswersAre, QueriesTyped DEF CountsJobs
<1>6. CASE ListsJobs
  <2>1. PICK a \in Answers(Listed(user)) : listed' = a.got /\ Notes(a) BY <1>6 DEF ListsJobs
  <2>2. listed' \subseteq [job : Jobs, energy : SUBSET Measured]
    <3> DEFINE T == [job : Jobs, energy : SUBSET Measured]
    <3>1. Listed(user) \subseteq T BY QueriesTyped
    <3>2. listed' \in {{}, Listed(user)} BY <2>1, AnswersAre
    <3> HIDE DEF T
    <3>3. listed' \subseteq T BY <3>1, <3>2
    <3> QED BY <3>3 DEF T
  <2>3. failed' \in BOOLEAN BY <2>1
  <2>4. /\ UNCHANGED <<kind, todo, user, jobs, recent, total, week, counted, before>>
        /\ pc' = "told"
    BY <1>6 DEF ListsJobs
  <2> QED BY <2>2, <2>3, <2>4
<1>7. CASE Tells BY <1>7 DEF Tells
<1>8. ASSUME NEW u \in Users, ReadsUser(u) PROVE TypeOK'
  BY <1>8, AnswersAre DEF ReadsUser
<1>9. ASSUME NEW u \in Users, TurnsTo(u) PROVE TypeOK'
  BY <1>9 DEF TurnsTo
<1>10. ASSUME NEW j \in Jobs, SumsTotal(j) PROVE TypeOK'
  BY <1>10, AnswersAre, QueriesTyped DEF SumsTotal
<1>11. ASSUME NEW j \in Jobs, ReadsAge(j) PROVE TypeOK'
  BY <1>11, AnswersAre DEF ReadsAge
<1>12. ASSUME NEW j \in Jobs, SumsWeek(j) PROVE TypeOK'
  BY <1>12, AnswersAre, QueriesTyped DEF SumsWeek
<1> QED BY <1>1, <1>2, <1>3, <1>4, <1>5, <1>6, <1>7, <1>8, <1>9, <1>10, <1>11, <1>12
        DEF ReaderStep, Reads, Loops

LEMMA NextTyped == TypeOK /\ [Next]_vars => TypeOK'
<1> SUFFICES ASSUME TypeOK, [Next]_vars PROVE TypeOK' OBVIOUS
<1>1. ASSUME NEW j \in Jobs, JobAges(j) PROVE TypeOK'
  BY <1>1 DEF JobAges, TypeOK, tables, reader, report
<1>2. CASE UNCHANGED vars
  BY <1>2 DEF vars, TypeOK, tables, reader, report
<1> QED BY <1>1, <1>2, TablesTyped, ReaderTyped DEF Next

\* The reader's state is of its types, for any tables and faults.
THEOREM TypeCorrect == Spec => []TypeOK
  BY InitTyped, NextTyped, PTL DEF Spec

-----------------------------------------------------------------------------
(* TablesInv.                                                              *)

\* A step of the tables adds to them only.
LEMMA TablesGrow ==
    ASSUME TablesStep
    PROVE  /\ alloc \subseteq alloc' /\ execs \subseteq execs' /\ rows \subseteq rows'
           /\ UNCHANGED <<old, reader>>
<1>1. UNCHANGED <<old, reader>> BY DEF TablesStep
<1>2. alloc \subseteq alloc' /\ execs \subseteq execs' /\ rows \subseteq rows'
  BY DEF TablesStep, TablesNext, AddUser, AddAllocation, AddExecution
<1> QED BY <1>1, <1>2

LEMMA NextTables == TypeOK /\ TablesInv /\ [Next]_vars => TablesInv'
<1> SUFFICES ASSUME TypeOK, TablesInv, [Next]_vars PROVE TablesInv' OBVIOUS
<1>1. CASE TablesStep
  <2>1. PICK j \in Jobs : AddUser(j) \/ AddAllocation(j)
                          \/ \E r \in Runs, n \in Nodes : AddExecution(j, r, n)
    BY <1>1 DEF TablesStep, TablesNext
  <2>2. CASE AddUser(j) BY <2>2 DEF AddUser, TablesInv, WholeIn
  <2>3. CASE AddAllocation(j) BY <2>3 DEF AddAllocation, TablesInv, WholeIn
  <2>4. ASSUME NEW r \in Runs, NEW n \in Nodes, AddExecution(j, r, n) PROVE TablesInv'
    <3>1. /\ j \in alloc /\ alloc' = alloc
          /\ execs' = execs \union {Execution(j, r, n)} /\ Execution(j, r, n).job = j
          /\ rows' = rows \union Reported(j, r, n)
      BY <2>4 DEF AddExecution, Execution
    <3>2. WholeIn(rows)' BY <3>1, ReportedTyped DEF TablesInv, WholeIn
    <3>3. \A e \in execs' : e.job \in alloc' BY <3>1 DEF TablesInv
    <3>4. \A m \in rows' : \E e \in execs' : e.job = m.job
      BY <3>1, ReportedTyped DEF TablesInv
    <3> QED BY <3>2, <3>3, <3>4 DEF TablesInv
  <2> QED BY <2>1, <2>2, <2>3, <2>4
<1>2. CASE UNCHANGED tables
  BY <1>2 DEF tables, TablesInv, WholeIn
<1> QED BY <1>1, <1>2 DEF Next, ReaderStep, JobAges, vars

-----------------------------------------------------------------------------
(* OwnInv.                                                                 *)

\* What the queries find belongs to the user, and is whole.
LEMMA QueriesFind ==
    ASSUME TypeOK, TablesInv
    PROVE  /\ \A j \in JobsOf(user) : UserOf[j] = user /\ j \in alloc
           /\ \A m \in Owned(rows) : m.job \in JobsOf(user)
           /\ \A j : UserOf[j] = user =>
                 EnergyOf(j) \subseteq Owned(rows) /\ WholeIn(EnergyOf(j))
<1>1. \A j \in JobsOf(user) : UserOf[j] = user /\ j \in alloc
  BY DEF JobsOf, TablesInv
<1>2. \A m \in Owned(rows) : m.job \in JobsOf(user)
  BY DEF Owned, JobsOf, TablesInv
<1>3. ASSUME NEW j, UserOf[j] = user
      PROVE  EnergyOf(j) \subseteq Owned(rows) /\ WholeIn(EnergyOf(j))
  <2>1. EnergyOf(j) \subseteq Owned(rows) BY <1>3 DEF EnergyOf, Owned
  <2>2. ASSUME NEW m \in EnergyOf(j) PROVE Reported(m.job, m.run, m.node) \subseteq EnergyOf(j)
    <3>1. m \in rows /\ m.job = j BY DEF EnergyOf
    <3>2. Reported(m.job, m.run, m.node) \subseteq rows BY <3>1 DEF TablesInv, WholeIn
    <3> QED BY <3>1, <3>2 DEF EnergyOf, Reported
  <2> QED BY <2>1, <2>2 DEF WholeIn
<1> QED BY <1>1, <1>2, <1>3

LEMMA NextOwn == TypeOK /\ TablesInv /\ OwnInv /\ [Next]_vars => OwnInv'
<1> SUFFICES ASSUME TypeOK, TablesInv, OwnInv, [Next]_vars PROVE OwnInv' OBVIOUS
<1>1. CASE TablesStep
  <2>1. Owned(rows) \subseteq Owned(rows)'
    BY <1>1, TablesGrow DEF Owned, reader
  <2> QED BY <1>1, <2>1, TablesGrow DEF OwnInv, reader, report
<1>2. ASSUME NEW j \in Jobs, JobAges(j) PROVE OwnInv'
  BY <1>2 DEF JobAges, OwnInv, Owned, tables, reader, report
<1>3. CASE UNCHANGED vars
  BY <1>3 DEF vars, OwnInv, Owned, tables, reader, report
<1>4. CASE ReaderStep
  <2>0. UNCHANGED <<users, alloc, execs, rows, old>> BY <1>4 DEF ReaderStep, tables
  <2> USE <2>0 DEF OwnInv, Owned, report
  <2>1. CASE ReadsUsers \/ Done \/ Tells \/ ListsJobs
    BY <2>1 DEF ReadsUsers, Done, Tells, ListsJobs
  <2>2. CASE ReadsJobs
    <3>1. jobs' \subseteq JobsOf(user) BY <2>2, AnswersAre DEF ReadsJobs
    <3> QED BY <2>2, <3>1, QueriesFind DEF ReadsJobs
  <2>3. CASE ReadsJobsAgain
    <3>1. jobs' \subseteq JobsOf(user) BY <2>3, AnswersAre DEF ReadsJobsAgain
    <3> QED BY <2>3, <3>1, QueriesFind DEF ReadsJobsAgain
  <2>4. CASE CountsJobs BY <2>4 DEF CountsJobs
  <2>5. ASSUME NEW u \in Users, ReadsUser(u) PROVE OwnInv' BY <2>5 DEF ReadsUser
  <2>6. ASSUME NEW u \in Users, TurnsTo(u) PROVE OwnInv'
    BY <2>6 DEF TurnsTo, WholeIn
  <2>7. ASSUME NEW j \in Jobs, SumsTotal(j) PROVE OwnInv'
    <3>1. PICK S : total' = total \union S /\ S \in {{}, EnergyOf(j)}
      BY <2>7, AnswersAre DEF SumsTotal
    <3>2. UserOf[j] = user BY <2>7 DEF SumsTotal
    <3>3. S \subseteq Owned(rows) /\ WholeIn(S)
      BY <3>1, <3>2, QueriesFind DEF WholeIn
    <3>4. WholeIn(total') BY <3>1, <3>3 DEF WholeIn
    <3> QED BY <2>7, <3>1, <3>3, <3>4 DEF SumsTotal
  <2>8. ASSUME NEW j \in Jobs, ReadsAge(j) PROVE OwnInv'
    <3>1. recent' \subseteq {j} \ old BY <2>8, AnswersAre DEF ReadsAge
    <3> QED BY <2>8, <3>1 DEF ReadsAge
  <2>9. ASSUME NEW j \in Jobs, SumsWeek(j) PROVE OwnInv'
    <3>1. PICK S : week' = week \union S /\ S \in {{}, EnergyOf(j)}
      BY <2>9, AnswersAre DEF SumsWeek
    <3>2. UserOf[j] = user /\ j \notin before.old BY <2>9 DEF SumsWeek
    <3>3. S \subseteq Owned(rows) /\ WholeIn(S)
      BY <3>1, <3>2, QueriesFind DEF WholeIn
    <3>4. WholeIn(week') BY <3>1, <3>3 DEF WholeIn
    <3>5. \A m \in S : m.job = j BY <3>1 DEF EnergyOf
    <3> QED BY <2>9, <3>1, <3>2, <3>3, <3>4, <3>5 DEF SumsWeek
  <2> QED BY <1>4, <2>1, <2>2, <2>3, <2>4, <2>5, <2>6, <2>7, <2>8, <2>9
          DEF ReaderStep, Reads, Loops
<1> QED BY <1>1, <1>2, <1>3, <1>4 DEF Next

-----------------------------------------------------------------------------
(* UpToDateInv.                                                            *)

\* The rows that were there when the turn came are of jobs the queries find.
LEMMA BeforeFound ==
    ASSUME TypeOK, TablesInv, OwnInv
    PROVE  \A m \in Owned(before.rows) :
              /\ m.job \in JobsOf(user) /\ m.job \in alloc /\ m \in EnergyOf(m.job)
<1>1. Owned(before.rows) \subseteq Owned(rows) BY DEF OwnInv, Owned
<1>2. \A m \in Owned(rows) : m \in EnergyOf(m.job) BY DEF Owned, EnergyOf
<1> QED BY <1>1, <1>2, QueriesFind

LEMMA NextUpToDate ==
    TypeOK /\ TablesInv /\ OwnInv /\ UpToDateInv /\ [Next]_vars => UpToDateInv'
<1> SUFFICES ASSUME TypeOK, TablesInv, OwnInv, UpToDateInv, [Next]_vars, ~failed'
             PROVE  UpToDateInv'
  BY DEF UpToDateInv
<1>1. CASE TablesStep
  BY <1>1, TablesGrow DEF reader, report, UpToDateInv, Owned
<1>2. ASSUME NEW j \in Jobs, JobAges(j) PROVE UpToDateInv'
  BY <1>2 DEF JobAges, reader, report, UpToDateInv, Owned
<1>3. CASE UNCHANGED vars
  BY <1>3 DEF vars, reader, report, UpToDateInv, Owned
<1>4. CASE ReaderStep
  <2>0. UNCHANGED <<users, alloc, execs, rows, old>> BY <1>4 DEF ReaderStep, tables
  <2> USE <2>0 DEF report, Notes
  <2>1. CASE ReadsUsers \/ Done \/ Tells \/ \E u \in Users : ReadsUser(u) \/ TurnsTo(u)
    <3>1. pc' \notin {"totals", "weeks", "list", "told"}
      BY <2>1 DEF ReadsUsers, Done, Tells, ReadsUser, TurnsTo
    <3> QED BY <3>1 DEF UpToDateInv
  <2>2. CASE ReadsJobs
    <3>1. jobs' = JobsOf(user) /\ pc' = "totals" /\ UNCHANGED <<user, before>>
      BY <2>2, AnswersAre DEF ReadsJobs
    <3>2. \A m \in Owned(before.rows)' : m.job \in jobs'
      BY <3>1, BeforeFound DEF Owned
    <3> QED BY <3>1, <3>2 DEF UpToDateInv
  <2>3. CASE ReadsJobsAgain
    <3>1. /\ jobs' = JobsOf(user) /\ pc' = "weeks" /\ UNCHANGED <<user, before, total>> /\ ~failed
      BY <2>3, AnswersAre DEF ReadsJobsAgain
    <3>2. Owned(before.rows) \subseteq total
      BY <2>3, <3>1 DEF ReadsJobsAgain, UpToDateInv
    <3>3. \A m \in Owned(before.rows)' : m.job \in jobs' /\ m \in total'
      BY <3>1, <3>2, BeforeFound DEF Owned
    <3> QED BY <3>1, <3>3 DEF UpToDateInv
  <2>4. CASE CountsJobs
    <3>1. /\ pc' = "list" /\ UNCHANGED <<user, before, total, week, kind>> /\ ~failed
          /\ jobs = {} /\ recent = {}
          /\ pc = IF kind = "mail" THEN "weeks" ELSE "totals"
      BY <2>4, AnswersAre DEF CountsJobs
    <3>2. Owned(before.rows)' = Owned(before.rows) BY <3>1 DEF Owned
    <3> QED BY <3>1, <3>2 DEF UpToDateInv
  <2>5. CASE ListsJobs
    <3>1. pc = "list" /\ pc' = "told" /\ UNCHANGED <<user, before, total, week, kind>> /\ ~failed
      BY <2>5, AnswersAre DEF ListsJobs
    <3> QED BY <3>1 DEF UpToDateInv, Owned
  <2>6. ASSUME NEW j \in Jobs, SumsTotal(j) PROVE UpToDateInv'
    <3>1. /\ pc = "totals" /\ pc' = "totals" /\ total' = total \union EnergyOf(j)
          /\ jobs' = jobs \ {j} /\ UNCHANGED <<user, before>> /\ ~failed
      BY <2>6, AnswersAre DEF SumsTotal
    <3>2. \A m \in Owned(before.rows) : m \in total \/ m.job \in jobs
      BY <3>1 DEF UpToDateInv
    <3>3. \A m \in Owned(before.rows)' : m \in total' \/ m.job \in jobs'
      BY <3>1, <3>2, BeforeFound DEF Owned
    <3> QED BY <3>1, <3>3 DEF UpToDateInv
  <2>7. ASSUME NEW j \in Jobs, ReadsAge(j) PROVE UpToDateInv'
    <3>1. /\ pc = "weeks" /\ pc' = "weeks" /\ recent = {} /\ recent' = ({j} \intersect alloc) \ old
          /\ jobs' = jobs \ {j} /\ UNCHANGED <<user, before, total, week>> /\ ~failed
      BY <2>7, AnswersAre DEF ReadsAge
    <3>2. \A m \in Owned(before.rows) : m.job \in old \/ m \in week \/ m.job \in jobs
      BY <3>1 DEF UpToDateInv
    <3>3. \A m \in Owned(before.rows)' :
             m.job \in old \/ m \in week \/ m.job \in jobs' \/ m.job \in recent'
      BY <3>1, <3>2, BeforeFound DEF Owned
    <3>4. Owned(before.rows)' \subseteq total' BY <3>1 DEF UpToDateInv, Owned
    <3> QED BY <3>1, <3>3, <3>4 DEF UpToDateInv
  <2>8. ASSUME NEW j \in Jobs, SumsWeek(j) PROVE UpToDateInv'
    <3>1. /\ pc = "weeks" /\ pc' = "weeks" /\ recent' = {}
          /\ week' = week \union EnergyOf(j) /\ UNCHANGED <<user, before, total, jobs>> /\ ~failed
      BY <2>8, AnswersAre DEF SumsWeek, OwnInv
    <3>a. recent = {j} BY <2>8 DEF SumsWeek, OwnInv
    <3>2. \A m \in Owned(before.rows) : m.job \in old \/ m \in week \/ m.job \in jobs \/ m.job = j
      BY <3>1, <3>a DEF UpToDateInv
    <3>3. \A m \in Owned(before.rows)' : m.job \in old \/ m \in week' \/ m.job \in jobs'
      BY <3>1, <3>2, BeforeFound DEF Owned
    <3>4. Owned(before.rows)' \subseteq total' BY <3>1 DEF UpToDateInv, Owned
    <3> QED BY <3>1, <3>3, <3>4 DEF UpToDateInv
  <2> QED BY <1>4, <2>1, <2>2, <2>3, <2>4, <2>5, <2>6, <2>7, <2>8 DEF ReaderStep, Reads, Loops
<1> QED BY <1>1, <1>2, <1>3, <1>4 DEF Next
-----------------------------------------------------------------------------
(* AddUpInv.                                                               *)

LEMMA NextAddUp ==
    TypeOK /\ TablesInv /\ OwnInv /\ AddUpInv /\ [Next]_vars => AddUpInv'
<1> SUFFICES ASSUME TypeOK, TablesInv, OwnInv, AddUpInv, [Next]_vars, ~failed'
             PROVE  AddUpInv'
  BY DEF AddUpInv
<1>1. CASE TablesStep
  BY <1>1, TablesGrow DEF reader, report, AddUpInv
<1>2. ASSUME NEW j \in Jobs, JobAges(j) PROVE AddUpInv'
  BY <1>2 DEF JobAges, tables, reader, report, AddUpInv
<1>3. CASE UNCHANGED vars
  BY <1>3 DEF vars, tables, reader, report, AddUpInv
<1>4. CASE ReaderStep
  <2>0. UNCHANGED <<users, alloc, execs, rows, old>> BY <1>4 DEF ReaderStep, tables
  <2> USE <2>0 DEF report, Notes
  <2>1. CASE CountsJobs
    <3>1. /\ pc' = "list" /\ counted' = JobsOf(user) /\ UNCHANGED <<user, total>>
      BY <2>1, AnswersAre DEF CountsJobs
    <3>2. \A m \in total : m.job \in JobsOf(user)
      BY QueriesFind DEF OwnInv
    <3>3. \A j \in JobsOf(user) : j \in alloc /\ UserOf[j] = user
      BY QueriesFind
    <3>4. /\ \A m \in total' : m.job \in counted'
          /\ \A j \in counted' : j \in alloc' /\ UserOf[j] = user'
      BY <3>1, <3>2, <3>3
    <3> QED BY <3>1, <3>4 DEF AddUpInv
  <2>2. CASE ListsJobs
    <3>1. /\ pc = "list" /\ pc' = "told" /\ listed' = Listed(user) /\ ~failed
          /\ UNCHANGED <<user, total, week, counted>>
      BY <2>2, AnswersAre DEF ListsJobs
    <3>2. /\ \A m \in total : m.job \in counted
          /\ \A j \in counted : j \in alloc /\ UserOf[j] = user
      BY <3>1 DEF AddUpInv
    <3>3. \A j : j \in alloc /\ UserOf[j] = user =>
             [job |-> j, energy |-> EnergyOf(j)] \in Listed(user)
      BY DEF Listed
    <3>4. ASSUME NEW j \in counted PROVE \E l \in listed' : l.job = j
      <4>1. [job |-> j, energy |-> EnergyOf(j)] \in listed' BY <3>1, <3>2, <3>3
      <4> QED BY <4>1
    <3>5. ASSUME NEW m \in total \union week PROVE \E l \in listed' : m \in l.energy
      <4>1. m \in Owned(rows) BY DEF OwnInv
      <4>2. UserOf[m.job] = user /\ m.job \in alloc BY <4>1, QueriesFind
      <4>3. [job |-> m.job, energy |-> EnergyOf(m.job)] \in listed' BY <4>2, <3>1, <3>3
      <4>4. m \in EnergyOf(m.job) BY <4>1 DEF Owned, EnergyOf
      <4> QED BY <4>3, <4>4
    <3>6. /\ \A m \in total' : m.job \in counted'
          /\ \A j \in counted' : j \in alloc' /\ UserOf[j] = user'
          /\ \A m \in total' \union week' : \E l \in listed' : m \in l.energy
          /\ \A j \in counted' : \E l \in listed' : l.job = j
      BY <3>1, <3>2, <3>4, <3>5
    <3> QED BY <3>6 DEF AddUpInv
  <2>3. CASE ~(CountsJobs \/ ListsJobs)
    <3>1. pc' \notin {"list", "told"}
      BY <2>3, <1>4
      DEF ReaderStep, Reads, Loops, ReadsUsers, Done, ReadsJobs, ReadsJobsAgain, Tells,
          ReadsUser, TurnsTo, SumsTotal, ReadsAge, SumsWeek, OwnInv
    <3> QED BY <3>1 DEF AddUpInv
  <2> QED BY <2>1, <2>2, <2>3
<1> QED BY <1>1, <1>2, <1>3, <1>4 DEF Next

-----------------------------------------------------------------------------
(* The theorems.                                                           *)

LEMMA InitReport == Init => ReportInv
<1> SUFFICES ASSUME Init PROVE ReportInv OBVIOUS
<1>1. TablesInv BY DEF Init, TablesInit, TablesInv, WholeIn
<1>2. OwnInv BY DEF Init, TablesInit, Empty, OwnInv, Owned, WholeIn
<1>3. UpToDateInv /\ AddUpInv BY DEF Init, UpToDateInv, AddUpInv
<1> QED BY <1>1, <1>2, <1>3 DEF ReportInv

\* The inductive invariant: the tables are whole, what was read is the user's
\* own, and what was there when its turn came is read or still to be read.
THEOREM ReportInvariant == Spec => []ReportInv
<1>1. TypeOK /\ ReportInv /\ [Next]_vars => ReportInv'
  BY NextTables, NextOwn, NextUpToDate, NextAddUp DEF ReportInv
<1> QED BY <1>1, InitReport, TypeCorrect, PTL DEF Spec

\* A user is told of its own measurements only, of whole nodes, whatever fails
\* and whatever is committed between two queries (db.py, get_all_users).
THEOREM OnlyOwnTold == Spec => []OnlyOwnWholeNodes
<1>1. ReportInv => OnlyOwnWholeNodes
  BY DEF ReportInv, OwnInv, Owned, OnlyOwnWholeNodes, RowsOf
<1> QED BY <1>1, ReportInvariant, PTL

\* When no query fails the total is never older than the user's turn.
THEOREM TotalTold == Spec => []TotalUpToDate
<1>1. ReportInv => TotalUpToDate
  BY DEF ReportInv, UpToDateInv, Owned, TotalUpToDate, Told
<1> QED BY <1>1, ReportInvariant, PTL

\* And last week's energy is that of the jobs allocated in the last week, from the turn
\* to the telling; by the allocation's time stamp, as the query goes (db.py:437-439).
THEOREM WeekTold == Spec => []WeekIsRecent
<1>1. ReportInv => WeekIsRecent
  BY DEF ReportInv, OwnInv, UpToDateInv, Owned, WeekIsRecent, Told
<1> QED BY <1>1, ReportInvariant, PTL

\* The jobs listed last explain the figures that were read before them.
THEOREM PageTold == Spec => []PageAddsUp
<1>1. ReportInv => PageAddsUp
  <2> SUFFICES ASSUME ReportInv, Told PROVE PageAddsUp
    BY DEF PageAddsUp
  <2>1. /\ \A m \in total : m.job \in counted
        /\ \A m \in total \union week : \E l \in listed : m \in l.energy
        /\ \A j \in counted : \E l \in listed : l.job = j
    BY DEF ReportInv, AddUpInv, Told
  <2> QED BY <2>1 DEF PageAddsUp
<1> QED BY <1>1, ReportInvariant, PTL
==============================================================================
