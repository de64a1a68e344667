------------------------------ MODULE EpsTables ------------------------------
(***************************************************************************)
(* The accounting database as its readers may rely on it                   *)
(* (db/base-scheme.sql and the inserts of src/eps_db.c): tables that only  *)
(* grow, whose references resolve, and in which an execution appears at    *)
(* once with the measurements of all devices of its node, and once per job *)
(* and node.  EpsAccounting implements it; AwarenessReports reads it.      *)
(***************************************************************************)
EXTENDS Integers

CONSTANTS Jobs, Nodes, Devices,
          Runs,         \* the runs of a job that may report
          UserOf,       \* the owner of each job
          DevsOf        \* the devices that are measured on each node

VARIABLES users,        \* rows of users
          alloc,        \* rows of allocations: the primary key
          execs,        \* rows of executions
          rows          \* rows of measurements

tables == <<users, alloc, execs, rows>>

Execution(j, r, n) == [job |-> j, run |-> r, node |-> n]
Reported(j, r, n) == {[job |-> j, run |-> r, node |-> n, dev |-> d] : d \in DevsOf[n]}

TablesInit == users = {} /\ alloc = {} /\ execs = {} /\ rows = {}

\* insert_user_data: an insert, or the refresh of a row that is there.
AddUser(j) ==
    /\ users' = users \union {UserOf[j]}
    /\ UNCHANGED <<alloc, execs, rows>>

\* insert_allocation_data
AddAllocation(j) ==
    /\ j \notin alloc /\ UserOf[j] \in users
    /\ alloc' = alloc \union {j}
    /\ UNCHANGED <<users, execs, rows>>

\* insert_execution_data and insert_measurement_data in one transaction.
AddExecution(j, r, n) ==
    /\ j \in alloc /\ UserOf[j] \in users
    /\ \A e \in execs : ~(e.job = j /\ e.node = n)
    /\ execs' = execs \union {Execution(j, r, n)}
    /\ rows' = rows \union Reported(j, r, n)
    /\ UNCHANGED <<users, alloc>>

TablesNext == \E j \in Jobs : \/ AddUser(j) \/ AddAllocation(j)
                              \/ \E r \in Runs, n \in Nodes : AddExecution(j, r, n)

TablesSpec == TablesInit /\ [][TablesNext]_tables
==============================================================================
