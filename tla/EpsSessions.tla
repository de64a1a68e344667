----------------------------- MODULE EpsSessions -----------------------------
(***************************************************************************)
(* What the two slurmd hooks and the EFP promise together, whoever is slow *)
(* or fails: every run of a job id on a node gets at most one measuring    *)
(* session, the session does not take its final readings while the job can *)
(* still run, and it is over before the run is.  Nothing is said of        *)
(* processes, pids, semaphores or shared memory: EpsNode implements this.  *)
(***************************************************************************)
EXTENDS Integers

CONSTANT MaxRuns    \* bound: runs of the job id on this node

Runs == 1..MaxRuns

VARIABLES
    current,    \* the current run, 0 before the first
    phase,      \* how far Slurm has got with it: "idle", "preparing" (the prolog),
                \* "running" (the job) or "terminating"
    session     \* each run's session: "none", "measuring", "recording" or "over"

view == <<current, phase, session>>

SessionsInit == /\ current = 0 /\ phase = "idle"
                /\ session = [r \in Runs |-> "none"]

Closed(r) == session[r] \in {"none", "over"}

Turns(r, from, to) == /\ session[r] \in from
                      /\ session' = [session EXCEPT ![r] = to]

\* Slurm runs the job id again: nobody measures any more.  The prolog may fail
\* at once.
Begins == /\ phase = "idle" /\ current < MaxRuns
          /\ \A r \in Runs : Closed(r)
          /\ current' = current + 1
          /\ phase' \in {"preparing", "terminating"}
          /\ UNCHANGED session

Opens == /\ phase = "preparing"
         /\ Turns(current, {"none"}, "measuring")
         /\ UNCHANGED <<current, phase>>

\* The prolog succeeds, or fails and may close what it opened.
Prepared == /\ phase = "preparing"
            /\ \/ /\ phase' \in {"running", "terminating"}
                  /\ UNCHANGED session
               \/ /\ phase' = "terminating"
                  /\ Turns(current, {"measuring"}, "over")
            /\ UNCHANGED current

JobOver == /\ phase = "running"
           /\ phase' = "terminating"
           /\ UNCHANGED <<current, session>>

\* Final readings and the transaction: only after the job.
Records == /\ phase = "terminating"
           /\ Turns(current, {"measuring"}, "recording")
           /\ UNCHANGED <<current, phase>>

\* A session ends with its transaction, or fails, or is cut short.
Closes == /\ phase # "idle"
          /\ Turns(current, {"measuring", "recording"}, "over")
          /\ UNCHANGED <<current, phase>>

RunOver == /\ phase = "terminating"
           /\ Closed(current)
           /\ phase' = "idle"
           /\ UNCHANGED <<current, session>>

SessionsNext == Begins \/ Opens \/ Prepared \/ JobOver \/ Records \/ Closes \/ RunOver

SessionsSpec == SessionsInit /\ [][SessionsNext]_view
==============================================================================
