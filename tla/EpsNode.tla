------------------------------- MODULE EpsNode -------------------------------
(***************************************************************************)
(* One compute node and one job id: the slurmd hooks prep_p_prolog and     *)
(* prep_p_epilog (prep_epsa.c), the EFP process each prolog forks          *)
(* (src/eps_efp.c), and the three named semaphores and the shared memory   *)
(* region they meet through (src/eps_sem.c, src/eps_shm.c).  All names are *)
(* derived from the job id, so jobs do not share them; the same job id     *)
(* comes back when Slurm requeues a job, which is why a node sees several  *)
(* runs.                                                                   *)
(*                                                                         *)
(* Run r's EFP has pid r, and the semaphore objects run r creates are      *)
(* identified by r: a name that is unlinked and created again denotes a    *)
(* new object while the holders of the old one keep it.                    *)
(***************************************************************************)
EXTENDS Integers

CONSTANTS MaxRuns,      \* bound: runs of the job id on this node
          MaxRestarts,  \* bound: times slurmd dies
          WaitPolls,    \* bound: polls of timedwaitpid (100 in the code)
          Faults        \* what may go wrong besides time-outs, see FaultKinds

(* "prolog"   an error path of prep_p_prolog is taken                      *)
(* "efp"      the EFP fails: a `goto exit', or a crash, anywhere in it     *)
(* "nodevs"   EMA detects no device                                        *)
(* "epilog"   the epilog cannot open or map what it looks up               *)
(* "noepilog" slurm.conf does not set Epilog= (EPSA.md, pitfall 1)         *)
(* "clock"    clock_gettime fails                                          *)
(* "eintr"    a signal handler interrupts a semaphore wait                 *)
FaultKinds == {"prolog", "efp", "nodevs", "epilog", "noepilog", "clock", "eintr"}

ASSUME BoundsAssumption == /\ MaxRuns \in Nat \ {0}
                           /\ MaxRestarts \in Nat
                           /\ WaitPolls \in Nat \ {0}
ASSUME FaultsAssumption == Faults \subseteq FaultKinds

Runs == 1..MaxRuns
Sems == {"init", "efp", "exit"}

NoRegion == -2      \* no shared memory region of that name
Sentinel == -1      \* *efp_pid = -1

PrologAt == {"p_mark", "p_sem", "p_fork", "p_wait", "p_wait_untimed",
             "p_kill", "p_publish", "p_close"}
EpilogAt == {"e_resume", "e_exit", "e_post", "e_wait", "e_kill", "e_reap", "e_clean", "e_region"}
HookAt   == {"idle", "running", "ended"} \union PrologAt \union EpilogAt

Alive == {"boot", "mk_efp", "mk_exit", "setup", "ready", "wait", "final",
          "finish", "exiting"}
EfpAt == Alive \union {"none", "dying", "zombie", "gone"}

VARIABLES
    run,        \* the current run, 0 before the first
    hook,       \* where the slurmd thread serving this job is
    rc,         \* what the last hook that returned gave back to Slurm
    h,          \* that thread's handles: EFP pid, semaphore objects
    polls,      \* iterations of timedwaitpid so far
    up,         \* slurmd is running
    restarts,   \* times slurmd died
    cut,        \* history: runs whose prolog was cut short by that
    interrupted,\* history: a signal has interrupted a semaphore wait
    shm,        \* the pid cell of the region /epsshm_<jobid>
    name,       \* semaphore name -> object it denotes, 0 when unlinked
    val,        \* semaphore value of every object
    efp,        \* where each run's EFP is
    held        \* semaphore objects each EFP has open

hooks   == <<run, hook, rc, h, polls>>
slurmd  == <<up, restarts, cut, interrupted>>
ipc     == <<shm, name, val>>
efps    == <<efp, held>>
vars    == <<hooks, slurmd, ipc, efps>>

NoHandles == [pid |-> 0, init |-> 0, resume |-> 0, exit |-> 0]

Init == /\ run = 0 /\ hook = "idle" /\ rc = "none" /\ h = NoHandles /\ polls = 0
        /\ up = TRUE /\ restarts = 0 /\ cut = {} /\ interrupted = FALSE
        /\ shm = NoRegion
        /\ name = [s \in Sems |-> 0]
        /\ val = [s \in Sems |-> [r \in Runs |-> 0]]
        /\ efp = [r \in Runs |-> "none"]
        /\ held = [r \in Runs |-> [s \in Sems |-> 0]]

-----------------------------------------------------------------------------
(* The kernel's side of the calls.                                         *)

\* get_efp_sem(name, 0) finds an object exactly when the name is linked.
Linked(s) == name[s] # 0

\* Defect: without the sem_unlink, O_CREAT opens the object already there.
Created_Reuses(s, k) == IF Linked(s) THEN name[s] ELSE k

\* get_efp_sem(name, 1) unlinks the name first, so that O_CREAT always creates
\* an object, the creator's k.
Created(s, k) == k

NewSem(s, k) == /\ name' = [name EXCEPT ![s] = Created(s, k)]
                /\ val' = [val EXCEPT ![s][k] = 0]

Unlink(S) == name' = [s \in Sems |-> IF s \in S THEN 0 ELSE name[s]]

Post(s, k) == val' = [val EXCEPT ![s][k] = @ + 1]

\* Defect: a semaphore wait that does not wait.
Take_Unguarded(s, k) == val' = [val EXCEPT ![s][k] = @ - 1]

Take(s, k) == /\ val[s][k] > 0
              /\ val' = [val EXCEPT ![s][k] = @ - 1]

\* kill(p, SIGKILL) on a process that has not ended yet.
Kill(p) == efp' = [r \in Runs |-> IF r = p /\ efp[r] \in Alive THEN "dying" ELSE efp[r]]

\* An ended child stays a zombie until its parent, slurmd, waits for it; when
\* slurmd is gone init reaps it.
Ended == IF up THEN "zombie" ELSE "gone"

At(s) == up /\ hook = s
Return(next, code) == /\ hook' = next
                      /\ rc' = code
                      /\ h' = NoHandles
                      /\ polls' = 0
Goto(s) == hook' = s

-----------------------------------------------------------------------------
(* prep_p_prolog.  PrologFlags=Serial: the epilog of a run starts after    *)
(* its prolog returned, also when the prolog failed.                       *)

\* get_nodeid, init_gres or init_cpuinfo fails: nothing has been touched yet.
PrologFails ==
    /\ "prolog" \in Faults
    /\ At("idle") /\ run < MaxRuns
    /\ run' = run + 1
    /\ Return("ended", "error")
    /\ UNCHANGED <<slurmd, ipc, efps>>

\* A leftover region is unlinked first.  shm_open may fail, which leaves no
\* region, or mmap may, which leaves a fresh one that holds 0.
PrologCreatesRegion ==
    /\ At("idle") /\ run < MaxRuns
    /\ run' = run + 1
    /\ \/ /\ shm' = 0
          /\ Goto("p_mark")
          /\ UNCHANGED <<rc, h, polls>>
       \/ /\ "prolog" \in Faults
          /\ shm' \in {NoRegion, 0}
          /\ Return("ended", "error")
    /\ UNCHANGED <<name, val, slurmd, efps>>

PrologMarks ==
    /\ At("p_mark")
    /\ shm' = Sentinel
    /\ Goto("p_sem")
    /\ UNCHANGED <<run, rc, h, polls, slurmd, name, val, efps>>

PrologOpensSem ==
    /\ At("p_sem")
    /\ \/ /\ NewSem("init", run)
          /\ h' = [h EXCEPT !.init = Created("init", run)]
          /\ Goto("p_fork")
          /\ UNCHANGED <<rc, polls>>
       \/ /\ "prolog" \in Faults
          /\ Unlink({"init"})
          /\ Return("ended", "error")
          /\ UNCHANGED val
    /\ UNCHANGED <<run, slurmd, shm, efps>>

\* The parent goes on to wait with a deadline, or without one when it could
\* not read the clock.
PrologForks ==
    /\ At("p_fork")
    /\ \/ /\ efp' = [efp EXCEPT ![run] = "boot"]
          /\ \/ Goto("p_wait")
             \/ "clock" \in Faults /\ Goto("p_wait_untimed")
          /\ UNCHANGED <<rc, h, polls, name>>
       \/ /\ "prolog" \in Faults
          /\ Unlink({"init"})
          /\ Return("ended", "error")
          /\ UNCHANGED efp
    /\ UNCHANGED <<run, slurmd, shm, val, held>>

PrologReleased ==
    /\ At("p_wait") \/ At("p_wait_untimed")
    /\ Take("init", h.init)
    /\ Goto("p_publish")
    /\ UNCHANGED <<run, rc, h, polls, slurmd, shm, name, efps>>

\* Only ETIMEDOUT is told apart: an interrupted wait counts as a release.
PrologInterrupted ==
    /\ "eintr" \in Faults
    /\ At("p_wait") \/ At("p_wait_untimed")
    /\ Goto("p_publish")
    /\ interrupted' = TRUE
    /\ UNCHANGED <<run, rc, h, polls, up, restarts, cut, ipc, efps>>

PrologTimesOut ==
    /\ At("p_wait")
    /\ val["init"][h.init] = 0
    /\ Goto("p_kill")
    /\ UNCHANGED <<run, rc, h, polls, slurmd, ipc, efps>>

\* Defect: the EFP that missed the deadline is left alone.
PrologKills_Spares ==
    /\ At("p_kill")
    /\ Unlink({"init"})
    /\ Return("ended", "error")
    /\ UNCHANGED <<run, slurmd, shm, val, efps>>

PrologKills ==
    /\ At("p_kill")
    /\ Kill(run)
    /\ Unlink({"init"})
    /\ Return("ended", "error")
    /\ UNCHANGED <<run, slurmd, shm, val, held>>

PrologPublishes ==
    /\ At("p_publish")
    /\ shm' = run
    /\ Goto("p_close")
    /\ UNCHANGED <<run, rc, h, polls, slurmd, name, val, efps>>

PrologCloses ==
    /\ At("p_close")
    /\ Unlink({"init"})
    /\ Return("running", "success")
    /\ UNCHANGED <<run, slurmd, shm, val, efps>>

-----------------------------------------------------------------------------
(* The job itself, and prep_p_epilog.                                      *)

\* slurmstepd runs the job: it may end while slurmd is down.
JobEnds ==
    /\ hook = "running"
    /\ Goto("ended")
    /\ UNCHANGED <<run, rc, h, polls, slurmd, ipc, efps>>

EpilogSkipped ==
    /\ "noepilog" \in Faults
    /\ At("ended")
    /\ Return("idle", "skipped")
    /\ UNCHANGED <<run, slurmd, ipc, efps>>

\* Defect: only the sentinel is told apart, not the 0 of an unmarked region.
NamesAnEfp_NotSentinel(pid) == pid # Sentinel

NamesAnEfp(pid) == pid > 0      \* otherwise: "No EFP was started for this job"

EpilogOpensRegion ==
    /\ At("ended")
    /\ \/ /\ shm # NoRegion
          /\ NamesAnEfp(shm)
          /\ h' = [h EXCEPT !.pid = shm]
          /\ Goto("e_resume")
          /\ UNCHANGED <<rc, polls, shm>>
       \/ /\ shm # NoRegion
          /\ ~NamesAnEfp(shm)
          /\ shm' = NoRegion
          /\ Return("idle", "error")
       \/ /\ shm = NoRegion \/ "epilog" \in Faults
          /\ Return("idle", "error")
          /\ UNCHANGED shm
    /\ UNCHANGED <<run, slurmd, name, val, efps>>

\* A semaphore that cannot be opened: the region goes, the names stay, and
\* nobody resumes the EFP.
EpilogGivesUp(s) ==
    /\ ~Linked(s) \/ "epilog" \in Faults
    /\ shm' = NoRegion
    /\ Return("idle", "error")

EpilogOpensResume ==
    /\ At("e_resume")
    /\ \/ /\ Linked("efp")
          /\ h' = [h EXCEPT !.resume = name["efp"]]
          /\ Goto("e_exit")
          /\ UNCHANGED <<rc, polls, shm>>
       \/ EpilogGivesUp("efp")
    /\ UNCHANGED <<run, slurmd, name, val, efps>>

EpilogOpensExit ==
    /\ At("e_exit")
    /\ \/ /\ Linked("exit")
          /\ h' = [h EXCEPT !.exit = name["exit"]]
          /\ Goto("e_post")
          /\ UNCHANGED <<rc, polls, shm>>
       \/ EpilogGivesUp("exit")
    /\ UNCHANGED <<run, slurmd, name, val, efps>>

\* The EFP is resumed before the clock is read for the deadline.
EpilogPosts ==
    /\ At("e_post")
    /\ Post("efp", h.resume)
    /\ \/ /\ Goto("e_wait")
          /\ UNCHANGED <<rc, h, polls, shm, name>>
       \/ /\ "clock" \in Faults
          /\ shm' = NoRegion
          /\ Unlink({"efp", "exit"})
          /\ Return("idle", "error")
    /\ UNCHANGED <<run, slurmd, efps>>

EpilogReleased ==
    /\ At("e_wait")
    /\ Take("exit", h.exit)
    /\ Goto("e_reap")
    /\ UNCHANGED <<run, rc, h, polls, slurmd, shm, name, efps>>

EpilogInterrupted ==
    /\ "eintr" \in Faults
    /\ At("e_wait")
    /\ Goto("e_reap")
    /\ interrupted' = TRUE
    /\ UNCHANGED <<run, rc, h, polls, up, restarts, cut, ipc, efps>>

\* Defect: a time-out is taken for the EFP's answer.
EpilogTimesOut_Ignored ==
    /\ At("e_wait")
    /\ val["exit"][h.exit] = 0
    /\ Goto("e_reap")
    /\ UNCHANGED <<run, rc, h, polls, slurmd, ipc, efps>>

EpilogTimesOut ==
    /\ At("e_wait")
    /\ val["exit"][h.exit] = 0
    /\ Goto("e_kill")
    /\ UNCHANGED <<run, rc, h, polls, slurmd, ipc, efps>>

EpilogKills ==
    /\ At("e_kill")
    /\ Kill(h.pid)
    /\ Goto("e_reap")
    /\ UNCHANGED <<run, rc, h, polls, slurmd, ipc, held>>

\* Defect: kill after the wait, "to be sure".
EpilogReaps_KillsAfter ==
    /\ At("e_reap")
    /\ efp[h.pid] \in {"zombie", "gone"}
    /\ efp' = [efp EXCEPT ![h.pid] = "gone"]
    /\ Goto("e_kill")
    /\ UNCHANGED <<run, rc, h, polls, slurmd, ipc, held>>

\* Defect: the time waited is not counted.
EpilogReaps_Uncounted ==
    /\ At("e_reap")
    /\ \/ /\ efp[h.pid] \in {"zombie", "gone"}
          /\ efp' = [efp EXCEPT ![h.pid] = "gone"]
          /\ Goto("e_clean")
       \/ /\ efp[h.pid] \notin {"zombie", "gone"}
          /\ UNCHANGED <<hook, efp>>
    /\ UNCHANGED <<run, rc, h, polls, slurmd, ipc, held>>

\* One iteration of timedwaitpid: reaped, not slurmd's child (any more), or
\* not ended yet, up to the time-out.  Its result is only logged.
EpilogReaps ==
    /\ At("e_reap")
    /\ \/ /\ polls < WaitPolls
          /\ efp[h.pid] = "zombie"
          /\ efp' = [efp EXCEPT ![h.pid] = "gone"]
          /\ Goto("e_clean")
          /\ UNCHANGED polls
       \/ /\ polls < WaitPolls
          /\ efp[h.pid] = "gone"
          /\ Goto("e_clean")
          /\ UNCHANGED <<polls, efp>>
       \/ /\ polls < WaitPolls
          /\ efp[h.pid] \notin {"zombie", "gone"}
          /\ polls' = polls + 1
          /\ UNCHANGED <<hook, efp>>
       \/ /\ polls = WaitPolls
          /\ Goto("e_clean")
          /\ UNCHANGED <<polls, efp>>
    /\ UNCHANGED <<run, rc, h, slurmd, ipc, held>>

\* Defect: one of the two names is forgotten.
EpilogUnlinksSems_ResumeOnly ==
    /\ At("e_clean")
    /\ Unlink({"efp"})
    /\ Goto("e_region")
    /\ UNCHANGED <<run, rc, h, polls, slurmd, shm, val, efps>>

EpilogUnlinksSems ==
    /\ At("e_clean")
    /\ Unlink({"efp", "exit"})
    /\ Goto("e_region")
    /\ UNCHANGED <<run, rc, h, polls, slurmd, shm, val, efps>>

\* Defect: the region is unmapped but not unlinked.
EpilogUnlinksRegion_Kept ==
    /\ At("e_region")
    /\ Return("idle", "success")
    /\ UNCHANGED <<run, slurmd, ipc, efps>>

EpilogUnlinksRegion ==
    /\ At("e_region")
    /\ shm' = NoRegion
    /\ Return("idle", "success")
    /\ UNCHANGED <<run, slurmd, name, val, efps>>

-----------------------------------------------------------------------------
(* efp_main, in the process run r's prolog forked.                         *)

EfpMoves(r, from, to) == /\ efp[r] = from
                         /\ efp' = [efp EXCEPT ![r] = to]

\* Defect: the prolog is let go before the other two semaphores exist.
EfpOpensInit_PostsAtOnce(r) ==
    /\ Linked("init")
    /\ EfpMoves(r, "boot", "mk_efp")
    /\ held' = [held EXCEPT ![r]["init"] = name["init"]]
    /\ Post("init", name["init"])
    /\ UNCHANGED <<hooks, slurmd, shm, name>>

EfpOpensInit(r) ==
    /\ \/ /\ Linked("init")
          /\ EfpMoves(r, "boot", "mk_efp")
          /\ held' = [held EXCEPT ![r]["init"] = name["init"]]
       \/ /\ ~Linked("init")
          /\ EfpMoves(r, "boot", "exiting")
          /\ UNCHANGED held
    /\ UNCHANGED <<hooks, slurmd, ipc>>

\* get_efp_sem(name, 1) in the EFP: on failure the old name is gone already.
EfpMakes(r, s, from, to) ==
    /\ \/ /\ EfpMoves(r, from, to)
          /\ NewSem(s, r)
          /\ held' = [held EXCEPT ![r][s] = Created(s, r)]
       \/ /\ "efp" \in Faults
          /\ EfpMoves(r, from, "exiting")
          /\ Unlink({s})
          /\ UNCHANGED <<val, held>>
    /\ UNCHANGED <<hooks, slurmd, shm>>

EfpMakesResume(r) == EfpMakes(r, "efp", "mk_efp", "mk_exit")
EfpMakesExit(r)   == EfpMakes(r, "exit", "mk_exit", "setup")

\* The core list is parsed, EMA is initialised, the prolog is let go.
EfpInits(r) ==
    /\ EfpMoves(r, "setup", "ready")
    /\ Post("init", held[r]["init"])
    /\ UNCHANGED <<hooks, slurmd, shm, name, held>>

\* Devices are looked at, and e0 and t0 are read, after the prolog is let go.
EfpReadsBaseline(r) ==
    /\ \/ EfpMoves(r, "ready", "wait")
       \/ "nodevs" \in Faults /\ EfpMoves(r, "ready", "exiting")
    /\ UNCHANGED <<hooks, slurmd, ipc, held>>

EfpResumes(r) ==
    /\ EfpMoves(r, "wait", "final")
    /\ Take("efp", held[r]["efp"])
    /\ UNCHANGED <<hooks, slurmd, shm, name, held>>

\* The result of sem_wait is not looked at.
EfpInterrupted(r) ==
    /\ "eintr" \in Faults
    /\ EfpMoves(r, "wait", "final")
    /\ interrupted' = TRUE
    /\ UNCHANGED <<hooks, up, restarts, cut, ipc, held>>

\* Defect: the epilog is let go before the transaction has been committed.
EfpRecords_PostsFirst(r) ==
    /\ EfpMoves(r, "final", "finish")
    /\ Post("exit", held[r]["exit"])
    /\ UNCHANGED <<hooks, slurmd, shm, name, held>>

\* e1 and t1 are read, the transaction is run; a failed COMMIT is only logged.
EfpRecords(r) ==
    /\ EfpMoves(r, "final", "finish")
    /\ UNCHANGED <<hooks, slurmd, ipc, held>>

EfpPostsExit(r) ==
    /\ EfpMoves(r, "finish", "exiting")
    /\ Post("exit", held[r]["exit"])
    /\ UNCHANGED <<hooks, slurmd, shm, name, held>>

\* Every `goto exit', and the signals crash_handler catches.
EfpFails(r) ==
    /\ "efp" \in Faults
    /\ efp[r] \in Alive \ {"exiting"}
    /\ efp' = [efp EXCEPT ![r] = "exiting"]
    /\ UNCHANGED <<hooks, slurmd, ipc, held>>

EfpEnds(r) ==
    /\ efp[r] \in {"exiting", "dying"}
    /\ efp' = [efp EXCEPT ![r] = Ended]
    /\ UNCHANGED <<hooks, slurmd, ipc, held>>

-----------------------------------------------------------------------------
(* slurmd, as far as the plug-in meets it.                                 *)

\* Where Slurm takes the job up again after the restart: a prolog cut short
\* failed, an epilog cut short is run again.
Due == IF hook \in {"idle", "running", "ended"} THEN hook ELSE "ended"

SlurmdDies ==
    /\ up /\ restarts < MaxRestarts
    /\ up' = FALSE
    /\ restarts' = restarts + 1
    /\ cut' = cut \union (IF hook \in PrologAt THEN {run} ELSE {})
    /\ Return(Due, IF Due = hook THEN rc ELSE "error")
    /\ efp' = [r \in Runs |-> IF efp[r] = "zombie" THEN "gone" ELSE efp[r]]
    /\ UNCHANGED <<run, interrupted, ipc, held>>

\* An EFP holds the listening socket it inherited, so that slurmd cannot start
\* before it has ended; the operator kills it (EPSA.md, pitfall 4).
OperatorKills(r) ==
    /\ ~up
    /\ efp[r] \in Alive
    /\ Kill(r)
    /\ UNCHANGED <<hooks, slurmd, ipc, held>>

SlurmdStarts ==
    /\ ~up
    /\ \A r \in Runs : efp[r] \in {"none", "gone"}
    /\ up' = TRUE
    /\ UNCHANGED <<restarts, cut, interrupted, hooks, ipc, efps>>

\* Every run the bound allows is over.
Finished == At("idle") /\ run = MaxRuns /\ UNCHANGED vars

-----------------------------------------------------------------------------
PrologStep == \/ PrologFails \/ PrologCreatesRegion \/ PrologMarks \/ PrologOpensSem
              \/ PrologForks \/ PrologReleased \/ PrologInterrupted \/ PrologTimesOut
              \/ PrologKills \/ PrologPublishes \/ PrologCloses

EpilogStep == \/ EpilogSkipped \/ EpilogOpensRegion \/ EpilogOpensResume
              \/ EpilogOpensExit \/ EpilogPosts \/ EpilogReleased
              \/ EpilogInterrupted \/ EpilogTimesOut \/ EpilogKills
              \/ EpilogReaps \/ EpilogUnlinksSems \/ EpilogUnlinksRegion

EfpStep(r) == \/ EfpOpensInit(r) \/ EfpMakesResume(r) \/ EfpMakesExit(r)
              \/ EfpInits(r) \/ EfpReadsBaseline(r) \/ EfpResumes(r)
              \/ EfpInterrupted(r) \/ EfpRecords(r) \/ EfpPostsExit(r)
              \/ EfpFails(r) \/ EfpEnds(r)

SlurmdStep == SlurmdDies \/ SlurmdStarts \/ \E r \in Runs : OperatorKills(r)

Next == PrologStep \/ JobEnds \/ EpilogStep \/ SlurmdStep \/ Finished
        \/ \E r \in Runs : EfpStep(r)

Spec == Init /\ [][Next]_vars

\* A hook that was entered goes on: it is a thread of slurmd, and every wait in
\* it but the untimed one has a deadline.  Jobs end (they have a time limit).
\* Nothing obliges Slurm to run the job again, so a prolog need not start.
HookMoves == hook # "idle" /\ (PrologStep \/ JobEnds \/ EpilogStep)

\* The EFP may stall anywhere, for ever: of it no more is assumed than that it
\* ends once it is on its way out or has been killed.
FairSpec == Spec /\ WF_vars(HookMoves)
LiveSpec == FairSpec /\ \A r \in Runs : WF_vars(EfpEnds(r))

-----------------------------------------------------------------------------
Names   == [Sems -> 0..MaxRuns]
Values  == [Sems -> [Runs -> Nat]]
Handles == [pid : 0..MaxRuns, init : 0..MaxRuns, resume : 0..MaxRuns, exit : 0..MaxRuns]

HookOK ==
    /\ run \in 0..MaxRuns
    /\ hook \in HookAt
    /\ rc \in {"none", "success", "error", "skipped"}
    /\ h \in Handles
    /\ polls \in 0..WaitPolls
    /\ up \in BOOLEAN /\ restarts \in 0..MaxRestarts
    /\ cut \subseteq 0..MaxRuns /\ interrupted \in BOOLEAN

IpcOK ==
    /\ shm \in {NoRegion, Sentinel, 0} \union Runs
    /\ name \in Names /\ val \in Values

EfpOK ==
    /\ efp \in [Runs -> EfpAt]
    /\ held \in [Runs -> [Sems -> 0..MaxRuns]]

TypeOK == HookOK /\ IpcOK /\ EfpOK

Working == Alive \ {"exiting"}

\* Whatever fails, and however the two processes interleave, SIGKILL is only
\* sent to a positive pid that a prolog of this job forked: "never kill(*efp_pid,
\* ...) here: pid 0 targets the whole process group" (prep_epsa.c:312-315).
KillTargetsAnEfp ==
    /\ At("p_kill") => efp[run] # "none"
    /\ At("e_kill") => h.pid \in 1..run /\ efp[h.pid] # "none"

\* As long as slurmd has not been restarted the target of a SIGKILL has not been
\* waited for, so that its pid cannot have been given to another process.
NoStraySignal ==
    restarts = 0 => /\ At("p_kill") => efp[run] # "gone"
                    /\ At("e_kill") => efp[h.pid] # "gone"

OneRun ==
    /\ hook \in EpilogAt \ {"e_resume"} => h.resume = h.pid
    /\ hook \in EpilogAt \ {"e_resume", "e_exit"} => h.exit = h.pid

\* The pid, the resume semaphore and the exit semaphore the epilog looked up,
\* one after the other and each by name, belong to one and the same EFP,
\* although names outlive runs and failed epilogs; unless an interrupted wait
\* has been taken for an answer.
EpilogAddressesOneRun == interrupted \/ OneRun

Window == hook \in PrologAt \union {"running"} => run = 0 \/ efp[run] \notin {"final", "finish"}

\* The EFP does not take its final readings while the job is still running: no
\* post meant for an earlier run lets it go early (nor does anything else but an
\* interrupted wait).
JobWindow == interrupted \/ Window

NothingToDo == At("e_reap") => efp[h.pid] \notin Working

\* By the time the epilog waits for the process, the EFP has nothing left to
\* do: it has committed, or it has failed, or it has been killed; unless a wait was
\* interrupted.
ReapingEndedEfp == interrupted \/ NothingToDo

\* After an epilog that reports success, unless a wait was interrupted, there is
\* no region of the job and none of the two names its EFPs made, neither this
\* run's nor an earlier one's.  The third name, /efpsem_init_<jobid>, can be left:
\* slurmd may die in a prolog before it unlinks it (prep_epsa.c:275), and no
\* epilog does (393-407), but only by a prolog that was cut short like this.
CleanAfterSuccess ==
    At("idle") /\ rc = "success" /\ ~interrupted =>
        /\ shm = NoRegion
        /\ name["efp"] = 0 /\ name["exit"] = 0
        /\ name["init"] \in {0} \union cut

\* When the epilog finds the sentinel (or an unmarked region) no EFP of the run
\* is left at work: the time-out of the prolog killed it.
SentinelMeansNoEfp == At("ended") /\ shm <= 0 => run = 0 \/ efp[run] \notin Working

\* A pid the epilog reads is the current run's, never one an earlier run left.
EpilogAddressesThisRun == hook \in EpilogAt => h.pid = run

\* Two EFPs of a job never measure at once (the energy would count twice).
EarlierEfpsOver == \A r \in Runs : r < run => efp[r] \notin Working

\* Every hook returns, and the run gets through its epilog, even when the EFP never
\* takes a step.  Only a prolog that cannot read the clock may wait for ever.
HooksReturn ==
    \A r \in Runs : run = r ~> ~up \/ (run = r /\ hook \in {"idle", "p_wait_untimed"})

\* Every EFP that was forked ends, even when it stalls; only one whose slurmd has
\* died may be left, and as long as it is no slurmd starts.
EfpsEnd == \A r \in Runs : efp[r] # "none" ~> ~up \/ efp[r] \in {"zombie", "gone"}

Phase == CASE hook = "idle" -> "idle"
           [] hook \in PrologAt -> "preparing"
           [] hook = "running" -> "running"
           [] OTHER -> "terminating"

Stage(at) == CASE at = "none" -> "none"
               [] at \in {"final", "finish"} -> "recording"
               [] at \in Working \ {"final", "finish"} -> "measuring"
               [] OTHER -> "over"

Sessions == INSTANCE EpsSessions WITH current <- run, phase <- Phase,
                                      session <- [r \in Runs |-> Stage(efp[r])]

\* Seen from outside the hooks and the EFPs are what EpsSessions says: one
\* measuring session a run, that records only after the job and is over before
\* the run is, and before slurmd starts the next (as long as epilogs run and can
\* do their work).
OneSessionPerRun == Sessions!SessionsSpec

\* prep_epsa.c:150-151: the sentinel is "overwritten with the real EFP pid only
\* once it is actually running".
PublishedPidRunning == [][\A r \in Runs : shm' = r /\ shm # r => efp[r] \in Working]_vars

\* prep_epsa.c:311-312, on finding the sentinel: "Prolog never got a running EFP
\* (init failed/timed out [...]). Nothing to signal/wait/kill".
SentinelNothingToWait == At("ended") /\ shm = Sentinel => run = 0 \/ efp[run] \in {"none", "gone"}

-----------------------------------------------------------------------------
(* Inductive invariants, from which the safety properties follow           *)
(* (EpsNodeProofs).                                                        *)

Forked(p) == p \in 1..run /\ efp[p] # "none"
Unreaped(p) == restarts = 0 => efp[p] # "gone"

\* A pid that is about to be used, or can be read, is that of an EFP, and until
\* the epilog has waited for the EFP nobody else has.
SignalInv ==
    /\ hook # "idle" => run \in Runs
    /\ up \/ restarts > 0
    /\ hook \in {"p_wait", "p_wait_untimed", "p_kill", "p_publish", "p_close"} =>
          Forked(run) /\ Unreaped(run)
    /\ shm > 0 => Forked(shm) /\ (hook \in {"e_clean", "e_region"} \/ Unreaped(shm))
    /\ hook \in EpilogAt =>
          Forked(h.pid) /\ (hook \in {"e_clean", "e_region"} \/ Unreaped(h.pid))

Making    == {"boot", "mk_efp", "mk_exit", "setup"}
Resumable == {"mk_exit", "setup", "ready", "wait"}

\* An object is only used by the run that made it.
ObjectsInv ==
    /\ \A r \in Runs : r > run \/ (r = run /\ hook \in {"p_mark", "p_sem", "p_fork"})
                          => efp[r] = "none" /\ val["efp"][r] = 0
    /\ \A s \in Sems : name[s] \in 0..run
    /\ hook \in {"p_fork", "p_wait", "p_wait_untimed"} => h.init = run
    /\ hook = "p_fork" => name["init"] = run
    /\ \A r \in Runs, s \in Sems : held[r][s] \in {0, r}
    /\ \A r \in Runs : /\ efp[r] = "boot" => name["init"] \in {0, r}
                       /\ efp[r] \in Resumable => held[r]["efp"] = r
                       /\ efp[r] \in {"none"} \union Making => val["init"][r] = 0
                       /\ val["exit"][r] > 0 => efp[r] \notin Working \union {"none"}

\* The objects the names denote belong to the run whose pid can be read.
NamesInv ==
    /\ hook \in {"p_mark", "p_sem", "p_fork"} => shm <= 0
    /\ \A r \in Runs : efp[r] \in Making =>
          /\ r = run /\ shm <= 0
          /\ ~up \/ hook \in {"p_wait", "p_wait_untimed", "p_kill"}
    /\ shm > 0 => name["efp"] \in {0, shm} /\ name["exit"] \in {0, shm}
    /\ \A r \in Runs : /\ efp[r] \in {"mk_exit", "setup"} => name["efp"] \in {0, r}
                       /\ efp[r] = "setup" => name["exit"] \in {0, r}
    /\ \/ hook = "p_publish"
       \/ hook \in {"p_wait", "p_wait_untimed"} /\ val["init"][run] > 0
       => efp[run] \notin Making /\ name["efp"] \in {0, run} /\ name["exit"] \in {0, run}
    /\ hook \in EpilogAt => h.pid = shm
    /\ OneRun

\* No post reaches the current run's EFP before the epilog's.
WindowInv ==
    /\ hook \in PrologAt \union {"running"} => run \in Runs /\ val["efp"][run] = 0
    /\ Window
    /\ NothingToDo

SemInv == SignalInv /\ ObjectsInv /\ NamesInv /\ WindowInv

\* Semaphores are only made while the prolog waits, and init's is only linked
\* while the prolog is under way.
MadeInv ==
    /\ \A r \in Runs : efp[r] \in Making =>
          hook \in {"p_wait", "p_wait_untimed", "p_kill"} \/ (hook = "ended" /\ ~up)
    /\ name["init"] \in {0} \union cut
                     \union IF hook \in PrologAt \ {"p_mark", "p_sem"} THEN {run} ELSE {}
    /\ hook = "e_region" => name["efp"] = 0 /\ name["exit"] = 0
    /\ hook = "idle" /\ rc = "success" =>
          /\ shm = NoRegion
          /\ name["efp"] = 0 /\ name["exit"] = 0

\* Only the current run's EFP is at work; as long as it is, it can be found: by
\* its names, and once the prolog is over by the region.
SessionInv ==
    /\ \A r \in Runs :
          /\ efp[r] \in Working => r = run
          /\ efp[r] \in Working \ {"boot", "mk_efp"} => name["efp"] = r
          /\ efp[r] \in Working \ {"boot", "mk_efp", "mk_exit"} => name["exit"] = r
    /\ shm > 0 => shm = run
    /\ hook \in {"p_close", "running"} => shm = run
    /\ hook = "ended" /\ up => shm = run \/ efp[run] \notin Working
    /\ hook \in {"e_reap", "e_clean", "e_region"} => efp[run] \notin Working
    /\ hook = "idle" => shm = NoRegion /\ \A r \in Runs : efp[r] \notin Working
==============================================================================
