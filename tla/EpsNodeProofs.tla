---------------------------- MODULE EpsNodeProofs ----------------------------
(***************************************************************************)
(* Theorems about EpsNode, for all values of its constants: types and      *)
(* signals, semaphores and names, successive runs and the refinement of    *)
(* EpsSessions.                                                            *)
(***************************************************************************)
EXTENDS EpsNode, TLAPS

USE DEF Sems, Runs, NoRegion, Sentinel

-----------------------------------------------------------------------------
(* What the operators on semaphores and processes preserve.                *)

LEMMA NewSemTyped == ASSUME name \in Names, val \in Values,
                            NEW s \in Sems, NEW k \in 0..MaxRuns, NewSem(s, k)
                     PROVE  name' \in Names /\ val' \in Values
  BY DEF NewSem, Created, Names, Values

LEMMA UnlinkTyped == ASSUME name \in Names, BoundsAssumption, NEW S, Unlink(S)
                     PROVE  name' \in Names
  BY DEF Unlink, Names, BoundsAssumption

LEMMA PostTyped == ASSUME val \in Values, NEW s \in Sems, NEW k, Post(s, k)
                   PROVE  val' \in Values
<1> DEFINE f == [val[s] EXCEPT ![k] = @ + 1]
<1>1. val[s] \in [Runs -> Nat]
  BY DEF Values
<1>2. f \in [Runs -> Nat]
  <2>1. CASE k \in Runs
    <3>1. val[s][k] \in Nat BY <1>1, <2>1
    <3> QED BY <1>1, <2>1, <3>1
  <2>2. CASE k \notin Runs BY <1>1, <2>2
  <2> QED BY <2>1, <2>2
<1>3. val' = [val EXCEPT ![s] = f]
  BY DEF Post
<1> HIDE DEF f
<1> QED BY <1>2, <1>3 DEF Values

LEMMA TakeTyped == ASSUME val \in Values, NEW s \in Sems, NEW k, Take(s, k)
                   PROVE  val' \in Values
<1> DEFINE f == [val[s] EXCEPT ![k] = @ - 1]
<1>1. val[s] \in [Runs -> Nat]
  BY DEF Values
<1>2. f \in [Runs -> Nat]
  <2>1. CASE k \in Runs
    <3>1. val[s][k] \in Nat /\ val[s][k] > 0 BY <1>1, <2>1 DEF Take
    <3> QED BY <1>1, <2>1, <3>1
  <2>2. CASE k \notin Runs BY <1>1, <2>2
  <2> QED BY <2>1, <2>2
<1>3. val' = [val EXCEPT ![s] = f]
  BY DEF Take
<1> HIDE DEF f
<1> QED BY <1>2, <1>3 DEF Values

LEMMA HeldTyped == ASSUME EfpOK, NEW r \in Runs, NEW s \in Sems, NEW k \in 0..MaxRuns,
                          held' = [held EXCEPT ![r][s] = k]
                   PROVE  held' \in [Runs -> [Sems -> 0..MaxRuns]]
<1> DEFINE f == [held[r] EXCEPT ![s] = k]
<1>1. f \in [Sems -> 0..MaxRuns] BY DEF EfpOK
<1>2. held' = [held EXCEPT ![r] = f] OBVIOUS
<1> HIDE DEF f
<1> QED BY <1>1, <1>2 DEF EfpOK

LEMMA KillTyped == ASSUME EfpOK, NEW p, Kill(p)
                   PROVE  efp' \in [Runs -> EfpAt]
  BY DEF EfpOK, Kill, EfpAt

-----------------------------------------------------------------------------
(* Type correctness.                                                       *)

LEMMA InitTyped == Init => TypeOK
<1> SUFFICES ASSUME Init PROVE TypeOK OBVIOUS
<1>1. HookOK
  <2>1. up \in BOOLEAN /\ cut \subseteq 0..MaxRuns /\ interrupted \in BOOLEAN BY DEF Init
  <2>2. /\ run \in 0..MaxRuns /\ polls \in 0..WaitPolls /\ restarts \in 0..MaxRestarts
        /\ h \in Handles
    BY BoundsAssumption DEF Init, NoHandles, Handles
  <2>3. hook \in HookAt /\ rc \in {"none", "success", "error", "skipped"} BY DEF Init, HookAt
  <2> QED BY <2>1, <2>2, <2>3 DEF HookOK
<1>2. IpcOK BY BoundsAssumption DEF Init, IpcOK, Names, Values
<1>3. EfpOK BY BoundsAssumption DEF Init, EfpOK, EfpAt
<1> QED BY <1>1, <1>2, <1>3 DEF TypeOK

LEMMA PrologTyped == TypeOK /\ PrologStep => TypeOK'
<1> SUFFICES ASSUME TypeOK, PrologStep PROVE TypeOK' OBVIOUS
<1> USE BoundsAssumption DEF TypeOK, hooks, slurmd, ipc, efps
<1> USE DEF At, Goto, Return, NoHandles
<1>1. CASE PrologFails
  <2>1. HookOK' BY <1>1 DEF PrologFails, HookOK, HookAt, Handles
  <2> QED BY <1>1, <2>1 DEF PrologFails, IpcOK, EfpOK
<1>2. CASE PrologCreatesRegion
  <2>1. HookOK' BY <1>2 DEF PrologCreatesRegion, HookOK, HookAt, PrologAt, Handles
  <2>2. IpcOK' BY <1>2 DEF PrologCreatesRegion, IpcOK
  <2> QED BY <1>2, <2>1, <2>2 DEF PrologCreatesRegion, EfpOK
<1>3. CASE PrologMarks
  <2>1. HookOK' BY <1>3 DEF PrologMarks, HookOK, HookAt, PrologAt
  <2>2. IpcOK' BY <1>3 DEF PrologMarks, IpcOK
  <2> QED BY <1>3, <2>1, <2>2 DEF PrologMarks, EfpOK
<1>4. CASE PrologOpensSem
  <2>1. HookOK' BY <1>4 DEF PrologOpensSem, HookOK, HookAt, PrologAt, Handles, Created
  <2>2. name' \in Names /\ val' \in Values
    BY <1>4, NewSemTyped, UnlinkTyped DEF PrologOpensSem, HookOK, IpcOK
  <2> QED BY <1>4, <2>1, <2>2 DEF PrologOpensSem, IpcOK, EfpOK
<1>5. CASE PrologForks
  <2>1. HookOK' BY <1>5 DEF PrologForks, HookOK, HookAt, PrologAt, Handles
  <2>2. IpcOK' BY <1>5, UnlinkTyped DEF PrologForks, IpcOK
  <2>3. EfpOK' BY <1>5 DEF PrologForks, EfpOK, EfpAt, Alive
  <2> QED BY <2>1, <2>2, <2>3
<1>6. CASE PrologReleased
  <2>1. HookOK' BY <1>6 DEF PrologReleased, HookOK, HookAt, PrologAt
  <2>2. IpcOK' BY <1>6, TakeTyped DEF PrologReleased, IpcOK
  <2> QED BY <1>6, <2>1, <2>2 DEF PrologReleased, EfpOK
<1>7. CASE PrologInterrupted
  <2>1. HookOK' BY <1>7 DEF PrologInterrupted, HookOK, HookAt, PrologAt
  <2> QED BY <1>7, <2>1 DEF PrologInterrupted, IpcOK, EfpOK
<1>8. CASE PrologTimesOut
  <2>1. HookOK' BY <1>8 DEF PrologTimesOut, HookOK, HookAt, PrologAt
  <2> QED BY <1>8, <2>1 DEF PrologTimesOut, IpcOK, EfpOK
<1>9. CASE PrologKills
  <2>1. HookOK' BY <1>9 DEF PrologKills, HookOK, HookAt, Handles
  <2>2. IpcOK' BY <1>9, UnlinkTyped DEF PrologKills, IpcOK
  <2>3. EfpOK' BY <1>9, KillTyped DEF PrologKills, EfpOK
  <2> QED BY <2>1, <2>2, <2>3
<1>10. CASE PrologPublishes
  <2>1. HookOK' BY <1>10 DEF PrologPublishes, HookOK, HookAt, PrologAt
  <2>2. shm' = run /\ run \in 0..MaxRuns /\ UNCHANGED <<name, val>>
    BY <1>10 DEF PrologPublishes, HookOK
  <2> QED BY <1>10, <2>1, <2>2 DEF PrologPublishes, IpcOK, EfpOK
<1>11. CASE PrologCloses
  <2>1. HookOK' BY <1>11 DEF PrologCloses, HookOK, HookAt, Handles
  <2>2. IpcOK' BY <1>11, UnlinkTyped DEF PrologCloses, IpcOK
  <2> QED BY <1>11, <2>1, <2>2 DEF PrologCloses, EfpOK
<1> QED BY <1>1, <1>2, <1>3, <1>4, <1>5, <1>6, <1>7, <1>8, <1>9, <1>10, <1>11 DEF PrologStep

LEMMA EpilogTyped == TypeOK /\ EpilogStep => TypeOK'
<1> SUFFICES ASSUME TypeOK, EpilogStep PROVE TypeOK' OBVIOUS
<1> USE BoundsAssumption DEF TypeOK, hooks, slurmd, ipc, efps
<1> USE DEF At, Goto, Return, NoHandles
<1>1. CASE EpilogSkipped
  <2>1. HookOK' BY <1>1 DEF EpilogSkipped, HookOK, HookAt, Handles
  <2> QED BY <1>1, <2>1 DEF EpilogSkipped, IpcOK, EfpOK
<1>2. CASE EpilogOpensRegion
  <2>1. HookOK' BY <1>2 DEF EpilogOpensRegion, NamesAnEfp, HookOK, IpcOK, HookAt, EpilogAt, Handles
  <2>2. IpcOK' BY <1>2 DEF EpilogOpensRegion, IpcOK
  <2> QED BY <1>2, <2>1, <2>2 DEF EpilogOpensRegion, EfpOK
<1>3. CASE EpilogOpensResume
  <2>1. name["efp"] \in 0..MaxRuns BY DEF IpcOK, Names
  <2>2. HookOK' BY <1>3, <2>1 DEF EpilogOpensResume, EpilogGivesUp, HookOK, HookAt, EpilogAt, Handles
  <2>3. IpcOK' BY <1>3 DEF EpilogOpensResume, EpilogGivesUp, IpcOK
  <2> QED BY <1>3, <2>2, <2>3 DEF EpilogOpensResume, EfpOK
<1>4. CASE EpilogOpensExit
  <2>1. name["exit"] \in 0..MaxRuns BY DEF IpcOK, Names
  <2>2. HookOK' BY <1>4, <2>1 DEF EpilogOpensExit, EpilogGivesUp, HookOK, HookAt, EpilogAt, Handles
  <2>3. IpcOK' BY <1>4 DEF EpilogOpensExit, EpilogGivesUp, IpcOK
  <2> QED BY <1>4, <2>2, <2>3 DEF EpilogOpensExit, EfpOK
<1>5. CASE EpilogPosts
  <2>1. HookOK' BY <1>5 DEF EpilogPosts, HookOK, HookAt, EpilogAt, Handles
  <2>2. name' \in Names /\ val' \in Values BY <1>5, UnlinkTyped, PostTyped DEF EpilogPosts, IpcOK
  <2> QED BY <1>5, <2>1, <2>2 DEF EpilogPosts, IpcOK, EfpOK
<1>6. CASE EpilogReleased
  <2>1. HookOK' BY <1>6 DEF EpilogReleased, HookOK, HookAt, EpilogAt
  <2>2. IpcOK' BY <1>6, TakeTyped DEF EpilogReleased, IpcOK
  <2> QED BY <1>6, <2>1, <2>2 DEF EpilogReleased, EfpOK
<1>7. CASE EpilogInterrupted
  <2>1. HookOK' BY <1>7 DEF EpilogInterrupted, HookOK, HookAt, EpilogAt
  <2> QED BY <1>7, <2>1 DEF EpilogInterrupted, IpcOK, EfpOK
<1>8. CASE EpilogTimesOut
  <2>1. HookOK' BY <1>8 DEF EpilogTimesOut, HookOK, HookAt, EpilogAt
  <2> QED BY <1>8, <2>1 DEF EpilogTimesOut, IpcOK, EfpOK
<1>9. CASE EpilogKills
  <2>1. HookOK' BY <1>9 DEF EpilogKills, HookOK, HookAt, EpilogAt
  <2>2. EfpOK' BY <1>9, KillTyped DEF EpilogKills, EfpOK
  <2> QED BY <1>9, <2>1, <2>2 DEF EpilogKills, IpcOK
<1>10. CASE EpilogReaps
  <2>1. HookOK' BY <1>10 DEF EpilogReaps, HookOK, HookAt, EpilogAt
  <2>2. EfpOK' BY <1>10 DEF EpilogReaps, EfpOK, EfpAt
  <2> QED BY <1>10, <2>1, <2>2 DEF EpilogReaps, IpcOK
<1>11. CASE EpilogUnlinksSems
  <2>1. HookOK' BY <1>11 DEF EpilogUnlinksSems, HookOK, HookAt, EpilogAt
  <2>2. IpcOK' BY <1>11, UnlinkTyped DEF EpilogUnlinksSems, IpcOK
  <2> QED BY <1>11, <2>1, <2>2 DEF EpilogUnlinksSems, EfpOK
<1>12. CASE EpilogUnlinksRegion
  <2>1. HookOK' BY <1>12 DEF EpilogUnlinksRegion, HookOK, HookAt, Handles
  <2> QED BY <1>12, <2>1 DEF EpilogUnlinksRegion, IpcOK, EfpOK
<1> QED BY <1>1, <1>2, <1>3, <1>4, <1>5, <1>6, <1>7, <1>8, <1>9, <1>10, <1>11, <1>12 DEF EpilogStep

LEMMA EfpTyped == ASSUME TypeOK, NEW r \in Runs, EfpStep(r) PROVE TypeOK'
<1> USE BoundsAssumption DEF TypeOK, hooks, slurmd, ipc
<1> USE DEF EfpMoves
<1>1. CASE EfpOpensInit(r)
  <2>1. name["init"] \in 0..MaxRuns BY DEF IpcOK, Names
  <2>2. efp' \in [Runs -> EfpAt] BY <1>1 DEF EfpOpensInit, EfpOK, EfpAt, Alive
  <2>3. held' \in [Runs -> [Sems -> 0..MaxRuns]] BY <1>1, <2>1, HeldTyped DEF EfpOpensInit, EfpOK
  <2> QED BY <1>1, <2>2, <2>3 DEF EfpOpensInit, HookOK, IpcOK, EfpOK
<1>2. ASSUME NEW s \in Sems, NEW from, NEW to \in EfpAt, EfpMakes(r, s, from, to) PROVE TypeOK'
  <2>1. EfpOK'
    <3>1. efp' \in [Runs -> EfpAt] BY <1>2 DEF EfpMakes, EfpOK, EfpAt, Alive
    <3>2. held' = [held EXCEPT ![r][s] = r] \/ held' = held BY <1>2 DEF EfpMakes, Created
    <3>3. r \in 0..MaxRuns OBVIOUS
    <3>4. held' \in [Runs -> [Sems -> 0..MaxRuns]] BY <3>2, <3>3, HeldTyped DEF EfpOK
    <3> QED BY <3>1, <3>4 DEF EfpOK
  <2>2. name' \in Names /\ val' \in Values
    BY <1>2, NewSemTyped, UnlinkTyped DEF EfpMakes, IpcOK
  <2> QED BY <1>2, <2>1, <2>2 DEF EfpMakes, HookOK, IpcOK
<1>3. CASE EfpMakesResume(r) BY <1>2, <1>3 DEF EfpMakesResume, EfpAt, Alive
<1>4. CASE EfpMakesExit(r) BY <1>2, <1>4 DEF EfpMakesExit, EfpAt, Alive
<1>5. CASE EfpInits(r)
  <2>1. IpcOK' BY <1>5, PostTyped DEF EfpInits, IpcOK
  <2>2. EfpOK' BY <1>5 DEF EfpInits, EfpOK, EfpAt, Alive
  <2> QED BY <1>5, <2>1, <2>2 DEF EfpInits, HookOK
<1>6. CASE EfpReadsBaseline(r)
  <2>1. EfpOK' BY <1>6 DEF EfpReadsBaseline, EfpOK, EfpAt, Alive
  <2> QED BY <1>6, <2>1 DEF EfpReadsBaseline, HookOK, IpcOK
<1>7. CASE EfpResumes(r)
  <2>1. IpcOK' BY <1>7, TakeTyped DEF EfpResumes, IpcOK
  <2>2. EfpOK' BY <1>7 DEF EfpResumes, EfpOK, EfpAt, Alive
  <2> QED BY <1>7, <2>1, <2>2 DEF EfpResumes, HookOK
<1>8. CASE EfpInterrupted(r)
  <2>1. EfpOK' BY <1>8 DEF EfpInterrupted, EfpOK, EfpAt, Alive
  <2> QED BY <1>8, <2>1 DEF EfpInterrupted, HookOK, IpcOK
<1>9. CASE EfpRecords(r)
  <2>1. EfpOK' BY <1>9 DEF EfpRecords, EfpOK, EfpAt, Alive
  <2> QED BY <1>9, <2>1 DEF EfpRecords, HookOK, IpcOK
<1>10. CASE EfpPostsExit(r)
  <2>1. IpcOK' BY <1>10, PostTyped DEF EfpPostsExit, IpcOK
  <2>2. EfpOK' BY <1>10 DEF EfpPostsExit, EfpOK, EfpAt, Alive
  <2> QED BY <1>10, <2>1, <2>2 DEF EfpPostsExit, HookOK
<1>11. CASE EfpFails(r)
  <2>1. EfpOK' BY <1>11 DEF EfpFails, EfpOK, EfpAt, Alive
  <2> QED BY <1>11, <2>1 DEF EfpFails, HookOK, IpcOK
<1>12. CASE EfpEnds(r)
  <2>1. EfpOK' BY <1>12 DEF EfpEnds, Ended, EfpOK, EfpAt
  <2> QED BY <1>12, <2>1 DEF EfpEnds, HookOK, IpcOK
<1> QED BY <1>1, <1>3, <1>4, <1>5, <1>6, <1>7, <1>8, <1>9, <1>10, <1>11, <1>12 DEF EfpStep

LEMMA SlurmdTyped == TypeOK /\ SlurmdStep => TypeOK'
<1> SUFFICES ASSUME TypeOK, SlurmdStep PROVE TypeOK' OBVIOUS
<1> USE BoundsAssumption DEF TypeOK, hooks, slurmd, ipc, efps
<1>1. CASE SlurmdDies
  <2>1. HookOK'
    <3>1. Due \in HookAt BY DEF Due, HookOK, HookAt
    <3>2. h' \in Handles BY <1>1 DEF SlurmdDies, Return, NoHandles, Handles
    <3>3. restarts' \in 0..MaxRestarts BY <1>1 DEF SlurmdDies, HookOK
    <3>4. rc' \in {"none", "success", "error", "skipped"} BY <1>1 DEF SlurmdDies, Return, HookOK
    <3>5. run' \in 0..MaxRuns /\ hook' \in HookAt
      BY <1>1, <3>1 DEF SlurmdDies, Return, HookOK
    <3>6. polls' \in 0..WaitPolls BY <1>1 DEF SlurmdDies, Return
    <3>7. up' \in BOOLEAN /\ interrupted' \in BOOLEAN BY <1>1 DEF SlurmdDies, HookOK
    <3>8. cut' \subseteq 0..MaxRuns
      <4>1. cut' = cut \union (IF hook \in PrologAt THEN {run} ELSE {}) BY <1>1 DEF SlurmdDies
      <4>2. cut \subseteq 0..MaxRuns /\ run \in 0..MaxRuns BY DEF HookOK
      <4> QED BY <4>1, <4>2
    <3> QED BY <3>2, <3>3, <3>4, <3>5, <3>6, <3>7, <3>8 DEF HookOK
  <2>2. EfpOK' BY <1>1 DEF SlurmdDies, EfpOK, EfpAt
  <2> QED BY <1>1, <2>1, <2>2 DEF SlurmdDies, IpcOK
<1>2. CASE SlurmdStarts BY <1>2 DEF SlurmdStarts, HookOK, IpcOK, EfpOK
<1>3. ASSUME NEW r \in Runs, OperatorKills(r) PROVE TypeOK'
  <2>1. EfpOK' BY <1>3, KillTyped DEF OperatorKills, EfpOK
  <2> QED BY <1>3, <2>1 DEF OperatorKills, HookOK, IpcOK
<1> QED BY <1>1, <1>2, <1>3 DEF SlurmdStep

LEMMA NextTyped == TypeOK /\ [Next]_vars => TypeOK'
<1> SUFFICES ASSUME TypeOK, [Next]_vars PROVE TypeOK' OBVIOUS
<1>1. CASE PrologStep BY <1>1, PrologTyped
<1>2. CASE JobEnds
  BY <1>2 DEF JobEnds, Goto, TypeOK, HookOK, IpcOK, EfpOK, HookAt, slurmd, ipc, efps
<1>3. CASE EpilogStep BY <1>3, EpilogTyped
<1>4. CASE SlurmdStep BY <1>4, SlurmdTyped
<1>5. CASE \E r \in Runs : EfpStep(r) BY <1>5, EfpTyped
<1>6. CASE UNCHANGED vars
  BY <1>6 DEF vars, hooks, slurmd, ipc, efps, TypeOK, HookOK, IpcOK, EfpOK
<1> QED BY <1>1, <1>2, <1>3, <1>4, <1>5, <1>6 DEF Next, Finished

\* No step leaves the variables' types: in particular no semaphore's value ever
\* goes below 0 and every handle a hook or an EFP holds is a run's object or none.
THEOREM TypeCorrect == Spec => []TypeOK
<1>1. Init => TypeOK BY InitTyped
<1>2. TypeOK /\ [Next]_vars => TypeOK' BY NextTyped
<1> QED BY <1>1, <1>2, PTL DEF Spec

-----------------------------------------------------------------------------
(* SIGKILL.                                                                *)

LEMMA InitSignal == Init => SignalInv
  BY BoundsAssumption DEF Init, SignalInv, PrologAt, EpilogAt

LEMMA PrologSignal == TypeOK /\ SignalInv /\ PrologStep => SignalInv'
<1> SUFFICES ASSUME TypeOK, SignalInv, PrologStep PROVE SignalInv' OBVIOUS
<1> USE BoundsAssumption DEF TypeOK, hooks, slurmd, ipc, efps, At, Goto, Return
<1>1. CASE PrologFails
  BY <1>1 DEF PrologFails, SignalInv, Forked, Unreaped, HookOK, EpilogAt
<1>2. CASE PrologCreatesRegion
  <2>1. /\ run' \in Runs /\ hook' \in {"p_mark", "ended"} /\ shm' \in {NoRegion, 0}
        /\ UNCHANGED <<up, restarts, efp>>
    BY <1>2 DEF PrologCreatesRegion, HookOK
  <2> QED BY <2>1 DEF SignalInv, PrologAt, EpilogAt
<1>3. CASE PrologMarks
  BY <1>3 DEF PrologMarks, SignalInv, Forked, Unreaped, HookOK, EpilogAt
<1>4. CASE PrologOpensSem
  BY <1>4 DEF PrologOpensSem, SignalInv, Forked, Unreaped, HookOK, EpilogAt
<1>5. CASE PrologForks
  <2>1. /\ run' = run /\ run \in Runs /\ hook' \in {"p_wait", "p_wait_untimed", "ended"}
        /\ UNCHANGED <<up, restarts, shm>>
        /\ \/ efp' = [efp EXCEPT ![run] = "boot"]
           \/ efp' = efp /\ hook' = "ended"
    BY <1>5 DEF PrologForks, SignalInv
  <2>2. \A r \in Runs : efp'[r] = efp[r] \/ efp'[r] = "boot" BY <2>1 DEF EfpOK
  <2>3. shm > 0 => Forked(shm)' /\ Unreaped(shm)' 
    BY <1>5, <2>1, <2>2 DEF PrologForks, SignalInv, HookOK, IpcOK, Forked, Unreaped
  <2>4. hook' # "ended" => Forked(run)' /\ Unreaped(run)'
    BY <2>1 DEF EfpOK, Forked, Unreaped
  <2> QED BY <2>1, <2>3, <2>4 DEF SignalInv, EpilogAt
<1>6. CASE PrologReleased
  BY <1>6 DEF PrologReleased, SignalInv, Forked, Unreaped, HookOK, EpilogAt
<1>7. CASE PrologInterrupted
  BY <1>7 DEF PrologInterrupted, SignalInv, Forked, Unreaped, HookOK, EpilogAt
<1>8. CASE PrologTimesOut
  BY <1>8 DEF PrologTimesOut, SignalInv, Forked, Unreaped, HookOK, EpilogAt
<1>9. CASE PrologKills
  BY <1>9 DEF PrologKills, SignalInv, Forked, Unreaped, HookOK, EpilogAt, Kill, EfpOK, IpcOK
<1>10. CASE PrologPublishes
  BY <1>10 DEF PrologPublishes, SignalInv, Forked, Unreaped, HookOK, EpilogAt
<1>11. CASE PrologCloses
  BY <1>11 DEF PrologCloses, SignalInv, Forked, Unreaped, HookOK, EpilogAt
<1> QED BY <1>1, <1>2, <1>3, <1>4, <1>5, <1>6, <1>7, <1>8, <1>9, <1>10, <1>11 DEF PrologStep

LEMMA EpilogSignal == TypeOK /\ SignalInv /\ EpilogStep => SignalInv'
<1> SUFFICES ASSUME TypeOK, SignalInv, EpilogStep PROVE SignalInv' OBVIOUS
<1> USE BoundsAssumption DEF TypeOK, hooks, slurmd, ipc, efps, At, Goto, Return
<1>1. CASE EpilogSkipped
  BY <1>1 DEF EpilogSkipped, SignalInv, Forked, Unreaped, HookOK, EpilogAt
<1>2. CASE EpilogOpensRegion
  <2>1. CASE hook' = "e_resume"
    <3>1. /\ shm' = shm /\ shm > 0 /\ h'.pid = shm
          /\ UNCHANGED <<run, up, restarts, efp>>
      BY <1>2, <2>1 DEF EpilogOpensRegion, NamesAnEfp, HookOK, Handles
    <3> QED BY <1>2, <2>1, <3>1 DEF EpilogOpensRegion, SignalInv, Forked, Unreaped, EpilogAt
  <2>2. CASE hook' = "idle" /\ shm' \in {shm, NoRegion}
    BY <1>2, <2>2 DEF EpilogOpensRegion, SignalInv, Forked, Unreaped, EpilogAt
  <2> QED BY <1>2, <2>1, <2>2 DEF EpilogOpensRegion
<1>3. CASE EpilogOpensResume
  <2>1. CASE hook' = "e_exit"
    <3>1. UNCHANGED <<run, shm, up, restarts, efp>> /\ h'.pid = h.pid
      BY <1>3, <2>1 DEF EpilogOpensResume, EpilogGivesUp, HookOK, Handles
    <3> QED BY <1>3, <2>1, <3>1 DEF EpilogOpensResume, SignalInv, Forked, Unreaped, EpilogAt
  <2>2. CASE hook' = "idle" /\ shm' = NoRegion
    BY <1>3, <2>2 DEF EpilogOpensResume, SignalInv, EpilogAt
  <2> QED BY <1>3, <2>1, <2>2 DEF EpilogOpensResume, EpilogGivesUp
<1>4. CASE EpilogOpensExit
  <2>1. CASE hook' = "e_post"
    <3>1. UNCHANGED <<run, shm, up, restarts, efp>> /\ h'.pid = h.pid
      BY <1>4, <2>1 DEF EpilogOpensExit, EpilogGivesUp, HookOK, Handles
    <3> QED BY <1>4, <2>1, <3>1 DEF EpilogOpensExit, SignalInv, Forked, Unreaped, EpilogAt
  <2>2. CASE hook' = "idle" /\ shm' = NoRegion
    BY <1>4, <2>2 DEF EpilogOpensExit, SignalInv, EpilogAt
  <2> QED BY <1>4, <2>1, <2>2 DEF EpilogOpensExit, EpilogGivesUp
<1>5. CASE EpilogPosts
  <2>1. CASE hook' = "e_wait" 
    BY <1>5, <2>1 DEF EpilogPosts, SignalInv, Forked, Unreaped, EpilogAt
  <2>2. CASE hook' = "idle" /\ shm' = NoRegion
    BY <1>5, <2>2 DEF EpilogPosts, SignalInv, EpilogAt
  <2> QED BY <1>5, <2>1, <2>2 DEF EpilogPosts
<1>6. CASE EpilogReleased
  BY <1>6 DEF EpilogReleased, SignalInv, Forked, Unreaped, HookOK, EpilogAt
<1>7. CASE EpilogInterrupted
  BY <1>7 DEF EpilogInterrupted, SignalInv, Forked, Unreaped, HookOK, EpilogAt
<1>8. CASE EpilogTimesOut
  BY <1>8 DEF EpilogTimesOut, SignalInv, Forked, Unreaped, HookOK, EpilogAt
<1>9. CASE EpilogKills
  BY <1>9 DEF EpilogKills, SignalInv, Forked, Unreaped, HookOK, EpilogAt, Kill, EfpOK, IpcOK
<1>10. CASE EpilogReaps
  <2>1. /\ UNCHANGED <<run, shm, h, up, restarts>>
        /\ \A r \in Runs : efp'[r] = efp[r] \/ (efp'[r] = "gone" /\ efp[r] # "none" /\ hook' = "e_clean")
        /\ hook' \in {"e_reap", "e_clean"} /\ hook = "e_reap"
    BY <1>10 DEF EpilogReaps, EfpOK
  <2>2. h.pid \in Runs /\ (shm > 0 => shm \in Runs) BY <2>1 DEF SignalInv, HookOK, Forked, EpilogAt
  <2>3. \A r \in Runs : Forked(r) => Forked(r)' BY <2>1 DEF Forked
  <2>4. \A r \in Runs : hook' = "e_reap" => (Unreaped(r) => Unreaped(r)') BY <2>1 DEF Unreaped
  <2>5. hook' \notin {"p_wait", "p_wait_untimed", "p_kill", "p_publish", "p_close"}
    BY <2>1
  <2>6. SignalInv!1' /\ SignalInv!2' BY <2>1 DEF SignalInv
  <2>7. (shm > 0 => Forked(shm) /\ (hook \in {"e_clean", "e_region"} \/ Unreaped(shm)))'
    BY <2>1, <2>2, <2>3, <2>4 DEF SignalInv
  <2>8. (Forked(h.pid) /\ (hook \in {"e_clean", "e_region"} \/ Unreaped(h.pid)))'
    BY <2>1, <2>2, <2>3, <2>4 DEF SignalInv, EpilogAt
  <2> QED BY <2>5, <2>6, <2>7, <2>8 DEF SignalInv
<1>11. CASE EpilogUnlinksSems
  BY <1>11 DEF EpilogUnlinksSems, SignalInv, Forked, Unreaped, HookOK, EpilogAt
<1>12. CASE EpilogUnlinksRegion
  BY <1>12 DEF EpilogUnlinksRegion, SignalInv, Forked, Unreaped, HookOK, EpilogAt
<1> QED BY <1>1, <1>2, <1>3, <1>4, <1>5, <1>6, <1>7, <1>8, <1>9, <1>10, <1>11, <1>12 DEF EpilogStep

\* An EFP's own step never makes its process "none" again, nor reaps it while
\* slurmd, its parent, is there.
LEMMA EfpForward == ASSUME TypeOK, up \/ restarts > 0, NEW r \in Runs, EfpStep(r)
                    PROVE  /\ UNCHANGED <<run, hook, h, shm, up, restarts>>
                           /\ \A p \in Runs : efp[p] # "none" => efp'[p] # "none"
                           /\ \A p \in Runs : restarts = 0 /\ efp[p] # "gone" => efp'[p] # "gone"
<1> USE DEF TypeOK, EfpOK, hooks, slurmd, ipc, EfpMoves
<1>1. UNCHANGED <<run, hook, h, shm, up, restarts>>
  BY DEF EfpStep, EfpOpensInit, EfpMakesResume, EfpMakesExit, EfpMakes, EfpInits,
         EfpReadsBaseline, EfpResumes, EfpInterrupted, EfpRecords, EfpPostsExit, EfpFails, EfpEnds
<1>2. \E to \in EfpAt : efp' = [efp EXCEPT ![r] = to] /\ (to \notin {"none", "gone"} \/ to = Ended)
  <2> USE DEF EfpAt, Alive
  <2>1. CASE EfpOpensInit(r) BY <2>1 DEF EfpOpensInit
  <2>2. CASE EfpMakesResume(r) \/ EfpMakesExit(r)
    BY <2>2 DEF EfpMakesResume, EfpMakesExit, EfpMakes
  <2>3. CASE EfpInits(r) \/ EfpReadsBaseline(r)
    BY <2>3 DEF EfpInits, EfpReadsBaseline
  <2>4. CASE EfpResumes(r) \/ EfpInterrupted(r)
    BY <2>4 DEF EfpResumes, EfpInterrupted
  <2>5. CASE EfpRecords(r) \/ EfpPostsExit(r) \/ EfpFails(r)
    BY <2>5 DEF EfpRecords, EfpPostsExit, EfpFails
  <2>6. CASE EfpEnds(r) BY <2>6 DEF EfpEnds, Ended
  <2> QED BY <2>1, <2>2, <2>3, <2>4, <2>5, <2>6 DEF EfpStep
<1>3. Ended # "none" /\ (restarts = 0 => Ended # "gone")
  BY DEF Ended, HookOK
<1>4. PICK to \in EfpAt : efp' = [efp EXCEPT ![r] = to] /\ (to \notin {"none", "gone"} \/ to = Ended)
  BY <1>2
<1>5. \A p \in Runs : efp'[p] = efp[p] \/ efp'[p] = to
  BY <1>4
<1>6. to # "none" /\ (restarts = 0 => to # "gone")
  BY <1>3, <1>4
<1>7. \A p \in Runs : efp[p] # "none" => efp'[p] # "none"
  BY <1>5, <1>6
<1>8. \A p \in Runs : restarts = 0 /\ efp[p] # "gone" => efp'[p] # "gone"
  BY <1>5, <1>6
<1> QED BY <1>1, <1>7, <1>8

LEMMA EfpSignal == ASSUME TypeOK, SignalInv, NEW r \in Runs, EfpStep(r) PROVE SignalInv'
<1>1. /\ UNCHANGED <<run, hook, h, shm, up, restarts>>
      /\ \A p \in Runs : efp[p] # "none" => efp'[p] # "none"
      /\ \A p \in Runs : restarts = 0 /\ efp[p] # "gone" => efp'[p] # "gone"
  BY EfpForward DEF SignalInv
<1>2. \A p \in Runs : (Forked(p) => Forked(p)') /\ (Unreaped(p) => Unreaped(p)')
  BY <1>1 DEF Forked, Unreaped
<1>3. \A p : Forked(p) => p \in Runs
  BY BoundsAssumption DEF Forked, TypeOK, HookOK
<1> QED BY <1>1, <1>2, <1>3 DEF SignalInv, TypeOK, HookOK

LEMMA SlurmdSignal == TypeOK /\ SignalInv /\ SlurmdStep => SignalInv'
<1> SUFFICES ASSUME TypeOK, SignalInv, SlurmdStep PROVE SignalInv' OBVIOUS
<1> USE BoundsAssumption DEF TypeOK, hooks, slurmd, ipc, efps
<1>1. CASE SlurmdDies
  <2>1. /\ run' = run /\ shm' = shm /\ hook' \in {"idle", "running", "ended"} /\ restarts' > 0
        /\ (hook = "idle" => hook' = "idle")
    BY <1>1 DEF SlurmdDies, Due, Return, HookOK
  <2>2. \A p \in Runs : efp[p] # "none" => efp'[p] # "none"
    BY <1>1 DEF SlurmdDies, EfpOK
  <2>3. shm > 0 => Forked(shm)'
    BY <2>1, <2>2 DEF SignalInv, Forked, HookOK
  <2> QED BY <2>1, <2>3 DEF SignalInv, Unreaped, EpilogAt, HookOK
<1>2. CASE SlurmdStarts
  BY <1>2 DEF SlurmdStarts, SignalInv, Forked, Unreaped
<1>3. ASSUME NEW r \in Runs, OperatorKills(r) PROVE SignalInv'
  BY <1>3 DEF OperatorKills, Kill, SignalInv, Forked, Unreaped, EfpOK, HookOK, IpcOK
<1> QED BY <1>1, <1>2, <1>3 DEF SlurmdStep

LEMMA NextSignal == TypeOK /\ SignalInv /\ [Next]_vars => SignalInv'
<1> SUFFICES ASSUME TypeOK, SignalInv, [Next]_vars PROVE SignalInv' OBVIOUS
<1>1. CASE PrologStep BY <1>1, PrologSignal
<1>2. CASE JobEnds
  BY <1>2 DEF JobEnds, Goto, TypeOK, SignalInv, Forked, Unreaped, EpilogAt, slurmd, ipc, efps
<1>3. CASE EpilogStep BY <1>3, EpilogSignal
<1>4. CASE SlurmdStep BY <1>4, SlurmdSignal
<1>5. CASE \E r \in Runs : EfpStep(r) BY <1>5, EfpSignal
<1>6. CASE UNCHANGED vars
  BY <1>6 DEF vars, hooks, slurmd, ipc, efps, SignalInv, Forked, Unreaped
<1> QED BY <1>1, <1>2, <1>3, <1>4, <1>5, <1>6 DEF Next, Finished

\* The pids that are published, read or about to be used are those of EFPs.
THEOREM SignalInvariant == Spec => []SignalInv
<1>1. Init => SignalInv BY InitSignal
<1>2. TypeOK /\ SignalInv /\ [Next]_vars => SignalInv' BY NextSignal
<1> QED BY <1>1, <1>2, TypeCorrect, PTL DEF Spec

\* Whatever the bounds and whatever fails, the hooks send SIGKILL only to the pid
\* of an EFP that a prolog of the job forked: never to 0, to -1 or to garbage.
THEOREM KillsAnEfp == Spec => []KillTargetsAnEfp
<1>1. SignalInv => KillTargetsAnEfp
  BY DEF SignalInv, KillTargetsAnEfp, At, Forked, EpilogAt
<1> QED BY <1>1, SignalInvariant, PTL

\* Until slurmd is restarted for the first time, no process but the EFP meant
\* can be hit: nobody has waited for it, so its pid is not free.
THEOREM NeverStray == Spec => []NoStraySignal
<1>1. SignalInv => NoStraySignal
  BY DEF SignalInv, NoStraySignal, At, Unreaped, EpilogAt
<1> QED BY <1>1, SignalInvariant, PTL

-----------------------------------------------------------------------------
(* Semaphores: until a signal interrupts a wait the runs of a job id do    *)
(* not meet.                                                               *)

(* What the operators on semaphores and processes do, value by value.      *)

LEMMA NewSemValues ==
    ASSUME name \in Names, val \in Values, NEW s \in Sems, NEW k \in Runs, NewSem(s, k)
    PROVE  /\ \A t \in Sems : name'[t] = IF t = s THEN k ELSE name[t]
           /\ \A t \in Sems, r \in Runs :
                 val'[t][r] = IF t = s /\ r = k THEN 0 ELSE val[t][r]
  BY DEF NewSem, Created, Names, Values

LEMMA UnlinkValues ==
    ASSUME NEW S, Unlink(S)
    PROVE  \A t \in Sems : name'[t] = IF t \in S THEN 0 ELSE name[t]
  BY DEF Unlink

LEMMA PostValues ==
    ASSUME val \in Values, NEW s \in Sems, NEW k, Post(s, k)
    PROVE  \A t \in Sems, r \in Runs :
              val'[t][r] = IF t = s /\ r = k THEN val[t][r] + 1 ELSE val[t][r]
  BY DEF Post, Values

LEMMA TakeValues ==
    ASSUME val \in Values, NEW s \in Sems, NEW k, Take(s, k)
    PROVE  /\ val[s][k] > 0
           /\ \A t \in Sems, r \in Runs :
                 /\ val'[t][r] = IF t = s /\ r = k THEN val[t][r] - 1 ELSE val[t][r]
                 /\ val[t][r] \in Nat
  BY DEF Take, Values

LEMMA KillValues ==
    ASSUME NEW p, Kill(p)
    PROVE  \A r \in Runs : efp'[r] = IF r = p /\ efp[r] \in Alive THEN "dying" ELSE efp[r]
  BY DEF Kill

-----------------------------------------------------------------------------
(* Objects: each is used by the run that made it only.                     *)

LEMMA InitObjects == Init => ObjectsInv
  BY BoundsAssumption DEF Init, NoHandles, ObjectsInv, Making, Resumable, Working, Alive

LEMMA PrologObjects == TypeOK /\ SemInv /\ ~interrupted' /\ PrologStep => ObjectsInv'
<1> SUFFICES ASSUME TypeOK, SemInv, ~interrupted', PrologStep PROVE ObjectsInv' OBVIOUS
<1> USE BoundsAssumption DEF TypeOK, SemInv, hooks, slurmd, ipc, efps, At, Goto, Return
<1>1. CASE PrologFails
  BY <1>1 DEF PrologFails, ObjectsInv, HookOK
<1>2. CASE PrologCreatesRegion
  BY <1>2 DEF PrologCreatesRegion, ObjectsInv, HookOK
<1>3. CASE PrologMarks
  BY <1>3 DEF PrologMarks, ObjectsInv, HookOK
<1>4. CASE PrologOpensSem
  <2>1. run \in Runs /\ hook = "p_sem" /\ run' = run /\ efp' = efp /\ held' = held
    BY <1>4 DEF PrologOpensSem, SignalInv
  <2>2. CASE NewSem("init", run) /\ h' = [h EXCEPT !.init = run] /\ hook' = "p_fork"
    <3>1. /\ \A t \in Sems : name'[t] = IF t = "init" THEN run ELSE name[t]
          /\ \A t \in Sems, r \in Runs :
                val'[t][r] = IF t = "init" /\ r = run THEN 0 ELSE val[t][r]
      BY <2>1, <2>2, NewSemValues DEF IpcOK
    <3>2. h'.init = run
      BY <2>2 DEF HookOK, Handles
    <3>3. \A r \in Runs : efp[r] # "boot"
      BY <1>4 DEF PrologOpensSem, NamesInv, Making
    <3> QED BY <2>1, <2>2, <3>1, <3>2, <3>3 DEF ObjectsInv, HookOK
  <2>3. CASE Unlink({"init"}) /\ hook' = "ended" /\ val' = val
    BY <2>1, <2>3, UnlinkValues DEF ObjectsInv, HookOK
  <2> QED BY <1>4, <2>2, <2>3 DEF PrologOpensSem, Created
<1>5. CASE PrologForks
  <2>1. CASE efp' = efp
    BY <1>5, <2>1, UnlinkValues DEF PrologForks, ObjectsInv, HookOK
  <2>2. CASE /\ efp' = [efp EXCEPT ![run] = "boot"]
             /\ UNCHANGED <<h, name>>
             /\ hook' \in {"p_wait", "p_wait_untimed"}
    <3>1. /\ run \in Runs /\ efp[run] = "none" /\ name["init"] = run
          /\ hook' \in {"p_wait", "p_wait_untimed"} /\ h.init = run
          /\ UNCHANGED <<run, val, held>>
      BY <1>5, <2>2 DEF PrologForks, SignalInv, ObjectsInv, HookOK
    <3>2. \A r \in Runs : efp'[r] = IF r = run THEN "boot" ELSE efp[r]
      BY <2>2, <3>1 DEF EfpOK
    <3> QED BY <1>5, <2>2, <3>1, <3>2 DEF ObjectsInv, Making, Working, Alive, Resumable, HookOK
  <2> QED BY <1>5, <2>1, <2>2 DEF PrologForks
<1>6. CASE PrologReleased
  BY <1>6, TakeValues DEF PrologReleased, ObjectsInv, HookOK, IpcOK
<1>7. CASE PrologInterrupted
  BY <1>7 DEF PrologInterrupted
<1>8. CASE PrologTimesOut
  BY <1>8 DEF PrologTimesOut, ObjectsInv, HookOK
<1>9. CASE PrologKills
  BY <1>9, KillValues, UnlinkValues DEF PrologKills, ObjectsInv, HookOK, Making, Resumable, Working, Alive
<1>10. CASE PrologPublishes
  BY <1>10 DEF PrologPublishes, ObjectsInv, HookOK
<1>11. CASE PrologCloses
  BY <1>11, UnlinkValues DEF PrologCloses, ObjectsInv, HookOK
<1> QED BY <1>1, <1>2, <1>3, <1>4, <1>5, <1>6, <1>7, <1>8, <1>9, <1>10, <1>11 DEF PrologStep

LEMMA EpilogObjects == TypeOK /\ SemInv /\ ~interrupted' /\ EpilogStep => ObjectsInv'
<1> SUFFICES ASSUME TypeOK, SemInv, ~interrupted', EpilogStep PROVE ObjectsInv' OBVIOUS
<1> USE BoundsAssumption DEF TypeOK, SemInv, hooks, slurmd, ipc, efps, At, Goto, Return
<1>1. CASE EpilogSkipped
  BY <1>1 DEF EpilogSkipped, ObjectsInv, HookOK
<1>2. CASE EpilogOpensRegion
  BY <1>2 DEF EpilogOpensRegion, ObjectsInv, HookOK
<1>3. CASE EpilogOpensResume
  BY <1>3 DEF EpilogOpensResume, EpilogGivesUp, ObjectsInv, HookOK
<1>4. CASE EpilogOpensExit
  BY <1>4 DEF EpilogOpensExit, EpilogGivesUp, ObjectsInv, HookOK
<1>5. CASE EpilogPosts
  <2>1. /\ run' = run /\ efp' = efp /\ held' = held
        /\ hook = "e_post" /\ hook' \in {"e_wait", "idle"}
        /\ h.resume = h.pid /\ h.pid \in 1..run
    BY <1>5 DEF EpilogPosts, SignalInv, NamesInv, OneRun, EpilogAt, Forked
  <2>2. \A t \in Sems, r \in Runs :
           val'[t][r] = IF t = "efp" /\ r = h.resume THEN val[t][r] + 1 ELSE val[t][r]
    BY <1>5, PostValues DEF EpilogPosts, IpcOK
  <2>3. \A t \in Sems : name'[t] \in {0, name[t]}
    BY <1>5, UnlinkValues DEF EpilogPosts
  <2> QED BY <2>1, <2>2, <2>3 DEF ObjectsInv, HookOK
<1>6. CASE EpilogReleased
  <2>1. \A t \in Sems, r \in Runs :
           /\ val'[t][r] = IF t = "exit" /\ r = h.exit THEN val[t][r] - 1 ELSE val[t][r]
           /\ val[t][r] \in Nat
    BY <1>6, TakeValues DEF EpilogReleased, IpcOK
  <2> QED BY <1>6, <2>1 DEF EpilogReleased, ObjectsInv, HookOK
<1>7. CASE EpilogInterrupted
  BY <1>7 DEF EpilogInterrupted
<1>8. CASE EpilogTimesOut
  BY <1>8 DEF EpilogTimesOut, ObjectsInv, HookOK
<1>9. CASE EpilogKills
  BY <1>9, KillValues DEF EpilogKills, ObjectsInv, HookOK, Making, Resumable, Working, Alive
<1>10. CASE EpilogReaps
  <2>1. /\ UNCHANGED <<run, h, name, val, held>>
        /\ hook' \in {"e_reap", "e_clean"}
        /\ \A r \in Runs : efp'[r] = efp[r] \/ (efp'[r] = "gone" /\ efp[r] # "none")
    BY <1>10 DEF EpilogReaps, EfpOK
  <2> QED BY <2>1 DEF ObjectsInv, HookOK, Making, Resumable, Working, Alive
<1>11. CASE EpilogUnlinksSems
  BY <1>11, UnlinkValues DEF EpilogUnlinksSems, ObjectsInv, HookOK
<1>12. CASE EpilogUnlinksRegion
  BY <1>12 DEF EpilogUnlinksRegion, ObjectsInv, HookOK
<1> QED BY <1>1, <1>2, <1>3, <1>4, <1>5, <1>6, <1>7, <1>8, <1>9, <1>10, <1>11, <1>12 DEF EpilogStep

\* How an EFP's own step changes its state, and that it changes nobody else's.
LEMMA EfpMoved ==
    ASSUME EfpOK, NEW r \in Runs, NEW from, NEW to, EfpMoves(r, from, to)
    PROVE  efp[r] = from /\ \A p \in Runs : efp'[p] = IF p = r THEN to ELSE efp[p]
  BY DEF EfpMoves, EfpOK

LEMMA EfpObjects == ASSUME TypeOK, SemInv, ~interrupted', NEW r \in Runs, EfpStep(r)
                    PROVE  ObjectsInv'
<1> USE BoundsAssumption DEF TypeOK, SemInv, hooks, slurmd, ipc, Making, Resumable, Working, Alive
<1>0. ASSUME efp[r] # "none" PROVE r <= run /\ r # 0 /\ 0 \notin Runs
  BY <1>0 DEF ObjectsInv, HookOK
<1>1. CASE EfpOpensInit(r)
  <2>1. CASE EfpMoves(r, "boot", "mk_efp") /\ held' = [held EXCEPT ![r]["init"] = name["init"]]
    <3>1. efp[r] = "boot" /\ \A p \in Runs : efp'[p] = IF p = r THEN "mk_efp" ELSE efp[p]
      BY <2>1, EfpMoved
    <3>2. \A p \in Runs, t \in Sems :
             held'[p][t] = IF p = r /\ t = "init" THEN name["init"] ELSE held[p][t]
      BY <2>1 DEF EfpOK
    <3> QED BY <1>1, <3>1, <3>2 DEF EfpOpensInit, ObjectsInv, HookOK
  <2>2. CASE EfpMoves(r, "boot", "exiting") /\ held' = held
    BY <1>1, <2>2, EfpMoved DEF EfpOpensInit, ObjectsInv, HookOK
  <2> QED BY <1>1, <2>1, <2>2 DEF EfpOpensInit
<1>2. ASSUME NEW s \in {"efp", "exit"}, NEW from \in Making, NEW to \in {"mk_exit", "setup"},
             EfpMakes(r, s, from, to),
             s = "exit" => from \in Resumable
      PROVE  ObjectsInv'
  <2>1. CASE EfpMoves(r, from, to) /\ NewSem(s, r) /\ held' = [held EXCEPT ![r][s] = r]
    <3>1. efp[r] = from /\ \A p \in Runs : efp'[p] = IF p = r THEN to ELSE efp[p]
      BY <2>1, EfpMoved
    <3>2. \A p \in Runs, t \in Sems : held'[p][t] = IF p = r /\ t = s THEN r ELSE held[p][t]
      BY <2>1 DEF EfpOK
    <3>3. /\ \A t \in Sems : name'[t] = IF t = s THEN r ELSE name[t]
          /\ \A t \in Sems, p \in Runs : val'[t][p] = IF t = s /\ p = r THEN 0 ELSE val[t][p]
      BY <2>1, NewSemValues DEF IpcOK
    <3> QED BY <1>2, <1>0, <3>1, <3>2, <3>3 DEF EfpMakes, ObjectsInv, HookOK
  <2>2. CASE EfpMoves(r, from, "exiting") /\ Unlink({s}) /\ UNCHANGED <<val, held>>
    BY <1>2, <2>2, EfpMoved, UnlinkValues DEF EfpMakes, ObjectsInv, HookOK
  <2> QED BY <1>2, <2>1, <2>2 DEF EfpMakes, Created
<1>3. CASE EfpMakesResume(r) BY <1>2, <1>3 DEF EfpMakesResume
<1>4. CASE EfpMakesExit(r) BY <1>2, <1>4 DEF EfpMakesExit
<1>5. CASE EfpInits(r)
  <2>1. efp[r] = "setup" /\ \A p \in Runs : efp'[p] = IF p = r THEN "ready" ELSE efp[p]
    BY <1>5, EfpMoved DEF EfpInits
  <2>2. \A t \in Sems, p \in Runs :
           val'[t][p] = IF t = "init" /\ p = held[r]["init"] THEN val[t][p] + 1 ELSE val[t][p]
    BY <1>5, PostValues DEF EfpInits, IpcOK
  <2> QED BY <1>0, <1>5, <2>1, <2>2 DEF EfpInits, ObjectsInv, HookOK
<1>6. CASE EfpReadsBaseline(r)
  BY <1>6, EfpMoved DEF EfpReadsBaseline, ObjectsInv, HookOK
<1>7. CASE EfpResumes(r)
  <2>1. efp[r] = "wait" /\ \A p \in Runs : efp'[p] = IF p = r THEN "final" ELSE efp[p]
    BY <1>7, EfpMoved DEF EfpResumes
  <2>2. \A t \in Sems, p \in Runs :
           val'[t][p] = IF t = "efp" /\ p = held[r]["efp"] THEN val[t][p] - 1 ELSE val[t][p]
    BY <1>7, TakeValues DEF EfpResumes, IpcOK
  <2> QED BY <1>0, <1>7, <2>1, <2>2 DEF EfpResumes, ObjectsInv, HookOK
<1>8. CASE EfpInterrupted(r)
  BY <1>8 DEF EfpInterrupted
<1>9. CASE EfpRecords(r)
  BY <1>9, EfpMoved DEF EfpRecords, ObjectsInv, HookOK
<1>10. CASE EfpPostsExit(r)
  <2>1. efp[r] = "finish" /\ \A p \in Runs : efp'[p] = IF p = r THEN "exiting" ELSE efp[p]
    BY <1>10, EfpMoved DEF EfpPostsExit
  <2>2. \A t \in Sems, p \in Runs :
           val'[t][p] = IF t = "exit" /\ p = held[r]["exit"] THEN val[t][p] + 1 ELSE val[t][p]
    BY <1>10, PostValues DEF EfpPostsExit, IpcOK
  <2> QED BY <1>0, <1>10, <2>1, <2>2 DEF EfpPostsExit, ObjectsInv, HookOK
<1>11. CASE EfpFails(r)
  BY <1>11 DEF EfpFails, EfpOK, ObjectsInv, HookOK
<1>12. CASE EfpEnds(r)
  BY <1>12 DEF EfpEnds, Ended, EfpOK, ObjectsInv, HookOK
<1> QED BY <1>1, <1>3, <1>4, <1>5, <1>6, <1>7, <1>8, <1>9, <1>10, <1>11, <1>12 DEF EfpStep

LEMMA SlurmdObjects == TypeOK /\ SemInv /\ SlurmdStep => ObjectsInv'
<1> SUFFICES ASSUME TypeOK, SemInv, SlurmdStep PROVE ObjectsInv' OBVIOUS
<1> USE BoundsAssumption DEF TypeOK, SemInv, hooks, slurmd, ipc, efps, Making, Resumable, Working, Alive
<1>1. CASE SlurmdDies
  <2>1. /\ UNCHANGED <<run, name, val, held>> /\ hook' \in {"idle", "running", "ended"}
        /\ \A r \in Runs : efp'[r] = IF efp[r] = "zombie" THEN "gone" ELSE efp[r]
    BY <1>1 DEF SlurmdDies, Due, Return, HookOK
  <2> QED BY <2>1 DEF ObjectsInv, HookOK
<1>2. CASE SlurmdStarts
  BY <1>2 DEF SlurmdStarts, ObjectsInv, HookOK
<1>3. ASSUME NEW r \in Runs, OperatorKills(r) PROVE ObjectsInv'
  BY <1>3, KillValues DEF OperatorKills, ObjectsInv, HookOK
<1> QED BY <1>1, <1>2, <1>3 DEF SlurmdStep

-----------------------------------------------------------------------------
(* Names: they denote objects of the run whose pid can be read.            *)

LEMMA InitNames == Init => NamesInv
  BY BoundsAssumption DEF Init, NamesInv, Making, OneRun, EpilogAt

LEMMA PrologNames == TypeOK /\ SemInv /\ ~interrupted' /\ PrologStep => NamesInv'
<1> SUFFICES ASSUME TypeOK, SemInv, ~interrupted', PrologStep PROVE NamesInv' OBVIOUS
<1> USE BoundsAssumption DEF TypeOK, SemInv, hooks, slurmd, ipc, efps, At, Goto, Return
<1> USE DEF Making, OneRun, EpilogAt
<1>1. CASE PrologFails
  BY <1>1 DEF PrologFails, NamesInv
<1>2. CASE PrologCreatesRegion
  BY <1>2 DEF PrologCreatesRegion, NamesInv
<1>3. CASE PrologMarks
  BY <1>3 DEF PrologMarks, NamesInv
<1>4. CASE PrologOpensSem
  <2>1. /\ hook = "p_sem" /\ hook' \in {"p_fork", "ended"} /\ up
        /\ UNCHANGED <<run, shm, efp, up>>
    BY <1>4 DEF PrologOpensSem
  <2>2. name'["efp"] = name["efp"] /\ name'["exit"] = name["exit"]
    <3>1. CASE NewSem("init", run) BY <3>1 DEF NewSem, IpcOK, Names
    <3>2. CASE Unlink({"init"}) BY <3>2, UnlinkValues
    <3> QED BY <1>4, <3>1, <3>2 DEF PrologOpensSem
  <2> QED BY <2>1, <2>2 DEF NamesInv
<1>5. CASE PrologForks
  <2>1. /\ hook = "p_fork" /\ up /\ shm <= 0 /\ run \in Runs /\ efp[run] = "none"
        /\ val["init"][run] = 0
        /\ UNCHANGED <<run, shm, up, val>>
        /\ \A r \in Runs : efp[r] \notin Making
    BY <1>5 DEF PrologForks, NamesInv, SignalInv, ObjectsInv
  <2>2. CASE efp' = efp /\ hook' = "ended" /\ Unlink({"init"})
    BY <2>1, <2>2, UnlinkValues DEF NamesInv
  <2>3. CASE /\ efp' = [efp EXCEPT ![run] = "boot"] /\ name' = name
             /\ hook' \in {"p_wait", "p_wait_untimed"}
    <3>1. \A r \in Runs : efp'[r] = IF r = run THEN "boot" ELSE efp[r]
      BY <2>1, <2>3 DEF EfpOK
    <3> QED BY <2>1, <2>3, <3>1 DEF NamesInv
  <2> QED BY <1>5, <2>2, <2>3 DEF PrologForks
<1>6. CASE PrologReleased
  <2>1. /\ hook \in {"p_wait", "p_wait_untimed"} /\ hook' = "p_publish" /\ up
        /\ UNCHANGED <<run, shm, name, efp, up>>
        /\ h.init = run
    BY <1>6 DEF PrologReleased, ObjectsInv
  <2>2. val["init"][run] > 0
    BY <1>6, <2>1, TakeValues DEF PrologReleased, IpcOK
  <2>3. efp[run] \notin Making /\ name["efp"] \in {0, run} /\ name["exit"] \in {0, run}
    BY <2>1, <2>2 DEF NamesInv
  <2>4. \A r \in Runs : efp[r] \notin Making
    BY <2>1, <2>3 DEF NamesInv
  <2> QED BY <2>1, <2>3, <2>4 DEF NamesInv
<1>7. CASE PrologInterrupted
  BY <1>7 DEF PrologInterrupted
<1>8. CASE PrologTimesOut
  BY <1>8 DEF PrologTimesOut, NamesInv
<1>9. CASE PrologKills
  <2>1. /\ hook = "p_kill" /\ hook' = "ended" /\ up
        /\ UNCHANGED <<run, shm, up>>
        /\ name'["efp"] = name["efp"] /\ name'["exit"] = name["exit"]
    BY <1>9, UnlinkValues DEF PrologKills
  <2>2. \A r \in Runs : efp'[r] = IF r = run /\ efp[r] \in Alive THEN "dying" ELSE efp[r]
    BY <1>9, KillValues DEF PrologKills
  <2>3. \A r \in Runs : efp'[r] \notin Making
    BY <2>1, <2>2 DEF NamesInv, Alive
  <2> QED BY <2>1, <2>3 DEF NamesInv
<1>10. CASE PrologPublishes
  <2>1. /\ hook = "p_publish" /\ hook' = "p_close" /\ up /\ shm' = run
        /\ UNCHANGED <<run, name, efp, up>>
    BY <1>10 DEF PrologPublishes
  <2> QED BY <2>1 DEF NamesInv
<1>11. CASE PrologCloses
  <2>1. /\ hook = "p_close" /\ hook' = "running" /\ up
        /\ UNCHANGED <<run, shm, efp, up>>
        /\ name'["efp"] = name["efp"] /\ name'["exit"] = name["exit"]
    BY <1>11, UnlinkValues DEF PrologCloses
  <2> QED BY <2>1 DEF NamesInv
<1> QED BY <1>1, <1>2, <1>3, <1>4, <1>5, <1>6, <1>7, <1>8, <1>9, <1>10, <1>11 DEF PrologStep

LEMMA EpilogNames == TypeOK /\ SemInv /\ ~interrupted' /\ EpilogStep => NamesInv'
<1> SUFFICES ASSUME TypeOK, SemInv, ~interrupted', EpilogStep PROVE NamesInv' OBVIOUS
<1> USE BoundsAssumption DEF TypeOK, SemInv, hooks, slurmd, ipc, efps, At, Goto, Return
<1> USE DEF Making, OneRun, EpilogAt
<1>0. \A r \in Runs : efp[r] \notin Making
  <2>1. up /\ hook \in {"ended"} \union EpilogAt
    BY DEF EpilogStep, EpilogSkipped, EpilogOpensRegion, EpilogOpensResume, EpilogOpensExit,
           EpilogPosts, EpilogReleased, EpilogInterrupted, EpilogTimesOut, EpilogKills,
           EpilogReaps, EpilogUnlinksSems, EpilogUnlinksRegion
  <2> QED BY <2>1 DEF NamesInv
<1>1. CASE EpilogSkipped
  BY <1>0, <1>1 DEF EpilogSkipped, NamesInv
<1>2. CASE EpilogOpensRegion
  <2>1. CASE hook' = "idle" /\ shm' \in {shm, NoRegion}
    BY <1>0, <1>2, <2>1 DEF EpilogOpensRegion, NamesInv
  <2>2. CASE hook' = "e_resume" /\ h' = [h EXCEPT !.pid = shm] /\ shm' = shm
    <3>1. h'.pid = shm BY <2>2 DEF HookOK, Handles
    <3> QED BY <1>0, <1>2, <2>2, <3>1 DEF EpilogOpensRegion, NamesInv
  <2> QED BY <1>2, <2>1, <2>2 DEF EpilogOpensRegion
<1>3. CASE EpilogOpensResume
  <2>1. CASE hook' = "e_exit" /\ h' = [h EXCEPT !.resume = name["efp"]] /\ shm' = shm /\ Linked("efp")
    <3>1. h'.pid = h.pid /\ h'.resume = name["efp"] BY <2>1 DEF HookOK, Handles
    <3>2. name["efp"] = h.pid
      BY <1>3, <2>1 DEF EpilogOpensResume, NamesInv, SignalInv, Forked, Linked, HookOK
    <3> QED BY <1>0, <1>3, <2>1, <3>1, <3>2 DEF EpilogOpensResume, NamesInv
  <2>2. CASE hook' = "idle" /\ shm' = NoRegion
    BY <1>0, <1>3, <2>2 DEF EpilogOpensResume, NamesInv
  <2> QED BY <1>3, <2>1, <2>2 DEF EpilogOpensResume, EpilogGivesUp
<1>4. CASE EpilogOpensExit
  <2>1. CASE hook' = "e_post" /\ h' = [h EXCEPT !.exit = name["exit"]] /\ shm' = shm /\ Linked("exit")
    <3>1. h'.pid = h.pid /\ h'.resume = h.resume /\ h'.exit = name["exit"]
      BY <2>1 DEF HookOK, Handles
    <3>2. name["exit"] = h.pid
      BY <1>4, <2>1 DEF EpilogOpensExit, NamesInv, SignalInv, Forked, Linked, HookOK
    <3> QED BY <1>0, <1>4, <2>1, <3>1, <3>2 DEF EpilogOpensExit, NamesInv
  <2>2. CASE hook' = "idle" /\ shm' = NoRegion
    BY <1>0, <1>4, <2>2 DEF EpilogOpensExit, NamesInv
  <2> QED BY <1>4, <2>1, <2>2 DEF EpilogOpensExit, EpilogGivesUp
<1>5. CASE EpilogPosts
  <2>1. CASE hook' = "e_wait" /\ UNCHANGED <<h, shm, name>>
    BY <1>0, <1>5, <2>1 DEF EpilogPosts, NamesInv
  <2>2. CASE hook' = "idle" /\ shm' = NoRegion
    BY <1>0, <1>5, <2>2 DEF EpilogPosts, NamesInv
  <2> QED BY <1>5, <2>1, <2>2 DEF EpilogPosts
<1>6. CASE EpilogReleased
  BY <1>0, <1>6 DEF EpilogReleased, NamesInv
<1>7. CASE EpilogInterrupted
  BY <1>7 DEF EpilogInterrupted
<1>8. CASE EpilogTimesOut
  BY <1>0, <1>8 DEF EpilogTimesOut, NamesInv
<1>9. CASE EpilogKills
  <2>1. \A r \in Runs : efp'[r] \notin Making
    BY <1>0, <1>9, KillValues DEF EpilogKills
  <2> QED BY <1>9, <2>1 DEF EpilogKills, NamesInv
<1>10. CASE EpilogReaps
  <2>1. \A r \in Runs : efp'[r] \notin Making
    BY <1>0, <1>10 DEF EpilogReaps, EfpOK
  <2>2. /\ UNCHANGED <<run, h, shm, name>>
        /\ hook = "e_reap" /\ hook' \in {"e_reap", "e_clean"}
    BY <1>10 DEF EpilogReaps
  <2> QED BY <2>1, <2>2 DEF NamesInv
<1>11. CASE EpilogUnlinksSems
  BY <1>0, <1>11, UnlinkValues DEF EpilogUnlinksSems, NamesInv
<1>12. CASE EpilogUnlinksRegion
  BY <1>0, <1>12 DEF EpilogUnlinksRegion, NamesInv
<1> QED BY <1>1, <1>2, <1>3, <1>4, <1>5, <1>6, <1>7, <1>8, <1>9, <1>10, <1>11, <1>12 DEF EpilogStep

\* An EFP's step before it has let the prolog go, told from one after that.
LEMMA EfpNames == ASSUME TypeOK, SemInv, NEW r \in Runs, EfpStep(r)
                  PROVE  NamesInv'
<1> USE BoundsAssumption DEF TypeOK, SemInv, hooks, slurmd, ipc, Making, OneRun
<1>0. UNCHANGED <<run, hook, h, shm, up>>
  BY DEF EfpStep, EfpOpensInit, EfpMakesResume, EfpMakesExit, EfpMakes, EfpInits,
         EfpReadsBaseline, EfpResumes, EfpInterrupted, EfpRecords, EfpPostsExit, EfpFails, EfpEnds
\* Whoever neither makes names, posts proceed_init nor enters Making keeps all.
<1>a. ASSUME name' = name,
             NEW to \in EfpAt \ Making, \A p \in Runs : efp'[p] = IF p = r THEN to ELSE efp[p],
             \A p \in Runs : val'["init"][p] = val["init"][p]
      PROVE  NamesInv'
  BY <1>0, <1>a DEF NamesInv, SignalInv
<1>1. CASE EfpOpensInit(r)
  <2>1. CASE EfpMoves(r, "boot", "mk_efp")
    <3>1. efp[r] = "boot" /\ \A p \in Runs : efp'[p] = IF p = r THEN "mk_efp" ELSE efp[p]
      BY <2>1, EfpMoved
    <3>2. name' = name /\ val' = val BY <1>1 DEF EfpOpensInit
    <3> QED BY <1>0, <3>1, <3>2 DEF NamesInv
  <2>2. CASE EfpMoves(r, "boot", "exiting")
    <3>1. \A p \in Runs : efp'[p] = IF p = r THEN "exiting" ELSE efp[p]
      BY <2>2, EfpMoved
    <3>2. name' = name /\ val' = val BY <1>1 DEF EfpOpensInit
    <3> QED BY <1>a, <3>1, <3>2 DEF EfpAt, Alive
  <2> QED BY <1>1, <2>1, <2>2 DEF EfpOpensInit
<1>b. ASSUME NEW s \in {"efp", "exit"}, NEW from, NEW to, EfpMakes(r, s, from, to),
             \/ s = "efp" /\ from = "mk_efp" /\ to = "mk_exit"
             \/ s = "exit" /\ from = "mk_exit" /\ to = "setup"
      PROVE  NamesInv'
  <2>2. efp[r] = from
    BY <1>b, EfpMoved DEF EfpMakes
  <2>3. r = run /\ shm <= 0 /\ run \in Runs
    BY <1>b, <2>2 DEF NamesInv
  <2>4. hook # "p_publish" /\ val["init"][run] = 0
    BY <1>b, <2>2, <2>3 DEF NamesInv, ObjectsInv
  <2>5. CASE EfpMoves(r, from, to) /\ NewSem(s, r)
    <3>1. \A p \in Runs : efp'[p] = IF p = r THEN to ELSE efp[p]
      BY <2>5, EfpMoved
    <3>2. /\ \A t \in Sems : name'[t] = IF t = s THEN r ELSE name[t]
          /\ \A p \in Runs : val'["init"][p] = val["init"][p]
      BY <1>b, <2>5, NewSemValues DEF IpcOK
    <3>3. name'["efp"] \in {0, r} /\ (to = "setup" => name'["exit"] \in {0, r})
      BY <1>b, <2>2, <3>2 DEF NamesInv
    <3>4. \A p \in Runs : p # r => efp'[p] \notin Making
      BY <2>3, <3>1 DEF NamesInv
    <3>5. up => hook \in {"p_wait", "p_wait_untimed", "p_kill"}
      BY <1>b, <2>2 DEF NamesInv
    <3>6. \A p \in Runs : efp'[p] \in Making => p = r
      BY <3>4
    <3>7. val'["init"][run] = 0 BY <2>3, <2>4, <3>2
    <3> QED BY <1>0, <1>b, <2>3, <2>4, <3>1, <3>3, <3>5, <3>6, <3>7 DEF NamesInv, IpcOK
  <2>6. CASE EfpMoves(r, from, "exiting") /\ Unlink({s}) /\ val' = val
    <3>1. \A p \in Runs : efp'[p] = IF p = r THEN "exiting" ELSE efp[p]
      BY <2>6, EfpMoved
    <3>2. \A p \in Runs : efp'[p] \notin Making
      BY <2>3, <3>1 DEF NamesInv
    <3> QED BY <1>0, <2>3, <2>4, <2>6, <3>2 DEF NamesInv, IpcOK
  <2> QED BY <1>b, <2>5, <2>6 DEF EfpMakes
<1>2. CASE EfpMakesResume(r) \/ EfpMakesExit(r)
  BY <1>b, <1>2 DEF EfpMakesResume, EfpMakesExit
<1>3. CASE EfpInits(r)
  <2>1. efp[r] = "setup" /\ \A p \in Runs : efp'[p] = IF p = r THEN "ready" ELSE efp[p]
    BY <1>3, EfpMoved DEF EfpInits
  <2>2. name' = name BY <1>3 DEF EfpInits
  <2>3. /\ r = run /\ shm <= 0
        /\ name["efp"] \in {0, run} /\ name["exit"] \in {0, run}
    BY <2>1 DEF NamesInv
  <2>4. \A p \in Runs : efp'[p] \notin Making
    BY <2>1, <2>3 DEF NamesInv
  <2> QED BY <1>0, <2>2, <2>3, <2>4 DEF NamesInv
<1>4. CASE EfpReadsBaseline(r)
  <2>1. \E to \in {"wait", "exiting"} : \A p \in Runs : efp'[p] = IF p = r THEN to ELSE efp[p]
    BY <1>4, EfpMoved DEF EfpReadsBaseline
  <2> QED BY <1>a, <1>4, <2>1 DEF EfpReadsBaseline, EfpAt, Alive
<1>5. CASE EfpResumes(r)
  <2>1. \A p \in Runs : efp'[p] = IF p = r THEN "final" ELSE efp[p]
    BY <1>5, EfpMoved DEF EfpResumes
  <2>2. \A p \in Runs : val'["init"][p] = val["init"][p]
    BY <1>5, TakeValues DEF EfpResumes, IpcOK
  <2> QED BY <1>a, <1>5, <2>1, <2>2 DEF EfpResumes, EfpAt, Alive
<1>6. CASE EfpInterrupted(r) \/ EfpRecords(r)
  <2>1. \E to \in {"final", "finish"} : \A p \in Runs : efp'[p] = IF p = r THEN to ELSE efp[p]
    BY <1>6, EfpMoved DEF EfpInterrupted, EfpRecords
  <2> QED BY <1>a, <1>6, <2>1 DEF EfpInterrupted, EfpRecords, EfpAt, Alive
<1>7. CASE EfpPostsExit(r)
  <2>1. \A p \in Runs : efp'[p] = IF p = r THEN "exiting" ELSE efp[p]
    BY <1>7, EfpMoved DEF EfpPostsExit
  <2>2. \A p \in Runs : val'["init"][p] = val["init"][p]
    BY <1>7, PostValues DEF EfpPostsExit, IpcOK
  <2> QED BY <1>a, <1>7, <2>1, <2>2 DEF EfpPostsExit, EfpAt, Alive
<1>8. CASE EfpFails(r)
  <2>1. \A p \in Runs : efp'[p] = IF p = r THEN "exiting" ELSE efp[p]
    BY <1>8 DEF EfpFails, EfpOK
  <2> QED BY <1>a, <1>8, <2>1 DEF EfpFails, EfpAt, Alive
<1>9. CASE EfpEnds(r)
  <2>1. \E to \in {"zombie", "gone"} : \A p \in Runs : efp'[p] = IF p = r THEN to ELSE efp[p]
    BY <1>9 DEF EfpEnds, Ended, EfpOK
  <2> QED BY <1>a, <1>9, <2>1 DEF EfpEnds, EfpAt, Alive
<1> QED BY <1>1, <1>2, <1>3, <1>4, <1>5, <1>6, <1>7, <1>8, <1>9 DEF EfpStep

LEMMA SlurmdNames == TypeOK /\ SemInv /\ SlurmdStep => NamesInv'
<1> SUFFICES ASSUME TypeOK, SemInv, SlurmdStep PROVE NamesInv' OBVIOUS
<1> USE BoundsAssumption DEF TypeOK, SemInv, hooks, slurmd, ipc, efps, Making, OneRun, EpilogAt
<1>1. CASE SlurmdDies
  <2>1. /\ UNCHANGED <<run, shm, name, val>> /\ hook' \in {"idle", "running", "ended"} /\ ~up'
        /\ \A r \in Runs : efp'[r] = IF efp[r] = "zombie" THEN "gone" ELSE efp[r]
    BY <1>1 DEF SlurmdDies, Due, Return, HookOK
  <2> QED BY <2>1 DEF NamesInv
<1>2. CASE SlurmdStarts
  BY <1>2 DEF SlurmdStarts, NamesInv
<1>3. ASSUME NEW r \in Runs, OperatorKills(r) PROVE NamesInv'
  <2>1. /\ UNCHANGED <<run, hook, h, shm, up, name, val>>
        /\ \A p \in Runs : efp'[p] = IF p = r /\ efp[p] \in Alive THEN "dying" ELSE efp[p]
    BY <1>3, KillValues DEF OperatorKills
  <2> QED BY <2>1 DEF NamesInv, SignalInv
<1> QED BY <1>1, <1>2, <1>3 DEF SlurmdStep

-----------------------------------------------------------------------------
(* The window: no EFP is resumed before the epilog, none is at work when   *)
(* the epilog waits for its process.                                       *)

LEMMA InitWindow == Init => WindowInv
  BY DEF Init, WindowInv, Window, NothingToDo, At, PrologAt

LEMMA PrologWindow == TypeOK /\ SemInv /\ ~interrupted' /\ PrologStep => WindowInv'
<1> SUFFICES ASSUME TypeOK, SemInv, ~interrupted', PrologStep PROVE WindowInv' OBVIOUS
<1> USE BoundsAssumption DEF TypeOK, SemInv, hooks, slurmd, ipc, efps, At, Goto, Return,
                             Window, NothingToDo, PrologAt
<1>1. CASE PrologFails
  BY <1>1 DEF PrologFails, WindowInv
<1>2. CASE PrologCreatesRegion
  <2>1. /\ run' = run + 1 /\ run' \in Runs /\ efp' = efp /\ val' = val
        /\ hook' \in {"p_mark", "ended"}
    BY <1>2 DEF PrologCreatesRegion, HookOK
  <2>2. efp[run'] = "none" /\ val["efp"][run'] = 0
    BY <2>1 DEF ObjectsInv, HookOK
  <2> QED BY <2>1, <2>2 DEF WindowInv
<1>3. CASE PrologMarks
  BY <1>3 DEF PrologMarks, WindowInv
<1>4. CASE PrologOpensSem
  <2>1. run' = run /\ efp' = efp /\ hook = "p_sem" /\ hook' \in {"p_fork", "ended"} /\ run \in Runs
    BY <1>4 DEF PrologOpensSem, WindowInv
  <2>2. val'["efp"][run] = val["efp"][run]
    BY <1>4, <2>1, NewSemValues DEF PrologOpensSem, IpcOK
  <2> QED BY <2>1, <2>2 DEF WindowInv
<1>5. CASE PrologForks
  <2>1. /\ run' = run /\ val' = val /\ hook = "p_fork"
        /\ hook' \in {"p_wait", "p_wait_untimed", "ended"} /\ run \in Runs
        /\ efp' = efp \/ efp' = [efp EXCEPT ![run] = "boot"]
    BY <1>5 DEF PrologForks, WindowInv
  <2>2. efp'[run] \notin {"final", "finish"}
    BY <2>1 DEF WindowInv, EfpOK
  <2> QED BY <2>1, <2>2 DEF WindowInv
<1>6. CASE PrologReleased
  <2>1. h.init = run /\ run \in Runs
    BY <1>6 DEF PrologReleased, ObjectsInv, WindowInv
  <2>2. val'["efp"][run] = val["efp"][run]
    BY <1>6, <2>1, TakeValues DEF PrologReleased, IpcOK
  <2> QED BY <1>6, <2>1, <2>2 DEF PrologReleased, WindowInv
<1>7. CASE PrologInterrupted
  BY <1>7 DEF PrologInterrupted
<1>8. CASE PrologTimesOut
  BY <1>8 DEF PrologTimesOut, WindowInv
<1>9. CASE PrologKills
  BY <1>9 DEF PrologKills, WindowInv
<1>10. CASE PrologPublishes
  BY <1>10 DEF PrologPublishes, WindowInv
<1>11. CASE PrologCloses
  BY <1>11 DEF PrologCloses, WindowInv
<1> QED BY <1>1, <1>2, <1>3, <1>4, <1>5, <1>6, <1>7, <1>8, <1>9, <1>10, <1>11 DEF PrologStep

LEMMA EpilogWindow == TypeOK /\ SemInv /\ ~interrupted' /\ EpilogStep => WindowInv'
<1> SUFFICES ASSUME TypeOK, SemInv, ~interrupted', EpilogStep PROVE WindowInv' OBVIOUS
<1> USE DEF TypeOK, SemInv, hooks, slurmd, ipc, efps, At, Goto, Return,
            Window, NothingToDo, PrologAt
<1>1. CASE EpilogReleased
  <2>1. val["exit"][h.exit] > 0 /\ h.exit = h.pid /\ h.pid \in Runs
    BY <1>1, TakeValues, BoundsAssumption
    DEF EpilogReleased, IpcOK, NamesInv, OneRun, EpilogAt, SignalInv, Forked, HookOK
  <2>2. efp[h.pid] \notin Working
    BY <2>1 DEF ObjectsInv
  <2> QED BY <1>1, <2>2 DEF EpilogReleased, WindowInv
<1>2. CASE EpilogInterrupted
  BY <1>2 DEF EpilogInterrupted
<1>3. CASE EpilogKills
  <2>1. h.pid \in Runs
    BY <1>3, BoundsAssumption DEF EpilogKills, SignalInv, Forked, HookOK, EpilogAt
  <2>2. efp'[h.pid] \notin Working
    BY <1>3, <2>1, KillValues DEF EpilogKills, Working, Alive
  <2> QED BY <1>3, <2>2 DEF EpilogKills, WindowInv
<1>4. CASE EpilogReaps
  <2>1. h' = h /\ up /\ hook = "e_reap" /\ hook' \in {"e_reap", "e_clean"}
    BY <1>4 DEF EpilogReaps
  <2>2. hook' = "e_reap" => efp' = efp
    BY <1>4 DEF EpilogReaps
  <2> QED BY <2>1, <2>2 DEF WindowInv
<1>5. CASE hook' \notin PrologAt \union {"running", "e_reap"}
  BY <1>5 DEF WindowInv
<1>6. hook' \in PrologAt \union {"running", "e_reap"} =>
         EpilogReleased \/ EpilogInterrupted \/ EpilogKills \/ EpilogReaps
  BY DEF EpilogStep, EpilogSkipped, EpilogOpensRegion, EpilogOpensResume, EpilogOpensExit,
         EpilogGivesUp, EpilogPosts, EpilogTimesOut, EpilogUnlinksSems, EpilogUnlinksRegion
<1> QED BY <1>1, <1>2, <1>3, <1>4, <1>5, <1>6

\* An EFP's step resumes nobody: whoever goes on from the wait has been posted
\* to, and the prolog's and the job's EFP has not.
LEMMA EfpWindow == ASSUME TypeOK, SemInv, ~interrupted', NEW r \in Runs, EfpStep(r)
                   PROVE  WindowInv'
<1> USE DEF TypeOK, SemInv, hooks, slurmd, ipc, At, Window, NothingToDo
<1>0. UNCHANGED <<run, hook, h, up>>
  BY DEF EfpStep, EfpOpensInit, EfpMakesResume, EfpMakesExit, EfpMakes, EfpInits,
         EfpReadsBaseline, EfpResumes, EfpInterrupted, EfpRecords, EfpPostsExit, EfpFails, EfpEnds
\* What is enough, of any step.
<1>a. ASSUME NEW to, \A p \in Runs : efp'[p] = IF p = r THEN to ELSE efp[p],
             \A p \in Runs : val["efp"][p] = 0 => val'["efp"][p] = 0,
             to \in Working => efp[r] \in Working,
             to \in {"final", "finish"} => efp[r] \in {"final", "finish"} \/ val["efp"][r] # 0
      PROVE  WindowInv'
  <2>1. hook \in EpilogAt => h.pid \in Runs
    BY BoundsAssumption DEF SignalInv, Forked, HookOK
  <2>2. hook \in PrologAt \union {"running"} =>
           run \in Runs /\ val'["efp"][run] = 0 /\ efp'[run] \notin {"final", "finish"}
    BY <1>a, BoundsAssumption DEF WindowInv
  <2>3. hook = "e_reap" /\ up => efp'[h.pid] \notin Working
    BY <1>a, <2>1 DEF WindowInv, EpilogAt
  <2> QED BY <1>0, <2>2, <2>3 DEF WindowInv
<1> USE DEF Working, Alive
<1>1. CASE EfpOpensInit(r)
  <2>1. \E to \in {"mk_efp", "exiting"} : \A p \in Runs : efp'[p] = IF p = r THEN to ELSE efp[p]
    BY <1>1, EfpMoved DEF EfpOpensInit
  <2>2. efp[r] = "boot" /\ val' = val
    BY <1>1, EfpMoved DEF EfpOpensInit
  <2> QED BY <1>a, <2>1, <2>2
<1>b. ASSUME NEW s \in {"efp", "exit"}, NEW from \in Working, NEW to \in {"mk_exit", "setup"},
             EfpMakes(r, s, from, to)
      PROVE  WindowInv'
  <2>1. CASE EfpMoves(r, from, to) /\ NewSem(s, r)
    <3>1. efp[r] = from /\ \A p \in Runs : efp'[p] = IF p = r THEN to ELSE efp[p]
      BY <2>1, EfpMoved
    <3>2. \A p \in Runs : val["efp"][p] = 0 => val'["efp"][p] = 0
      BY <2>1, NewSemValues DEF IpcOK
    <3> QED BY <1>a, <3>1, <3>2
  <2>2. CASE EfpMoves(r, from, "exiting") /\ val' = val
    <3>1. \A p \in Runs : efp'[p] = IF p = r THEN "exiting" ELSE efp[p]
      BY <2>2, EfpMoved
    <3> QED BY <1>a, <2>2, <3>1
  <2> QED BY <1>b, <2>1, <2>2 DEF EfpMakes
<1>2. CASE EfpMakesResume(r) BY <1>b, <1>2 DEF EfpMakesResume
<1>3. CASE EfpMakesExit(r) BY <1>b, <1>3 DEF EfpMakesExit
<1>4. CASE EfpInits(r)
  <2>1. efp[r] = "setup" /\ \A p \in Runs : efp'[p] = IF p = r THEN "ready" ELSE efp[p]
    BY <1>4, EfpMoved DEF EfpInits
  <2>2. \A p \in Runs : val'["efp"][p] = val["efp"][p]
    BY <1>4, PostValues DEF EfpInits, IpcOK
  <2> QED BY <1>a, <2>1, <2>2
<1>5. CASE EfpReadsBaseline(r)
  <2>1. \E to \in {"wait", "exiting"} : \A p \in Runs : efp'[p] = IF p = r THEN to ELSE efp[p]
    BY <1>5, EfpMoved DEF EfpReadsBaseline
  <2>2. efp[r] = "ready" /\ val' = val
    BY <1>5, EfpMoved DEF EfpReadsBaseline
  <2> QED BY <1>a, <2>1, <2>2
<1>6. CASE EfpResumes(r)
  <2>1. efp[r] = "wait" /\ \A p \in Runs : efp'[p] = IF p = r THEN "final" ELSE efp[p]
    BY <1>6, EfpMoved DEF EfpResumes
  <2>2. held[r]["efp"] = r
    BY <2>1 DEF ObjectsInv, Resumable
  <2>3. /\ val["efp"][r] # 0
        /\ \A p \in Runs : val["efp"][p] = 0 => val'["efp"][p] = 0
    BY <1>6, <2>2, TakeValues DEF EfpResumes, IpcOK
  <2> QED BY <1>a, <2>1, <2>3
<1>7. CASE EfpInterrupted(r)
  BY <1>7 DEF EfpInterrupted
<1>8. CASE EfpRecords(r)
  <2>1. efp[r] = "final" /\ \A p \in Runs : efp'[p] = IF p = r THEN "finish" ELSE efp[p]
    BY <1>8, EfpMoved DEF EfpRecords
  <2>2. val' = val BY <1>8 DEF EfpRecords
  <2> QED BY <1>a, <2>1, <2>2
<1>9. CASE EfpPostsExit(r)
  <2>1. \A p \in Runs : efp'[p] = IF p = r THEN "exiting" ELSE efp[p]
    BY <1>9, EfpMoved DEF EfpPostsExit
  <2>2. \A p \in Runs : val'["efp"][p] = val["efp"][p]
    BY <1>9, PostValues DEF EfpPostsExit, IpcOK
  <2> QED BY <1>a, <2>1, <2>2
<1>10. CASE EfpFails(r)
  <2>1. \A p \in Runs : efp'[p] = IF p = r THEN "exiting" ELSE efp[p]
    BY <1>10 DEF EfpFails, EfpOK
  <2>2. val' = val BY <1>10 DEF EfpFails
  <2> QED BY <1>a, <2>1, <2>2
<1>11. CASE EfpEnds(r)
  <2>1. \E to \in {"zombie", "gone"} : \A p \in Runs : efp'[p] = IF p = r THEN to ELSE efp[p]
    BY <1>11 DEF EfpEnds, Ended, EfpOK
  <2>2. val' = val BY <1>11 DEF EfpEnds
  <2> QED BY <1>a, <2>1, <2>2
<1> QED BY <1>1, <1>2, <1>3, <1>4, <1>5, <1>6, <1>7, <1>8, <1>9, <1>10, <1>11 DEF EfpStep

LEMMA SlurmdWindow == TypeOK /\ SemInv /\ SlurmdStep => WindowInv'
<1> SUFFICES ASSUME TypeOK, SemInv, SlurmdStep PROVE WindowInv' OBVIOUS
<1> USE DEF TypeOK, SemInv, hooks, slurmd, ipc, efps, At, Window, NothingToDo, Working, Alive
<1>1. CASE SlurmdDies
  <2>1. /\ UNCHANGED <<run, val>> /\ hook' \in {"idle", "running", "ended"} /\ ~up'
        /\ hook' = "running" => hook = "running"
        /\ \A r \in Runs : efp'[r] = IF efp[r] = "zombie" THEN "gone" ELSE efp[r]
    BY <1>1 DEF SlurmdDies, Due, Return, HookOK
  <2> QED BY <2>1 DEF WindowInv, PrologAt
<1>2. CASE SlurmdStarts
  <2>1. /\ UNCHANGED <<run, hook, h, val, efp>>
        /\ \A r \in Runs : efp[r] \in {"none", "gone"}
    BY <1>2 DEF SlurmdStarts
  <2>2. hook \in EpilogAt => h.pid \in Runs
    BY BoundsAssumption DEF SignalInv, Forked, HookOK
  <2> QED BY <2>1, <2>2 DEF WindowInv, EpilogAt
<1>3. ASSUME NEW r \in Runs, OperatorKills(r) PROVE WindowInv'
  <2>1. /\ UNCHANGED <<run, hook, h, up, val>> /\ ~up
        /\ \A p \in Runs : efp'[p] = IF p = r /\ efp[p] \in Alive THEN "dying" ELSE efp[p]
    BY <1>3, KillValues DEF OperatorKills
  <2> QED BY <2>1 DEF WindowInv
<1> QED BY <1>1, <1>2, <1>3 DEF SlurmdStep

-----------------------------------------------------------------------------
(* The theorems.                                                           *)

LEMMA NextSem == TypeOK /\ SemInv /\ ~interrupted' /\ [Next]_vars => SemInv'
<1> SUFFICES ASSUME TypeOK, SemInv, ~interrupted', [Next]_vars PROVE SemInv' OBVIOUS
<1>0. SignalInv' BY NextSignal DEF SemInv
<1> SUFFICES ObjectsInv' /\ NamesInv' /\ WindowInv' BY <1>0 DEF SemInv
<1>1. CASE PrologStep BY <1>1, PrologObjects, PrologNames, PrologWindow
<1>2. CASE EpilogStep BY <1>2, EpilogObjects, EpilogNames, EpilogWindow
<1>3. CASE SlurmdStep BY <1>3, SlurmdObjects, SlurmdNames, SlurmdWindow
<1>4. CASE \E r \in Runs : EfpStep(r) BY <1>4, EfpObjects, EfpNames, EfpWindow
<1>5. CASE JobEnds
  <2>1. hook = "running" /\ hook' = "ended" /\ UNCHANGED <<run, h, up, shm, name, val, efp, held>>
    BY <1>5 DEF JobEnds, Goto, slurmd, ipc, efps
  <2>2. ObjectsInv' BY <2>1 DEF SemInv, ObjectsInv
  <2>3. NamesInv' BY <2>1 DEF SemInv, NamesInv, OneRun, EpilogAt
  <2>4. WindowInv' BY <2>1 DEF SemInv, WindowInv, Window, NothingToDo, PrologAt, At
  <2> QED BY <2>2, <2>3, <2>4
<1>6. CASE UNCHANGED vars
  <2>1. UNCHANGED <<run, hook, h, up, shm, name, val, efp, held>>
    BY <1>6 DEF vars, hooks, slurmd, ipc, efps
  <2> QED BY <2>1 DEF SemInv, ObjectsInv, NamesInv, WindowInv, OneRun,
                      Window, NothingToDo, At
<1> QED BY <1>1, <1>2, <1>3, <1>4, <1>5, <1>6 DEF Next, Finished

LEMMA Interruptions ==
    [Next]_vars => interrupted' = interrupted \/ (interrupted' = TRUE /\ "eintr" \in Faults)
<1> SUFFICES ASSUME Next
             PROVE  interrupted' = interrupted \/ (interrupted' = TRUE /\ "eintr" \in Faults)
  BY DEF vars, slurmd
<1> USE DEF slurmd
<1>1. CASE PrologStep
  BY <1>1 DEF PrologStep, PrologFails, PrologCreatesRegion, PrologMarks, PrologOpensSem, PrologForks,
              PrologReleased, PrologInterrupted, PrologTimesOut, PrologKills, PrologPublishes,
              PrologCloses
<1>2. CASE EpilogStep
  BY <1>2 DEF EpilogStep, EpilogSkipped, EpilogOpensRegion, EpilogOpensResume, EpilogOpensExit,
              EpilogGivesUp, EpilogPosts, EpilogReleased, EpilogInterrupted, EpilogTimesOut,
              EpilogKills, EpilogReaps, EpilogUnlinksSems, EpilogUnlinksRegion
<1>3. CASE SlurmdStep
  BY <1>3 DEF SlurmdStep, SlurmdDies, SlurmdStarts, OperatorKills
<1>4. CASE \E r \in Runs : EfpStep(r)
  BY <1>4 DEF EfpStep, EfpOpensInit, EfpMakesResume, EfpMakesExit, EfpMakes, EfpInits,
              EfpReadsBaseline, EfpResumes, EfpInterrupted, EfpRecords, EfpPostsExit, EfpFails, EfpEnds
<1>5. CASE JobEnds BY <1>5 DEF JobEnds
<1>6. CASE Finished BY <1>6 DEF Finished, vars
<1> QED BY <1>1, <1>2, <1>3, <1>4, <1>5, <1>6 DEF Next

\* As long as no signal has interrupted a wait the runs of a job id do not meet.
THEOREM SemInvariant == Spec => [](interrupted \/ SemInv)
<1>1. Init => SemInv
  BY InitSignal, InitObjects, InitNames, InitWindow DEF SemInv
<1>2. TypeOK /\ (interrupted \/ SemInv) /\ [Next]_vars => (interrupted \/ SemInv)'
  BY NextSem, Interruptions
<1> QED BY <1>1, <1>2, TypeCorrect, PTL DEF Spec

\* As long as no signal has interrupted a wait, what the epilog looks up by name, the
\* pid, the semaphore it posts and the one it waits on, belongs to one EFP, for
\* any number of runs and restarts and whatever else fails or leaks.
THEOREM OneRunAddressed == Spec => []EpilogAddressesOneRun
<1>1. interrupted \/ SemInv => EpilogAddressesOneRun
  BY DEF SemInv, NamesInv, EpilogAddressesOneRun
<1> QED BY <1>1, SemInvariant, PTL

\* Until then no EFP takes its final readings before its job has ended: no post is
\* left over from, or meant for, another run.
THEOREM WindowKept == Spec => []JobWindow
<1>1. interrupted \/ SemInv => JobWindow BY DEF SemInv, WindowInv, JobWindow
<1> QED BY <1>1, SemInvariant, PTL

\* Until then an epilog that waits for the EFP's process waits for one that has
\* nothing left to do: it posted proceed_exit itself or was killed.
THEOREM ReapsEndedOnly == Spec => []ReapingEndedEfp
<1>1. interrupted \/ SemInv => ReapingEndedEfp BY DEF SemInv, WindowInv, ReapingEndedEfp
<1> QED BY <1>1, SemInvariant, PTL

\* Where no signal interrupts waits the invariant holds for good.
THEOREM SemInvariantUninterrupted ==
    ASSUME "eintr" \notin Faults PROVE Spec => [](SemInv /\ ~interrupted)
<1>1. Init => ~interrupted BY DEF Init
<1>2. ~interrupted /\ [Next]_vars => ~interrupted'
  BY Interruptions
<1> QED BY <1>1, <1>2, SemInvariant, PTL DEF Spec


-----------------------------------------------------------------------------
(* Successive runs: what an epilog leaves behind, which EFP can be at work,*)
(* and that EpsNode implements EpsSessions.                                *)

\* What an EFP's step does to the state of EFPs and to the names: only r moves,
\* it does not come to work from elsewhere, and names change while semaphores
\* are made.
LEMMA EfpEffect ==
    ASSUME TypeOK, NEW r \in Runs, EfpStep(r)
    PROVE  /\ UNCHANGED <<run, hook, rc, h, up, restarts, cut, shm>>
           /\ \A p \in Runs \ {r} : efp'[p] = efp[p]
           /\ efp'[r] \in Working => efp[r] \in Working
           /\ efp'[r] \in Making => efp[r] \in Making
           /\ efp'[r] \in Working \ Making => efp[r] \in (Working \ Making) \union {"setup"}
           /\ name'["init"] = name["init"]
           /\ \/ name' = name /\ (efp'[r] = "boot" \/ efp'[r] \notin Making
                                  \/ (efp[r] = "boot" /\ efp'[r] = "mk_efp"))
              \/ efp'[r] = "exiting"
              \/ /\ efp[r] = "mk_efp" /\ efp'[r] = "mk_exit"
                 /\ name'["efp"] = r
              \/ /\ efp[r] = "mk_exit" /\ efp'[r] = "setup"
                 /\ name'["efp"] = name["efp"] /\ name'["exit"] = r
           /\ efp[r] \in Making \/ name' = name
<1> USE DEF TypeOK, hooks, slurmd, ipc, Making, Working, Alive
<1>1. CASE EfpOpensInit(r)
  BY <1>1, EfpMoved DEF EfpOpensInit
<1>2. ASSUME NEW s \in {"efp", "exit"}, NEW from, NEW to, EfpMakes(r, s, from, to)
      PROVE  /\ UNCHANGED <<run, hook, rc, h, up, restarts, cut, shm>>
             /\ \A p \in Runs \ {r} : efp'[p] = efp[p]
             /\ efp[r] = from
             /\ name'["init"] = name["init"]
             /\ \/ efp'[r] = "exiting"
                \/ /\ efp'[r] = to /\ name'[s] = r
                   /\ \A t \in Sems \ {s} : name'[t] = name[t]
  <2>1. CASE EfpMoves(r, from, to) /\ NewSem(s, r)
    <3>1. \A t \in Sems : name'[t] = IF t = s THEN r ELSE name[t]
      BY <2>1, NewSemValues DEF IpcOK
    <3> QED BY <1>2, <2>1, <3>1, EfpMoved DEF EfpMakes
  <2>2. CASE EfpMoves(r, from, "exiting") /\ Unlink({s})
    BY <1>2, <2>2, EfpMoved, UnlinkValues DEF EfpMakes
  <2> QED BY <1>2, <2>1, <2>2 DEF EfpMakes
<1>3. CASE EfpMakesResume(r) BY <1>2, <1>3 DEF EfpMakesResume
<1>4. CASE EfpMakesExit(r) BY <1>2, <1>4 DEF EfpMakesExit
<1>5. CASE EfpInits(r) BY <1>5, EfpMoved DEF EfpInits
<1>6. CASE EfpReadsBaseline(r) BY <1>6, EfpMoved DEF EfpReadsBaseline
<1>7. CASE EfpResumes(r) BY <1>7, EfpMoved DEF EfpResumes
<1>8. CASE EfpInterrupted(r) BY <1>8, EfpMoved DEF EfpInterrupted
<1>9. CASE EfpRecords(r) BY <1>9, EfpMoved DEF EfpRecords
<1>10. CASE EfpPostsExit(r) BY <1>10, EfpMoved DEF EfpPostsExit
<1>11. CASE EfpFails(r) BY <1>11 DEF EfpFails, EfpOK
<1>12. CASE EfpEnds(r) BY <1>12 DEF EfpEnds, Ended, EfpOK
<1> QED BY <1>1, <1>3, <1>4, <1>5, <1>6, <1>7, <1>8, <1>9, <1>10, <1>11, <1>12 DEF EfpStep

-----------------------------------------------------------------------------
(* MadeInv.                                                                *)

LEMMA InitMade == Init => MadeInv
  BY BoundsAssumption DEF Init, MadeInv, Making, PrologAt

LEMMA PrologMade == TypeOK /\ SemInv /\ MadeInv /\ ~interrupted' /\ PrologStep => MadeInv'
<1> SUFFICES ASSUME TypeOK, SemInv, MadeInv, ~interrupted', PrologStep PROVE MadeInv' OBVIOUS
<1> USE BoundsAssumption DEF TypeOK, SemInv, hooks, slurmd, ipc, efps, At, Goto, Return, PrologAt
<1>1. CASE PrologFails BY <1>1 DEF PrologFails, MadeInv
<1>2. CASE PrologCreatesRegion BY <1>2 DEF PrologCreatesRegion, MadeInv
<1>3. CASE PrologMarks BY <1>3 DEF PrologMarks, MadeInv
<1>4. CASE PrologOpensSem
  <2>1. /\ UNCHANGED <<up, cut, run, shm, efp>> /\ hook = "p_sem"
        /\ \/ hook' = "p_fork" /\ NewSem("init", run)
           \/ hook' = "ended" /\ Unlink({"init"})
    BY <1>4 DEF PrologOpensSem
  <2>2. run \in Runs BY <2>1 DEF WindowInv
  <2>3. name'["init"] = 0 \/ (hook' = "p_fork" /\ name'["init"] = run)
    BY <2>1, <2>2, NewSemValues, UnlinkValues DEF IpcOK
  <2> QED BY <2>1, <2>3 DEF MadeInv
<1>5. CASE PrologForks
  <2>1. /\ UNCHANGED <<up, cut, run, shm>> /\ hook = "p_fork"
        /\ \/ hook' = "ended" /\ name'["init"] = 0 /\ efp' = efp
           \/ hook' \in {"p_wait", "p_wait_untimed"} /\ name' = name
    BY <1>5, UnlinkValues DEF PrologForks
  <2> QED BY <2>1 DEF MadeInv
<1>6. CASE PrologReleased
  <2>1. /\ hook \in {"p_wait", "p_wait_untimed"} /\ hook' = "p_publish" /\ h.init = run
        /\ UNCHANGED <<name, efp, cut, run, up>>
    BY <1>6 DEF PrologReleased, ObjectsInv
  <2>2. val["init"][run] > 0 /\ run \in Runs
    BY <1>6, <2>1, TakeValues DEF PrologReleased, IpcOK, WindowInv
  <2>3. \A r \in Runs : efp[r] \notin Making
    BY <2>1, <2>2 DEF NamesInv
  <2> QED BY <2>1, <2>3 DEF MadeInv
<1>7. CASE PrologInterrupted BY <1>7 DEF PrologInterrupted
<1>8. CASE PrologTimesOut BY <1>8 DEF PrologTimesOut, MadeInv
<1>9. CASE PrologKills
  <2>1. /\ hook = "p_kill" /\ hook' = "ended" /\ name'["init"] = 0
        /\ \A r \in Runs : efp'[r] = IF r = run /\ efp[r] \in Alive THEN "dying" ELSE efp[r]
    BY <1>9, KillValues, UnlinkValues DEF PrologKills
  <2>2. \A r \in Runs : efp'[r] \notin Making
    BY <2>1 DEF NamesInv, Making, Alive
  <2> QED BY <2>1, <2>2 DEF MadeInv
<1>10. CASE PrologPublishes BY <1>10 DEF PrologPublishes, MadeInv
<1>11. CASE PrologCloses
  <2>1. /\ hook = "p_close" /\ hook' = "running" /\ name'["init"] = 0 /\ efp' = efp
        /\ cut' = cut
    BY <1>11, UnlinkValues DEF PrologCloses
  <2> QED BY <2>1 DEF MadeInv
<1> QED BY <1>1, <1>2, <1>3, <1>4, <1>5, <1>6, <1>7, <1>8, <1>9, <1>10, <1>11 DEF PrologStep

LEMMA EpilogMade == TypeOK /\ SemInv /\ MadeInv /\ EpilogStep => MadeInv'
<1> SUFFICES ASSUME TypeOK, SemInv, MadeInv, EpilogStep PROVE MadeInv' OBVIOUS
<1> USE DEF TypeOK, hooks, slurmd, ipc, efps, At, Goto, Return
<1>1. /\ up /\ UNCHANGED <<up, restarts>> /\ hook \in {"ended"} \union EpilogAt
      /\ \A r \in Runs : efp'[r] \in Making => efp[r] \in Making
  <2>1. CASE EpilogKills
    BY <2>1, KillValues DEF EpilogKills, EpilogAt, Making
  <2>2. CASE EpilogReaps
    BY <2>2 DEF EpilogReaps, EpilogAt, Making, EfpOK
  <2> QED BY <2>1, <2>2
          DEF EpilogStep, EpilogSkipped, EpilogOpensRegion, EpilogOpensResume, EpilogOpensExit,
              EpilogGivesUp, EpilogPosts, EpilogReleased, EpilogInterrupted, EpilogTimesOut,
              EpilogUnlinksSems, EpilogUnlinksRegion, EpilogAt
<1>2. \A r \in Runs : efp'[r] \notin Making
  BY <1>1 DEF MadeInv, EpilogAt
<1>3. name'["init"] = name["init"]
  BY UnlinkValues DEF EpilogStep, EpilogSkipped, EpilogOpensRegion, EpilogOpensResume, EpilogOpensExit,
              EpilogGivesUp, EpilogPosts, EpilogReleased, EpilogInterrupted, EpilogTimesOut,
              EpilogKills, EpilogReaps, EpilogUnlinksSems, EpilogUnlinksRegion
<1>4. name["init"] \in {0} \union cut /\ cut' = cut
  <2>1. name["init"] \in {0} \union cut BY <1>1 DEF MadeInv, PrologAt, EpilogAt
  <2>2. cut' = cut
    BY DEF EpilogStep, EpilogSkipped, EpilogOpensRegion, EpilogOpensResume, EpilogOpensExit,
           EpilogGivesUp, EpilogPosts, EpilogReleased, EpilogInterrupted, EpilogTimesOut,
           EpilogKills, EpilogReaps, EpilogUnlinksSems, EpilogUnlinksRegion
  <2> QED BY <2>1, <2>2
<1>5. hook' = "e_region" => name'["efp"] = 0 /\ name'["exit"] = 0
  BY UnlinkValues DEF EpilogStep, EpilogSkipped, EpilogOpensRegion, EpilogOpensResume, EpilogOpensExit,
              EpilogGivesUp, EpilogPosts, EpilogReleased, EpilogInterrupted, EpilogTimesOut,
              EpilogKills, EpilogReaps, EpilogUnlinksSems, EpilogUnlinksRegion
<1>6. hook' = "idle" /\ rc' = "success" => EpilogUnlinksRegion
  BY <1>1 DEF EpilogStep, EpilogSkipped, EpilogOpensRegion, EpilogOpensResume, EpilogOpensExit,
              EpilogGivesUp, EpilogPosts, EpilogReleased, EpilogInterrupted, EpilogTimesOut,
              EpilogKills, EpilogReaps, EpilogUnlinksSems, EpilogAt
<1>7. EpilogUnlinksRegion => shm' = NoRegion /\ name' = name /\ hook = "e_region"
  BY DEF EpilogUnlinksRegion
<1> QED BY <1>1, <1>2, <1>3, <1>4, <1>5, <1>6, <1>7 DEF MadeInv

LEMMA EfpMade == ASSUME TypeOK, SemInv, MadeInv, NEW r \in Runs, EfpStep(r) PROVE MadeInv'
<1> USE DEF TypeOK, At
<1>1. /\ UNCHANGED <<run, hook, rc, h, up, restarts, cut, shm>>
      /\ \A p \in Runs : efp'[p] \in Making => efp[p] \in Making
      /\ name'["init"] = name["init"]
      /\ efp[r] \in Making \/ name' = name
  BY EfpEffect
<1>2. hook \in {"e_region", "idle"} => name' = name
  BY <1>1 DEF MadeInv
<1> QED BY <1>1, <1>2 DEF MadeInv

LEMMA SlurmdMade == TypeOK /\ SemInv /\ MadeInv /\ SlurmdStep => MadeInv'
<1> SUFFICES ASSUME TypeOK, SemInv, MadeInv, SlurmdStep PROVE MadeInv' OBVIOUS
<1> USE BoundsAssumption DEF TypeOK, hooks, slurmd, ipc, efps, At
<1>1. CASE SlurmdDies
  <2>1. /\ UNCHANGED <<shm, name, run>> /\ ~up'
        /\ cut' = cut \union (IF hook \in PrologAt THEN {run} ELSE {})
        /\ hook' \in {"idle", "running", "ended"}
        /\ hook' # "ended" => hook' = hook /\ rc' = rc
        /\ \A r \in Runs : efp'[r] = IF efp[r] = "zombie" THEN "gone" ELSE efp[r]
    BY <1>1 DEF SlurmdDies, Due, Return, HookOK
  <2> QED BY <2>1 DEF MadeInv, Making
<1>2. CASE SlurmdStarts
  <2>1. /\ UNCHANGED <<run, hook, rc, shm, name, cut>>
        /\ \A r \in Runs : efp'[r] \notin Making
    BY <1>2 DEF SlurmdStarts, Making
  <2> QED BY <2>1 DEF MadeInv
<1>3. ASSUME NEW r \in Runs, OperatorKills(r) PROVE MadeInv'
  <2>1. /\ UNCHANGED <<run, hook, rc, shm, name, cut, up>>
        /\ \A p \in Runs : efp'[p] = IF p = r /\ efp[p] \in Alive THEN "dying" ELSE efp[p]
    BY <1>3, KillValues DEF OperatorKills
  <2> QED BY <2>1 DEF MadeInv, Making
<1> QED BY <1>1, <1>2, <1>3 DEF SlurmdStep

LEMMA NextMade == TypeOK /\ SemInv /\ MadeInv /\ ~interrupted' /\ [Next]_vars => MadeInv'
<1> SUFFICES ASSUME TypeOK, SemInv, MadeInv, ~interrupted', [Next]_vars PROVE MadeInv'
  OBVIOUS
<1>1. CASE JobEnds
  BY <1>1 DEF JobEnds, Goto, slurmd, ipc, efps, MadeInv, PrologAt
<1>2. CASE UNCHANGED vars
  BY <1>2 DEF vars, hooks, slurmd, ipc, efps, MadeInv
<1> QED BY <1>1, <1>2, PrologMade, EpilogMade, EfpMade, SlurmdMade DEF Next, Finished

\* As long as no signal has interrupted a wait, and however many runs went before,
\* leaked names or failed: an epilog that reports success leaves no region of the
\* job behind and no semaphore name but, possibly, the one a prolog made that
\* slurmd's death cut short.
THEOREM LeavesNothing == Spec => []CleanAfterSuccess
<1>1. /\ TypeOK /\ (interrupted \/ SemInv) /\ (interrupted \/ MadeInv) /\ [Next]_vars
      => (interrupted \/ MadeInv)'
  BY NextMade, Interruptions
<1>2. TypeOK /\ (interrupted \/ MadeInv) => CleanAfterSuccess
  BY BoundsAssumption DEF TypeOK, HookOK, MadeInv, CleanAfterSuccess, At, PrologAt
<1> QED BY <1>1, <1>2, InitMade, TypeCorrect, SemInvariant, PTL DEF Spec

-----------------------------------------------------------------------------
(* SessionInv: epilogs run, and can do their work.                         *)

EpilogsWork == Faults \intersect {"eintr", "epilog", "noepilog", "clock"} = {}

LEMMA InitSession == Init => SessionInv
  BY BoundsAssumption DEF Init, SessionInv, Working, Alive, Making

LEMMA PrologSession == TypeOK /\ SemInv /\ SessionInv /\ EpilogsWork /\ PrologStep => SessionInv'
<1> SUFFICES ASSUME TypeOK, SemInv, SessionInv, EpilogsWork, PrologStep PROVE SessionInv' OBVIOUS
<1> USE BoundsAssumption DEF TypeOK, hooks, slurmd, ipc, efps, At, Goto, Return
<1>1. CASE PrologFails \/ PrologCreatesRegion
  <2>1. /\ run' = run + 1 /\ run' \in Runs /\ UNCHANGED <<name, efp>> /\ hook = "idle"
        /\ hook' \in {"p_mark", "ended"} /\ shm' \in {NoRegion, 0, shm}
    BY <1>1 DEF PrologFails, PrologCreatesRegion, HookOK
  <2> QED BY <2>1 DEF SessionInv
<1>2. CASE PrologMarks BY <1>2 DEF PrologMarks, SessionInv
<1>3. CASE PrologOpensSem
  <2>1. /\ UNCHANGED <<run, efp, shm>> /\ run \in Runs /\ efp[run] = "none"
        /\ hook' \in {"p_fork", "ended"}
    BY <1>3 DEF PrologOpensSem, SemInv, SignalInv, ObjectsInv
  <2>2. name'["efp"] = name["efp"] /\ name'["exit"] = name["exit"]
    BY <1>3, <2>1, NewSemValues, UnlinkValues DEF PrologOpensSem, IpcOK
  <2> QED BY <2>1, <2>2 DEF SessionInv, Working, Alive
<1>4. CASE PrologForks
  <2>1. /\ UNCHANGED <<run, shm>> /\ run \in Runs /\ efp[run] = "none" /\ hook = "p_fork"
        /\ name'["efp"] = name["efp"] /\ name'["exit"] = name["exit"]
        /\ \/ efp' = efp /\ hook' = "ended"
           \/ efp' = [efp EXCEPT ![run] = "boot"] /\ hook' \in {"p_wait", "p_wait_untimed"}
    BY <1>4, UnlinkValues DEF PrologForks, SemInv, SignalInv, ObjectsInv
  <2>2. \A r \in Runs : efp'[r] = efp[r] \/ (r = run /\ efp'[r] = "boot")
    BY <2>1 DEF EfpOK
  <2> QED BY <2>1, <2>2 DEF SessionInv, Working, Alive, Making
<1>5. CASE PrologReleased BY <1>5 DEF PrologReleased, SessionInv
<1>6. CASE PrologInterrupted BY <1>6 DEF PrologInterrupted, EpilogsWork
<1>7. CASE PrologTimesOut BY <1>7 DEF PrologTimesOut, SessionInv
<1>8. CASE PrologKills
  <2>1. /\ UNCHANGED <<run, shm>> /\ run \in Runs /\ hook' = "ended"
        /\ name'["efp"] = name["efp"] /\ name'["exit"] = name["exit"]
        /\ \A r \in Runs : efp'[r] = IF r = run /\ efp[r] \in Alive THEN "dying" ELSE efp[r]
    BY <1>8, KillValues, UnlinkValues DEF PrologKills, SemInv, SignalInv
  <2> QED BY <2>1 DEF SessionInv, Working, Alive
<1>9. CASE PrologPublishes BY <1>9 DEF PrologPublishes, SessionInv
<1>10. CASE PrologCloses
  <2>1. /\ UNCHANGED <<run, shm, efp>> /\ hook = "p_close" /\ hook' = "running"
        /\ name'["efp"] = name["efp"] /\ name'["exit"] = name["exit"]
    BY <1>10, UnlinkValues DEF PrologCloses
  <2> QED BY <2>1 DEF SessionInv
<1> QED BY <1>1, <1>2, <1>3, <1>4, <1>5, <1>6, <1>7, <1>8, <1>9, <1>10 DEF PrologStep

\* An epilog that returns without having looked for the EFP has none to look for.
LEMMA NobodyLeft ==
    ASSUME TypeOK, SemInv, SessionInv, up, run \in Runs,
           \/ hook = "ended" /\ shm <= 0
           \/ hook \in EpilogAt /\ name["efp"] = 0
           \/ hook \in EpilogAt /\ name["exit"] = 0
    PROVE  \A r \in Runs : efp[r] \notin Working
<1> USE BoundsAssumption
<1>1. CASE hook = "ended" /\ shm <= 0
  BY <1>1 DEF SessionInv
<1>2. CASE hook \in EpilogAt /\ (name["efp"] = 0 \/ name["exit"] = 0)
  <2>1. h.pid > 0 /\ h.pid = shm
    BY <1>2 DEF SemInv, SignalInv, NamesInv, Forked, TypeOK, HookOK
  <2>2. \A r \in Runs : efp[r] \notin Making
    BY <2>1 DEF SemInv, NamesInv, TypeOK, IpcOK
  <2> QED BY <1>2, <2>2 DEF SessionInv, Making
<1> QED BY <1>1, <1>2

LEMMA EpilogSession == TypeOK /\ SemInv /\ SessionInv /\ EpilogsWork /\ ~interrupted' /\ EpilogStep => SessionInv'
<1> SUFFICES ASSUME TypeOK, SemInv, SessionInv, EpilogsWork, ~interrupted', EpilogStep PROVE SessionInv' OBVIOUS
<1> USE BoundsAssumption DEF TypeOK, hooks, slurmd, ipc, efps, At, Goto, Return
<1>0. hook \in {"ended"} \union EpilogAt /\ up => run \in Runs
  BY DEF SemInv, SignalInv, EpilogAt
\* Nobody is at work and the region goes: enough for every way to return.
<1>a. ASSUME \A r \in Runs : efp[r] \notin Working, efp' = efp, shm' = NoRegion,
             hook' = "idle"
      PROVE  SessionInv'
  BY <1>a DEF SessionInv
\* The hook goes on.
<1>b. ASSUME UNCHANGED <<run, name, shm, efp>>, hook' \in EpilogAt,
             hook' \in {"e_reap", "e_clean", "e_region"} => efp[run] \notin Working
      PROVE  SessionInv'
  BY <1>b DEF SessionInv, EpilogAt
<1>1. CASE EpilogSkipped BY <1>1 DEF EpilogSkipped, EpilogsWork
<1>2. CASE EpilogOpensRegion
  <2>1. /\ hook = "ended" /\ up /\ UNCHANGED <<run, name, efp>> /\ "epilog" \notin Faults
        /\ \/ hook' = "e_resume" /\ shm' = shm
           \/ shm <= 0 /\ shm' = NoRegion /\ hook' = "idle"
    BY <1>2 DEF EpilogOpensRegion, EpilogsWork, NamesAnEfp, IpcOK
  <2> QED BY <1>0, <1>a, <1>b, <2>1, NobodyLeft DEF EpilogAt
<1>3. CASE EpilogOpensResume
  <2>1. /\ hook = "e_resume" /\ up /\ UNCHANGED <<run, name, efp>>
        /\ \/ hook' = "e_exit" /\ shm' = shm
           \/ name["efp"] = 0 /\ shm' = NoRegion /\ hook' = "idle"
    BY <1>3 DEF EpilogOpensResume, EpilogGivesUp, EpilogsWork, Linked
  <2> QED BY <1>0, <1>a, <1>b, <2>1, NobodyLeft DEF EpilogAt
<1>4. CASE EpilogOpensExit
  <2>1. /\ hook = "e_exit" /\ up /\ UNCHANGED <<run, name, efp>>
        /\ \/ hook' = "e_post" /\ shm' = shm
           \/ name["exit"] = 0 /\ shm' = NoRegion /\ hook' = "idle"
    BY <1>4 DEF EpilogOpensExit, EpilogGivesUp, EpilogsWork, Linked
  <2> QED BY <1>0, <1>a, <1>b, <2>1, NobodyLeft DEF EpilogAt
<1>5. CASE EpilogPosts
  BY <1>b, <1>5 DEF EpilogPosts, EpilogsWork, EpilogAt
\* The pid is the current run's.
<1>6. hook \in EpilogAt => h.pid = run
  BY DEF SessionInv, SemInv, NamesInv, SignalInv, Forked, HookOK
<1>7. CASE EpilogReleased
  <2>1. WindowInv' BY <1>7, EpilogWindow DEF SemInv, EpilogStep, EpilogsWork
  <2>2. efp'[h'.pid] \notin Working
    BY <1>7, <2>1 DEF EpilogReleased, WindowInv, NothingToDo
  <2>3. h'.pid = run
    BY <1>6, <1>7 DEF EpilogReleased, EpilogAt
  <2> QED BY <1>b, <1>7, <2>2, <2>3 DEF EpilogReleased, EpilogAt
<1>8. CASE EpilogInterrupted BY <1>8 DEF EpilogInterrupted, EpilogsWork
<1>9. CASE EpilogTimesOut BY <1>b, <1>9 DEF EpilogTimesOut, EpilogAt
<1>10. CASE EpilogKills
  <2>1. /\ UNCHANGED <<run, name, shm>> /\ hook' = "e_reap" /\ h.pid = run /\ run \in Runs
        /\ \A r \in Runs : efp'[r] = IF r = h.pid /\ efp[r] \in Alive THEN "dying" ELSE efp[r]
    BY <1>0, <1>6, <1>10, KillValues DEF EpilogKills, EpilogAt
  <2> QED BY <2>1 DEF SessionInv, Working, Alive
<1>11. CASE EpilogReaps
  <2>1. /\ UNCHANGED <<run, name, shm>> /\ hook = "e_reap" /\ hook' \in {"e_reap", "e_clean"}
        /\ run \in Runs
        /\ \A r \in Runs : efp'[r] = efp[r] \/ efp'[r] = "gone"
    BY <1>0, <1>11 DEF EpilogReaps, EfpOK, EpilogAt
  <2> QED BY <2>1 DEF SessionInv, Working, Alive
<1>12. CASE EpilogUnlinksSems
  <2>1. /\ UNCHANGED <<run, shm, efp>> /\ hook = "e_clean" /\ hook' = "e_region"
    BY <1>12 DEF EpilogUnlinksSems
  <2> QED BY <2>1 DEF SessionInv, Making
<1>13. CASE EpilogUnlinksRegion
  <2>1. hook = "e_region" /\ hook' = "idle" /\ shm' = NoRegion /\ UNCHANGED <<run, efp>>
    BY <1>13 DEF EpilogUnlinksRegion
  <2>2. \A r \in Runs : efp[r] \notin Working BY <2>1 DEF SessionInv
  <2> QED BY <1>a, <2>1, <2>2
<1> QED BY <1>1, <1>2, <1>3, <1>4, <1>5, <1>7, <1>8, <1>9, <1>10, <1>11, <1>12, <1>13 DEF EpilogStep

LEMMA EfpSession == ASSUME TypeOK, SemInv, SessionInv, NEW r \in Runs, EfpStep(r) PROVE SessionInv'
<1> USE DEF TypeOK
<1>1. efp'[r] \in Working => r = run
  BY EfpEffect DEF SessionInv
<1>2. \A p \in Runs \ {r} : efp'[p] = efp[p]
  BY EfpEffect
<1>3. UNCHANGED <<run, hook, shm, up>>
  BY EfpEffect
<1>4. efp'[r] \in Working => efp[r] \in Working
  BY EfpEffect
<1>5. CASE efp[r] \in Working
  <2>1. r = run BY <1>5 DEF SessionInv
  <2>2. \A p \in Runs \ {r} : efp'[p] \notin Working
    BY <1>2, <2>1 DEF SessionInv
  <2>3. /\ efp'[r] \in Working \ {"boot", "mk_efp"} => name'["efp"] = r
        /\ efp'[r] \in Working \ {"boot", "mk_efp", "mk_exit"} => name'["exit"] = r
    <3> USE DEF Working, Alive, Making
    <3>1. CASE name' = name /\ efp'[r] \notin Making
      <4>1. efp'[r] \in Working => efp[r] \in (Working \ Making) \union {"setup"}
        BY <3>1, EfpEffect
      <4> QED BY <3>1, <4>1 DEF SessionInv
    <3>2. CASE efp'[r] \in {"boot", "mk_efp", "exiting"}
      BY <3>2
    <3>3. CASE efp[r] = "mk_efp" /\ efp'[r] = "mk_exit" /\ name'["efp"] = r
      BY <3>3
    <3>4. CASE /\ efp[r] = "mk_exit" /\ efp'[r] = "setup"
               /\ name'["efp"] = name["efp"] /\ name'["exit"] = r
      BY <3>4 DEF SessionInv
    <3> QED BY <3>1, <3>2, <3>3, <3>4, EfpEffect
  <2>4. /\ hook' \notin {"idle", "e_reap", "e_clean", "e_region"}
        /\ shm' > 0 => shm' = run'
        /\ hook' \in {"p_close", "running"} => shm' = run'
        /\ hook' = "ended" /\ up' => shm' = run' \/ efp'[run'] \notin Working
    BY <1>3, <1>5, <2>1 DEF SessionInv
  <2>5. \A p \in Runs :
           /\ efp'[p] \in Working => p = run'
           /\ efp'[p] \in Working \ {"boot", "mk_efp"} => name'["efp"] = p
           /\ efp'[p] \in Working \ {"boot", "mk_efp", "mk_exit"} => name'["exit"] = p
    BY <1>1, <1>3, <2>2, <2>3
  <2> QED BY <2>4, <2>5 DEF SessionInv
<1>6. CASE efp[r] \notin Working
  <2>1. name' = name BY <1>6, EfpEffect DEF Making, Working, Alive
  <2>2. \A p \in Runs : efp'[p] = efp[p] \/ efp'[p] \notin Working
    BY <1>2, <1>4, <1>6
  <2>3. hook # "idle" => run \in Runs BY DEF SemInv, SignalInv
  <2> QED BY <1>3, <2>1, <2>2, <2>3 DEF SessionInv
<1> QED BY <1>5, <1>6

LEMMA SlurmdSession == TypeOK /\ SemInv /\ SessionInv /\ SlurmdStep => SessionInv'
<1> SUFFICES ASSUME TypeOK, SemInv, SessionInv, SlurmdStep PROVE SessionInv' OBVIOUS
<1> USE DEF hooks, slurmd, ipc, efps, Working, Alive
<1>1. CASE SlurmdDies
  <2>1. /\ UNCHANGED <<run, shm, name>> /\ ~up'
        /\ hook' \in {"idle", "running", "ended"}
        /\ hook' # "ended" => hook' = hook
        /\ \A r \in Runs : efp'[r] = IF efp[r] = "zombie" THEN "gone" ELSE efp[r]
    BY <1>1 DEF SlurmdDies, Due, Return, TypeOK, HookOK
  <2> QED BY <2>1 DEF SessionInv
<1>2. CASE SlurmdStarts
  <2>1. /\ UNCHANGED <<run, hook, shm, name, efp>>
        /\ \A r \in Runs : efp[r] \notin Working
    BY <1>2 DEF SlurmdStarts
  <2>2. hook # "idle" => run \in Runs BY DEF SemInv, SignalInv
  <2> QED BY <2>1, <2>2 DEF SessionInv
<1>3. ASSUME NEW r \in Runs, OperatorKills(r) PROVE SessionInv'
  <2>1. /\ UNCHANGED <<run, hook, shm, name, up>> /\ ~up
        /\ \A p \in Runs : efp'[p] = IF p = r /\ efp[p] \in Alive THEN "dying" ELSE efp[p]
    BY <1>3, KillValues DEF OperatorKills
  <2>2. hook # "idle" => run \in Runs BY DEF SemInv, SignalInv
  <2> QED BY <2>1, <2>2 DEF SessionInv
<1> QED BY <1>1, <1>2, <1>3 DEF SlurmdStep

LEMMA NextSession ==
    TypeOK /\ SemInv /\ SessionInv /\ EpilogsWork /\ ~interrupted' /\ [Next]_vars => SessionInv'
<1> SUFFICES ASSUME TypeOK, SemInv, SessionInv, EpilogsWork, ~interrupted', [Next]_vars
             PROVE  SessionInv'
  OBVIOUS
<1>1. CASE JobEnds
  <2>1. hook = "running" /\ hook' = "ended" /\ UNCHANGED <<run, shm, name, efp>>
    BY <1>1 DEF JobEnds, Goto, ipc, efps
  <2> QED BY <2>1 DEF SessionInv
<1>2. CASE UNCHANGED vars
  BY <1>2 DEF vars, hooks, slurmd, ipc, efps, SessionInv
<1> QED BY <1>1, <1>2, PrologSession, EpilogSession, EfpSession, SlurmdSession DEF Next, Finished

\* When epilogs run and can do their work, for any number of runs and restarts and
\* wherever prologs and EFPs fail or stall: only the current run's EFP is at work,
\* and it can be found by its pid and its names.
THEOREM SessionInvariant == ASSUME EpilogsWork PROVE Spec => []SessionInv
<1>1. TypeOK /\ SemInv /\ SessionInv /\ ~interrupted' /\ [Next]_vars => SessionInv' BY NextSession
<1>2. "eintr" \notin Faults BY DEF EpilogsWork
<1> QED BY <1>1, <1>2, InitSession, TypeCorrect, SemInvariantUninterrupted, PTL DEF Spec

\* The EFP of an earlier run never works beside that of a later one.
THEOREM OneEfpWorks == ASSUME EpilogsWork PROVE Spec => []EarlierEfpsOver
<1>1. TypeOK /\ SessionInv => EarlierEfpsOver
  BY BoundsAssumption DEF SessionInv, EarlierEfpsOver, TypeOK, HookOK
<1> QED BY <1>1, SessionInvariant, TypeCorrect, PTL

\* An epilog that finds no pid has no EFP to look after.
THEOREM SentinelTold == ASSUME EpilogsWork PROVE Spec => []SentinelMeansNoEfp
<1>1. TypeOK /\ SemInv /\ SessionInv => SentinelMeansNoEfp
  BY BoundsAssumption DEF SessionInv, SemInv, SignalInv, SentinelMeansNoEfp, At
<1>2. "eintr" \notin Faults BY DEF EpilogsWork
<1> QED BY <1>1, <1>2, SessionInvariant, SemInvariantUninterrupted, TypeCorrect, PTL

\* The pid an epilog has read is its own run's.
THEOREM OwnRunAddressed == ASSUME EpilogsWork PROVE Spec => []EpilogAddressesThisRun
<1>1. TypeOK /\ SemInv /\ SessionInv => EpilogAddressesThisRun
  BY DEF SessionInv, SemInv, NamesInv, SignalInv, Forked, EpilogAddressesThisRun, TypeOK, HookOK
<1>2. "eintr" \notin Faults BY DEF EpilogsWork
<1> QED BY <1>1, <1>2, SessionInvariant, SemInvariantUninterrupted, TypeCorrect, PTL

-----------------------------------------------------------------------------
(* EpsNode implements EpsSessions.                                         *)

Stages == [r \in Runs |-> Stage(efp[r])]

LEMMA StagesSame ==
    ASSUME \A p \in Runs : Stage(efp'[p]) = Stage(efp[p])
    PROVE  Stages' = Stages
  BY DEF Stages

LEMMA StageTurns ==
    ASSUME NEW r \in Runs, \A p \in Runs \ {r} : efp'[p] = efp[p],
           NEW from, Stage(efp[r]) \in from, NEW to, Stage(efp'[r]) = to
    PROVE  /\ Stages[r] \in from
           /\ Stages' = [Stages EXCEPT ![r] = to]
  BY DEF Stages

LEMMA PhaseIs ==
    /\ hook = "idle" => Phase = "idle"
    /\ hook \in PrologAt => Phase = "preparing"
    /\ hook = "running" => Phase = "running"
    /\ hook \in {"ended"} \union EpilogAt => Phase = "terminating"
  BY DEF Phase, PrologAt, EpilogAt

LEMMA PhaseIsNext ==
    /\ hook' = "idle" => Phase' = "idle"
    /\ hook' \in PrologAt => Phase' = "preparing"
    /\ hook' = "running" => Phase' = "running"
    /\ hook' \in {"ended"} \union EpilogAt => Phase' = "terminating"
  BY DEF Phase, PrologAt, EpilogAt

LEMMA PrologRefines ==
    TypeOK /\ SemInv /\ SessionInv /\ SessionInv' /\ EpilogsWork /\ PrologStep
        => [Sessions!SessionsNext]_(Sessions!view)
<1> SUFFICES ASSUME TypeOK, SemInv, SessionInv, SessionInv', EpilogsWork, PrologStep
             PROVE  [Sessions!SessionsNext]_(Sessions!view)
  OBVIOUS
<1> USE BoundsAssumption
        DEF TypeOK, At, Goto, Return, efps, Stages, Sessions!view, Sessions!SessionsNext,
            Sessions!Turns
<1>1. CASE PrologFails \/ PrologCreatesRegion
  <2>1. /\ hook = "idle" /\ run < MaxRuns /\ run' = run + 1 /\ efp' = efp
        /\ hook' \in {"p_mark", "ended"}
    BY <1>1 DEF PrologFails, PrologCreatesRegion
  <2>2. Phase = "idle" /\ Phase' \in {"preparing", "terminating"}
    BY <2>1, PhaseIs, PhaseIsNext DEF PrologAt
  <2>3. \A r \in Runs : Stages[r] \in {"none", "over"}
    BY <2>1 DEF SessionInv, Stage, Working, Alive
  <2>4. Sessions!Begins
    BY <2>1, <2>2, <2>3, StagesSame DEF Sessions!Begins, Sessions!Closed, Sessions!Runs
  <2> QED BY <2>4
\* What leaves the EFPs alone is a step of the phase.
<1>a. ASSUME UNCHANGED <<run, efp>>, hook \in PrologAt,
             hook' \in PrologAt \union {"running", "ended"}
      PROVE  [Sessions!SessionsNext]_(Sessions!view)
  <2>1. Phase = "preparing" /\ Phase' \in {"preparing", "running", "terminating"}
    BY <1>a, PhaseIs, PhaseIsNext
  <2>2. Sessions!Prepared \/ UNCHANGED Sessions!view
    BY <1>a, <2>1, StagesSame DEF Sessions!Prepared
  <2> QED BY <2>2
<1>2. CASE PrologForks
  <2>1. /\ run' = run /\ run \in Runs /\ efp[run] = "none" /\ hook = "p_fork"
        /\ \/ efp' = efp /\ hook' = "ended"
           \/ efp' = [efp EXCEPT ![run] = "boot"] /\ hook' \in {"p_wait", "p_wait_untimed"}
    BY <1>2 DEF PrologForks, SemInv, SignalInv, ObjectsInv
  <2>2. CASE efp' = efp /\ hook' = "ended"
    BY <1>a, <2>1, <2>2 DEF PrologAt
  <2>3. CASE efp' = [efp EXCEPT ![run] = "boot"] /\ hook' \in {"p_wait", "p_wait_untimed"}
    <3>1. Phase = "preparing" /\ Phase' = "preparing"
      BY <2>1, <2>3, PhaseIs, PhaseIsNext DEF PrologAt
    <3>2. efp'[run] = "boot" /\ \A p \in Runs \ {run} : efp'[p] = efp[p]
      BY <2>1, <2>3 DEF EfpOK
    <3>3. Stage(efp[run]) = "none" /\ Stage(efp'[run]) = "measuring"
      BY <2>1, <3>2 DEF Stage, Working, Alive
    <3>4. Stages[run] \in {"none"} /\ Stages' = [Stages EXCEPT ![run] = "measuring"]
      BY <2>1, <3>2, <3>3, StageTurns
    <3>5. Sessions!Opens BY <2>1, <3>1, <3>4 DEF Sessions!Opens
    <3> QED BY <3>5
  <2> QED BY <2>1, <2>2, <2>3
<1>3. CASE PrologKills
  <2>1. /\ run' = run /\ run \in Runs /\ hook = "p_kill" /\ hook' = "ended"
        /\ efp[run] # "none"
        /\ \A r \in Runs : efp'[r] = IF r = run /\ efp[r] \in Alive THEN "dying" ELSE efp[r]
    BY <1>3, KillValues DEF PrologKills, SemInv, SignalInv, Forked
  <2>2. Phase = "preparing" /\ Phase' = "terminating"
    BY <2>1, PhaseIs, PhaseIsNext DEF PrologAt
  <2>3. efp[run] \notin {"final", "finish"}
    BY <2>1 DEF SemInv, WindowInv, Window, PrologAt
  <2>4. CASE efp[run] \in Working
    <3>1. Stage(efp[run]) = "measuring" /\ Stage(efp'[run]) = "over"
      BY <2>1, <2>3, <2>4 DEF Stage, Working, Alive
    <3>2. Stages[run] \in {"measuring"} /\ Stages' = [Stages EXCEPT ![run] = "over"]
      BY <2>1, <3>1, StageTurns
    <3>3. Sessions!Prepared BY <2>1, <2>2, <3>2 DEF Sessions!Prepared
    <3> QED BY <3>3
  <2>5. CASE efp[run] \notin Working
    <3>1. \A p \in Runs : Stage(efp'[p]) = Stage(efp[p])
      BY <2>1, <2>5 DEF Stage, Working, Alive
    <3>2. Sessions!Prepared BY <2>1, <2>2, <3>1, StagesSame DEF Sessions!Prepared
    <3> QED BY <3>2
  <2> QED BY <2>4, <2>5
<1>4. CASE PrologMarks \/ PrologOpensSem \/ PrologReleased \/ PrologTimesOut
           \/ PrologPublishes \/ PrologCloses
  BY <1>a, <1>4 DEF PrologMarks, PrologOpensSem, PrologReleased, PrologTimesOut, PrologPublishes,
                    PrologCloses, PrologAt
<1>5. CASE PrologInterrupted BY <1>5 DEF PrologInterrupted, EpilogsWork
<1> QED BY <1>1, <1>2, <1>3, <1>4, <1>5 DEF PrologStep

LEMMA EpilogRefines ==
    TypeOK /\ SemInv /\ SessionInv /\ SessionInv' /\ EpilogStep
        => [Sessions!SessionsNext]_(Sessions!view)
<1> SUFFICES ASSUME TypeOK, SemInv, SessionInv, SessionInv', EpilogStep
             PROVE  [Sessions!SessionsNext]_(Sessions!view)
  OBVIOUS
<1> USE BoundsAssumption
        DEF TypeOK, At, Goto, Return, efps, Stages, Sessions!view, Sessions!SessionsNext,
            Sessions!Turns
<1>1. /\ run' = run /\ hook \in {"ended"} \union EpilogAt
      /\ hook' \in {"idle"} \union EpilogAt
  BY DEF EpilogStep, EpilogSkipped, EpilogOpensRegion, EpilogOpensResume, EpilogOpensExit,
         EpilogGivesUp, EpilogPosts, EpilogReleased, EpilogInterrupted, EpilogTimesOut,
         EpilogKills, EpilogReaps, EpilogUnlinksSems, EpilogUnlinksRegion, EpilogAt
<1>2. run \in Runs
  BY <1>1 DEF SemInv, SignalInv, EpilogAt
<1>3. Phase = "terminating" /\ Phase' \in {"idle", "terminating"}
  BY <1>1, PhaseIs, PhaseIsNext
<1>4. CASE EpilogKills
  <2>1. /\ hook = "e_kill" /\ hook' = "e_reap"
        /\ \A r \in Runs : efp'[r] = IF r = h.pid /\ efp[r] \in Alive THEN "dying" ELSE efp[r]
    BY <1>4, KillValues DEF EpilogKills
  <2>2. h.pid = run /\ efp[run] # "none"
    BY <2>1 DEF SemInv, SignalInv, NamesInv, SessionInv, Forked, EpilogAt, HookOK
  <2>3. Phase' = "terminating"
    BY <2>1, PhaseIsNext DEF EpilogAt
  <2>4. CASE efp[run] \in Working
    <3>1. Stage(efp[run]) \in {"measuring", "recording"} /\ Stage(efp'[run]) = "over"
      BY <1>2, <2>1, <2>2, <2>4 DEF Stage, Working, Alive
    <3>2. Stages[run] \in {"measuring", "recording"} /\ Stages' = [Stages EXCEPT ![run] = "over"]
      BY <1>2, <2>1, <2>2, <3>1, StageTurns
    <3>3. Sessions!Closes BY <1>1, <1>3, <2>3, <3>2 DEF Sessions!Closes
    <3> QED BY <3>3
  <2>5. CASE efp[run] \notin Working
    <3>1. \A p \in Runs : Stage(efp'[p]) = Stage(efp[p])
      BY <2>1, <2>2, <2>5 DEF Stage, Working, Alive
    <3> QED BY <1>1, <1>3, <2>3, <3>1, StagesSame
  <2> QED BY <2>4, <2>5
<1>5. CASE ~EpilogKills
  <2>1. \A p \in Runs : efp'[p] = efp[p] \/ (efp[p] \in {"zombie", "gone"} /\ efp'[p] = "gone")
    BY <1>5 DEF EpilogStep, EpilogSkipped, EpilogOpensRegion, EpilogOpensResume, EpilogOpensExit,
         EpilogGivesUp, EpilogPosts, EpilogReleased, EpilogInterrupted, EpilogTimesOut,
         EpilogReaps, EpilogUnlinksSems, EpilogUnlinksRegion, EfpOK
  <2>2. Stages' = Stages
    BY <2>1, StagesSame DEF Stage, Working, Alive
  <2>3. CASE hook' = "idle"
    <3>1. Stages[run] \in {"none", "over"}
      <4>1. efp'[run] \notin Working BY <1>1, <1>2, <2>3 DEF SessionInv
      <4>2. Stage(efp'[run]) \in {"none", "over"} BY <4>1 DEF Stage, Working, Alive
      <4>3. Stages'[run] \in {"none", "over"} BY <1>2, <4>2
      <4> QED BY <2>2, <4>3
    <3>2. Phase' = "idle" BY <2>3, PhaseIsNext
    <3>3. Sessions!RunOver
      BY <1>1, <1>3, <2>2, <3>1, <3>2 DEF Sessions!RunOver, Sessions!Closed
    <3> QED BY <3>3
  <2>4. CASE hook' \in EpilogAt
    BY <1>1, <1>3, <2>2, <2>4, PhaseIsNext
  <2> QED BY <1>1, <2>3, <2>4
<1> QED BY <1>4, <1>5

LEMMA EfpRefines ==
    ASSUME TypeOK, SemInv, SemInv', SessionInv, NEW r \in Runs, EfpStep(r)
    PROVE  [Sessions!SessionsNext]_(Sessions!view)
<1> USE BoundsAssumption
        DEF TypeOK, Stages, Sessions!view, Sessions!SessionsNext, Sessions!Turns
<1>1. UNCHANGED <<run, hook>> /\ \A p \in Runs \ {r} : efp'[p] = efp[p]
  BY EfpEffect
<1>2. Phase' = Phase
  BY <1>1 DEF Phase
<1>3. \/ Stage(efp'[r]) = Stage(efp[r])
      \/ Stage(efp[r]) = "measuring" /\ efp[r] = "wait" /\ efp'[r] = "final"
      \/ Stage(efp[r]) \in {"measuring", "recording"} /\ Stage(efp'[r]) = "over"
  <2> USE DEF Stage, Working, Alive
  <2>1. CASE EfpOpensInit(r) BY <2>1, EfpMoved DEF EfpOpensInit
  <2>2. ASSUME NEW s, NEW from \in {"mk_efp", "mk_exit"}, NEW to \in {"mk_exit", "setup"},
               EfpMakes(r, s, from, to)
        PROVE  efp[r] \in {"mk_efp", "mk_exit"} /\ efp'[r] \in {"mk_exit", "setup", "exiting"}
    BY <2>2, EfpMoved DEF EfpMakes
  <2>3. CASE EfpMakesResume(r) \/ EfpMakesExit(r)
    <3>1. efp[r] \in {"mk_efp", "mk_exit"} /\ efp'[r] \in {"mk_exit", "setup", "exiting"}
      BY <2>2, <2>3 DEF EfpMakesResume, EfpMakesExit
    <3> QED BY <3>1
  <2>4. CASE EfpInits(r) BY <2>4, EfpMoved DEF EfpInits
  <2>5. CASE EfpReadsBaseline(r) BY <2>5, EfpMoved DEF EfpReadsBaseline
  <2>6. CASE EfpResumes(r) BY <2>6, EfpMoved DEF EfpResumes
  <2>7. CASE EfpInterrupted(r) BY <2>7, EfpMoved DEF EfpInterrupted
  <2>8. CASE EfpRecords(r) BY <2>8, EfpMoved DEF EfpRecords
  <2>9. CASE EfpPostsExit(r) BY <2>9, EfpMoved DEF EfpPostsExit
  <2>10. CASE EfpFails(r) BY <2>10 DEF EfpFails, EfpOK
  <2>11. CASE EfpEnds(r) BY <2>11 DEF EfpEnds, Ended, EfpOK
  <2> QED BY <2>1, <2>3, <2>4, <2>5, <2>6, <2>7, <2>8, <2>9, <2>10, <2>11 DEF EfpStep
<1>4. CASE Stage(efp'[r]) = Stage(efp[r])
  BY <1>1, <1>2, <1>4, StagesSame
<1>5. Stage(efp[r]) \in {"measuring", "recording"} => efp[r] \in Working
  BY DEF Stage, Working, Alive
\* Final readings: WindowInv holds afterwards, so that the job is over.
<1>6. CASE Stage(efp[r]) = "measuring" /\ efp[r] = "wait" /\ efp'[r] = "final"
  <2>1. r = run BY <1>5, <1>6 DEF SessionInv
  <2>2. hook \notin PrologAt \union {"running"}
    BY <1>1, <1>6, <2>1 DEF SemInv, WindowInv, Window
  <2>3. hook # "idle" BY <1>5, <1>6 DEF SessionInv
  <2>4. Phase = "terminating"
    BY <2>2, <2>3, PhaseIs DEF HookOK, HookAt
  <2>5. Stages[run] \in {"measuring"} /\ Stages' = [Stages EXCEPT ![run] = "recording"]
    BY <1>1, <1>6, <2>1, StageTurns DEF Stage
  <2>6. Sessions!Records BY <1>1, <1>2, <2>4, <2>5 DEF Sessions!Records
  <2> QED BY <2>6
<1>7. CASE Stage(efp[r]) \in {"measuring", "recording"} /\ Stage(efp'[r]) = "over"
  <2>1. r = run /\ hook # "idle" BY <1>5, <1>7 DEF SessionInv
  <2>2. Phase # "idle" BY <2>1 DEF Phase
  <2>3. Stages[run] \in {"measuring", "recording"} /\ Stages' = [Stages EXCEPT ![run] = "over"]
    BY <1>1, <1>7, <2>1, StageTurns
  <2>4. Sessions!Closes BY <1>1, <1>2, <2>2, <2>3 DEF Sessions!Closes
  <2> QED BY <2>4
<1> QED BY <1>3, <1>4, <1>6, <1>7

LEMMA SlurmdRefines ==
    TypeOK /\ SemInv /\ SessionInv /\ SlurmdStep => [Sessions!SessionsNext]_(Sessions!view)
<1> SUFFICES ASSUME TypeOK, SemInv, SessionInv, SlurmdStep
             PROVE  [Sessions!SessionsNext]_(Sessions!view)
  OBVIOUS
<1> USE BoundsAssumption
        DEF TypeOK, hooks, efps, Stages, Sessions!view, Sessions!SessionsNext, Sessions!Turns
<1>1. CASE SlurmdDies
  <2>1. /\ run' = run /\ up /\ hook' = Due
        /\ \A r \in Runs : efp'[r] = IF efp[r] = "zombie" THEN "gone" ELSE efp[r]
    BY <1>1 DEF SlurmdDies, Return
  <2>2. Stages' = Stages
    BY <2>1, StagesSame DEF Stage, Working, Alive
  <2>3. CASE hook \in PrologAt
    <3>1. Phase = "preparing" /\ Phase' = "terminating"
      BY <2>1, <2>3, PhaseIs, PhaseIsNext DEF Due, PrologAt
    <3>2. Sessions!Prepared BY <2>1, <2>2, <3>1 DEF Sessions!Prepared
    <3> QED BY <3>2
  <2>4. CASE hook \notin PrologAt
    <3>1. Phase' = Phase
      BY <2>1, <2>4, PhaseIs, PhaseIsNext DEF Due, HookOK, HookAt, EpilogAt
    <3> QED BY <2>1, <2>2, <3>1
  <2> QED BY <2>3, <2>4
<1>2. CASE SlurmdStarts BY <1>2 DEF SlurmdStarts, Phase
<1>3. ASSUME NEW r \in Runs, OperatorKills(r) PROVE [Sessions!SessionsNext]_(Sessions!view)
  <2>1. /\ UNCHANGED <<run, hook>>
        /\ efp'[r] = "dying" /\ efp[r] \in Alive
        /\ \A p \in Runs \ {r} : efp'[p] = efp[p]
    BY <1>3, KillValues DEF OperatorKills
  <2>2. Phase' = Phase BY <2>1 DEF Phase
  <2>3. CASE efp[r] \in Working
    <3>1. r = run /\ hook # "idle" BY <2>3 DEF SessionInv
    <3>2. Stage(efp[r]) \in {"measuring", "recording"} /\ Stage(efp'[r]) = "over"
      BY <2>1, <2>3 DEF Stage, Working, Alive
    <3>3. Stages[run] \in {"measuring", "recording"} /\ Stages' = [Stages EXCEPT ![run] = "over"]
      BY <2>1, <3>1, <3>2, StageTurns
    <3>4. Phase # "idle" BY <3>1 DEF Phase
    <3>5. Sessions!Closes BY <2>1, <2>2, <3>3, <3>4 DEF Sessions!Closes
    <3> QED BY <3>5
  <2>4. CASE efp[r] \notin Working
    <3>1. Stages' = Stages
      BY <2>1, <2>4, StagesSame DEF Stage, Working, Alive
    <3> QED BY <2>1, <2>2, <3>1
  <2> QED BY <2>3, <2>4
<1> QED BY <1>1, <1>2, <1>3 DEF SlurmdStep

LEMMA SessionsStep ==
    TypeOK /\ SemInv /\ SessionInv /\ SemInv' /\ SessionInv' /\ EpilogsWork /\ [Next]_vars
        => [Sessions!SessionsNext]_(Sessions!view)
<1> SUFFICES ASSUME TypeOK, SemInv, SessionInv, SemInv', SessionInv', EpilogsWork, [Next]_vars
             PROVE  [Sessions!SessionsNext]_(Sessions!view)
  OBVIOUS
<1>1. CASE JobEnds
  <2>1. hook = "running" /\ hook' = "ended" /\ UNCHANGED <<run, efp>>
    BY <1>1 DEF JobEnds, Goto, efps
  <2>2. Phase = "running" /\ Phase' = "terminating"
    BY <2>1, PhaseIs, PhaseIsNext
  <2>3. Sessions!JobOver BY <2>1, <2>2 DEF Sessions!JobOver
  <2> QED BY <2>3 DEF Sessions!SessionsNext
<1>2. CASE UNCHANGED vars
  BY <1>2 DEF vars, hooks, efps, Sessions!view, Phase
<1> QED BY <1>1, <1>2, PrologRefines, EpilogRefines, EfpRefines, SlurmdRefines DEF Next, Finished

\* When epilogs run and can do their work, for any number of runs and restarts and
\* wherever prologs and EFPs fail or stall: the hooks and the EFPs do what
\* EpsSessions says, one session a run, recording after the job, over in time.
THEOREM ImplementsSessions == ASSUME EpilogsWork PROVE Spec => OneSessionPerRun
<1>1. Init => Sessions!SessionsInit
  <2> SUFFICES ASSUME Init PROVE Sessions!SessionsInit OBVIOUS
  <2>1. \A r \in Runs : Stage(efp[r]) = "none" BY DEF Init, Stage, Working, Alive
  <2>2. run = 0 /\ Phase = "idle" BY PhaseIs DEF Init
  <2> QED BY <2>1, <2>2 DEF Sessions!SessionsInit, Sessions!Runs
<1>2. TypeOK /\ SemInv /\ SessionInv /\ SemInv' /\ SessionInv' /\ [Next]_vars
         => [Sessions!SessionsNext]_(Sessions!view)
  BY SessionsStep
<1>3. "eintr" \notin Faults BY DEF EpilogsWork
<1> QED BY <1>1, <1>2, <1>3, TypeCorrect, SemInvariantUninterrupted, SessionInvariant, PTL
       DEF Spec, OneSessionPerRun, Sessions!SessionsSpec
==============================================================================
