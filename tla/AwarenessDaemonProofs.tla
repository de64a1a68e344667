------------------------ MODULE AwarenessDaemonProofs ------------------------
(***************************************************************************)
(* Theorems about AwarenessDaemon, for all values of its constants.        *)
(***************************************************************************)
EXTENDS AwarenessDaemon, TLAPS

LEMMA InitTyped == Init => TypeOK
<1> SUFFICES ASSUME Init PROVE TypeOK OBVIOUS
<1>1. since \in [Users -> 0..Interval] BY TimesAssumption DEF Init
<1> QED BY <1>1 DEF Init, TypeOK, WorkerStates

\* Time passes for every user, and nobody's passes backwards.
LEMMA PassesTyped ==
    ASSUME since \in [Users -> 0..Interval], NEW t \in Nat, Passes(t)
    PROVE  /\ since' \in [Users -> 0..Interval]
           /\ \A u \in Users : since'[u] >= since[u] /\ (t = Interval => since'[u] >= Interval)
<1>1. \A u \in Users : since'[u] = IF since[u] + t < Interval THEN since[u] + t ELSE Interval
  BY DEF Passes
<1>2. \A u \in Users : since[u] \in 0..Interval
  OBVIOUS
<1>3. \A u \in Users : since'[u] \in 0..Interval
  BY <1>1, <1>2, TimesAssumption
<1>4. since' \in [Users -> 0..Interval]
  BY <1>3 DEF Passes
<1>5. \A u \in Users : since'[u] >= since[u] /\ (t = Interval => since'[u] >= Interval)
  BY <1>1, <1>2, TimesAssumption
<1> QED BY <1>4, <1>5

LEMMA NextTyped == TypeOK /\ [Next]_vars => TypeOK'
<1> SUFFICES ASSUME TypeOK, [Next]_vars PROVE TypeOK' OBVIOUS
<1> USE TimesAssumption DEF TypeOK, WorkerStates, flags, batch, mailed, Goes
<1>1. CASE Start BY <1>1 DEF Start
<1>2. CASE Spawn BY <1>2 DEF Spawn
<1>3. CASE Join BY <1>3 DEF Join
<1>4. CASE Restarts BY <1>4, PassesTyped DEF Restarts
<1>5. CASE Stop BY <1>5 DEF Stop
<1>6. CASE StopWakes BY <1>6 DEF StopWakes
<1>7. CASE Loops BY <1>7 DEF Loops
<1>8. CASE Waits BY <1>8, PassesTyped DEF Waits
<1>9. CASE Reads BY <1>9 DEF Reads
<1>10. CASE Builds BY <1>10 DEF Builds, Dies
<1>11. CASE Connects BY <1>11 DEF Connects
<1>12. CASE Quits BY <1>12 DEF Quits, Dies
<1>13. ASSUME NEW u \in Users, Sends(u) PROVE TypeOK'
  BY <1>13 DEF Sends, Reaches
<1>14. ASSUME NEW u \in Users, Fails(u) PROVE TypeOK'
  <2>1. /\ UNCHANGED <<flags, sup, worker, sent, stopped, late>> /\ messages' = messages \ {u}
        /\ conn' \in {"dropped", conn}
        /\ UNCHANGED <<reached, since, cut>> \/ Reaches(u)
    BY <1>14 DEF Fails
  <2>2. reached' \subseteq Users /\ since' \in [Users -> 0..Interval]
    BY <2>1 DEF Reaches
  <2>3. cut' \in [Users -> BOOLEAN]
    BY <2>1 DEF Reaches
  <2> QED BY <2>1, <2>2, <2>3
<1>15. CASE ProcessRestarts BY <1>15 DEF ProcessRestarts
<1>16. CASE UNCHANGED vars BY <1>16 DEF vars
<1> QED BY <1>1, <1>2, <1>3, <1>4, <1>5, <1>6, <1>7, <1>8, <1>9, <1>10, <1>11, <1>12, <1>13,
           <1>14, <1>15, <1>16 DEF Next, SupervisorStep, WorkerStep, Over

\* The daemon's state is of its types, for any users, times and faults.
THEOREM TypeCorrect == Spec => []TypeOK
  BY InitTyped, NextTyped, PTL DEF Spec

-----------------------------------------------------------------------------
(* The count of mails.                                                     *)

\* No mail is counted that the server has not accepted, wherever the connection
\* is lost in a batch of any size.
THEOREM CountsAccepted == Spec => []SentWereAccepted
<1>1. Init => SentWereAccepted BY DEF Init, SentWereAccepted
<1>2. SentWereAccepted /\ [Next]_vars => SentWereAccepted'
  BY DEF SentWereAccepted, Next, SupervisorStep, WorkerStep, Start, Spawn, Join, Restarts, Stop,
         StopWakes, Loops, Waits, Reads, Builds, Connects, Quits, Sends, Fails, Reaches,
         ProcessRestarts, Over, vars, batch
<1> QED BY <1>1, <1>2, PTL DEF Spec

-----------------------------------------------------------------------------
(* When a user is mailed, and when the worker stops.                       *)

LEMMA InitDue == Init => DueInv
<1> SUFFICES ASSUME Init PROVE DueInv OBVIOUS
<1>0. \A u \in Users : since[u] = Interval BY DEF Init
<1>a. Interval >= Interval BY TimesAssumption
<1>1. AllDue
  <2>1. ASSUME NEW u \in Users PROVE since[u] >= Interval
    BY <1>0, <1>a
  <2> QED BY <2>1 DEF AllDue, Due
<1> QED BY <1>1 DEF Init, DueInv

\* Who is due remains so as long as he is not mailed.
LEMMA StillDue ==
    ASSUME TypeOK, NEW u \in Users, Due(u),
           since'[u] >= since[u], since'[u] \in Nat, cut'[u] = cut[u] \/ cut'[u] = TRUE
    PROVE  Due(u)'
  BY TimesAssumption DEF TypeOK, Due

LEMMA NextDue == TypeOK /\ DueInv /\ [Next]_vars => DueInv'
<1> SUFFICES ASSUME TypeOK, DueInv, [Next]_vars PROVE DueInv' OBVIOUS
<1> USE DEF flags, batch, mailed, Goes
<1>0. TypeOK' BY NextTyped
\* Nobody's time or mark changes.
<1>a. ASSUME UNCHANGED mailed PROVE (AllDue <=> AllDue') /\ \A u \in Users : Due(u) <=> Due(u)'
  BY <1>a DEF AllDue, Due
<1>1. CASE Start
  BY <1>1, <1>a DEF Start, DueInv
<1>2. CASE Spawn
  BY <1>2, <1>a DEF Spawn, DueInv
<1>3. CASE Join
  BY <1>3, <1>a DEF Join, DueInv
<1>4. CASE Restarts
  <2>1. \A u \in Users : since'[u] >= since[u] /\ cut'[u] = cut[u] /\ since'[u] \in Nat
    BY <1>4, PassesTyped, TimesAssumption DEF Restarts, TypeOK
  <2>2. \A u \in Users : Due(u) => Due(u)'
    BY <2>1, StillDue
  <2>3. AllDue => AllDue' BY <2>2 DEF AllDue
  <2> QED BY <1>4, <2>2, <2>3 DEF Restarts, DueInv, TypeOK
<1>5. CASE Stop
  BY <1>5, <1>a DEF Stop, DueInv, TypeOK
<1>6. CASE StopWakes
  BY <1>6, <1>a DEF StopWakes, DueInv, TypeOK
<1>7. CASE Loops
  BY <1>7, <1>a DEF Loops, DueInv
<1>8. CASE Waits
  <2>1. CASE wakeup
    BY <1>8, <2>1, <1>a DEF Waits, DueInv
  <2>2. CASE ~wakeup
    <3>1. \A u \in Users : since'[u] >= Interval
      BY <1>8, <2>2, PassesTyped, TimesAssumption DEF Waits, TypeOK
    <3>2. AllDue' BY <3>1 DEF AllDue, Due
    <3> QED BY <1>8, <2>2, <3>2 DEF Waits, DueInv
  <2> QED BY <2>1, <2>2
<1>9. CASE Reads
  BY <1>9, <1>a DEF Reads, DueInv
<1>b. ASSUME Dies PROVE AllDue'
  BY <1>b DEF Dies, AllDue, Due
<1>10. CASE Builds
  <2>1. CASE Dies BY <1>10, <1>b, <2>1 DEF Builds, DueInv, Dies
  <2>2. CASE worker' \in {"connect", "wait"} /\ UNCHANGED cut
    <3>1. AllDue' BY <1>10, <1>a, <2>2 DEF Builds, DueInv
    <3> QED BY <1>10, <2>2, <3>1 DEF Builds, DueInv
  <2> QED BY <1>10, <2>1, <2>2 DEF Builds
<1>11. CASE Connects
  BY <1>11, <1>a DEF Connects, DueInv, TypeOK, AllDue
<1>12. CASE Quits
  <2>1. CASE Dies BY <1>12, <1>b, <2>1 DEF Quits, DueInv, Dies
  <2>2. CASE worker' = "wait"
    BY <1>12, <2>2 DEF Quits, DueInv
  <2> QED BY <1>12, <2>1, <2>2 DEF Quits
<1>13. ASSUME NEW u \in Users, Sends(u) \/ Fails(u) PROVE DueInv'
  <2>1. /\ worker = "send" /\ worker' = "send" /\ messages' = messages \ {u}
        /\ UNCHANGED <<running, wakeup, sup, stopped>>
        /\ \A v \in Users \ {u} : since'[v] = since[v] /\ cut'[v] = cut[v]
    BY <1>13 DEF Sends, Fails, Reaches, TypeOK
  <2>2. \A v \in messages' : Due(v)'
    BY <2>1 DEF DueInv, TypeOK, Due
  <2> QED BY <2>1, <2>2 DEF DueInv
<1>14. CASE ProcessRestarts
  <2>1. AllDue' BY <1>14 DEF ProcessRestarts, AllDue, Due
  <2> QED BY <1>14, <2>1 DEF ProcessRestarts, DueInv
<1>15. CASE UNCHANGED vars
  BY <1>15, <1>a DEF vars, DueInv, TypeOK
<1> QED BY <1>1, <1>2, <1>3, <1>4, <1>5, <1>6, <1>7, <1>8, <1>9, <1>10, <1>11, <1>12, <1>13,
           <1>14, <1>15 DEF Next, SupervisorStep, WorkerStep, Over

\* No user is mailed twice within the interval, unless a worker or the process died
\* between: for any number of users, any interval and any faults of the server,
\* whoever calls stop() when.
THEOREM NeverEarly == Spec => NoEarlyMail
<1>1. TypeOK /\ DueInv /\ [Next]_vars
        => [\A u \in Users : u \in reached' \ reached => since[u] >= Interval \/ cut[u]]_vars
  <2> SUFFICES ASSUME TypeOK, DueInv, Next, NEW u \in Users, u \in reached' \ reached
               PROVE  Due(u)
    BY DEF Due
  <2>1. PICK v \in Users : Sends(v) \/ Fails(v)
    BY DEF Next, SupervisorStep, WorkerStep, Start, Spawn, Join, Restarts, Stop, StopWakes, Loops,
           Waits, Reads, Builds, Connects, Quits, ProcessRestarts, Over, vars, batch
  <2>2. worker = "send" /\ v \in messages /\ reached' \subseteq reached \union {v}
    BY <2>1 DEF Sends, Fails, Reaches
  <2> QED BY <2>2 DEF DueInv
<1>2. Init => DueInv BY InitDue
<1>3. TypeOK /\ DueInv /\ [Next]_vars => DueInv' BY NextDue
<1> QED BY <1>1, <1>2, <1>3, TypeCorrect, PTL DEF Spec, NoEarlyMail

LEMMA NextLast == TypeOK /\ DueInv /\ LastTickInv /\ [Next]_vars => LastTickInv'
<1> SUFFICES ASSUME TypeOK, DueInv, LastTickInv, [Next]_vars PROVE LastTickInv' OBVIOUS
<1> USE DEF flags, batch, mailed, Goes, LastTickInv, OneTickAfterStop
<1>1. CASE Reads
  BY <1>1 DEF Reads, TypeOK
<1>2. CASE Stop
  BY <1>2 DEF Stop
<1>3. CASE Loops
  BY <1>3 DEF Loops, DueInv
<1>4. CASE ProcessRestarts
  BY <1>4 DEF ProcessRestarts
<1>5. CASE ~Reads /\ ~Stop /\ ~Loops /\ ~ProcessRestarts
  <2>1. UNCHANGED <<late, stopped>> /\ (worker' = "tick" => worker = "tick")
    BY <1>5 DEF Next, SupervisorStep, WorkerStep, Start, Spawn, Join, Restarts, StopWakes, Waits,
           Builds, Connects, Quits, Dies, Sends, Fails, Over, vars
  <2> QED BY <2>1
<1> QED BY <1>1, <1>2, <1>3, <1>4, <1>5

\* Whenever stop() comes, at most one more tick begins.
THEOREM StopsAfterOneTick == Spec => []OneTickAfterStop
<1>1. Init => DueInv /\ LastTickInv BY InitDue DEF Init, LastTickInv, OneTickAfterStop
<1>2. TypeOK /\ DueInv /\ [Next]_vars => DueInv' BY NextDue
<1>3. TypeOK /\ DueInv /\ LastTickInv /\ [Next]_vars => LastTickInv' BY NextLast
<1>4. LastTickInv => OneTickAfterStop BY DEF LastTickInv
<1> QED BY <1>1, <1>2, <1>3, <1>4, TypeCorrect, PTL DEF Spec
==============================================================================
