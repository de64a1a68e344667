--------------------------- MODULE AwarenessDaemon ---------------------------
(***************************************************************************)
(* The awareness daemon's threads (daemon.py, mailer.py, main.py): the     *)
(* worker, which mails every user its consumption and waits for the        *)
(* interval to pass or for the event of stop(); the supervisor, which      *)
(* starts the worker again when it died; stop(), from any other thread;    *)
(* and the SMTP server.  Nothing of it is persistent: a new process knows  *)
(* no mail that was sent.                                                  *)
(*                                                                         *)
(* Time is counted where the threads sleep, so that `since' is the least   *)
(* time that can have passed; what a tick itself takes comes on top.  What *)
(* is read for a mail is the subject of AwarenessReports.                  *)
(***************************************************************************)
EXTENDS Integers

CONSTANTS Users,        \* users with energy and an e-mail address
          Interval,     \* email.sending_interval
          RestartDelay, \* DAEMON_RESTART_DELAY_SECONDS
          Enabled,      \* email.enabled
          Faults        \* what may fail, see FaultKinds

\* "read": the queries; "build": a message; "connect": to the SMTP server;
\* "refuse": a recipient; "drop": the connection before a message is accepted,
\* "reply": after; "quit": QUIT is answered with something else than 221;
\* "process": the whole process.
FaultKinds == {"read", "build", "connect", "refuse", "drop", "reply", "quit", "process"}

ASSUME TimesAssumption ==
    Interval \in Nat \ {0} /\ RestartDelay \in Nat \ {0}
ASSUME EnabledAssumption == Enabled \in BOOLEAN
ASSUME FaultsAssumption == Faults \subseteq FaultKinds

VARIABLES
    running, wakeup,    \* the daemon's flag and its event
    sup,        \* where the supervisor is
    worker,     \* where its worker is
    messages,   \* recipients left in the batch
    conn,       \* its connection: none, open or dropped
    sent,       \* recipients that send_batch has counted
    reached,    \* history: recipients this batch has reached
    since,      \* history: time since the user's last mail, an interval at most
    cut,        \* history: a worker died, or the process, since that mail
    stopped,    \* history: stop() was called
    late        \* history: ticks begun since

flags   == <<running, wakeup>>
batch   == <<messages, conn, sent, reached>>
mailed  == <<since, cut>>
vars    == <<flags, sup, worker, batch, mailed, stopped, late>>

Fault(f) == f \in Faults

Init == /\ running = FALSE /\ wakeup = FALSE
        /\ sup = "none" /\ worker = "none"
        /\ messages = {} /\ conn = "none" /\ sent = {} /\ reached = {}
        /\ since = [u \in Users |-> Interval] /\ cut = [u \in Users |-> FALSE]
        /\ stopped = FALSE /\ late = 0

Passes(t) == since' = [u \in Users |-> IF since[u] + t < Interval THEN since[u] + t ELSE Interval]

-----------------------------------------------------------------------------
(* main and the supervisor.                                                *)

\* start(), and only then the supervisor's thread.
Start ==
    /\ sup = "none"
    /\ running' = TRUE /\ wakeup' = FALSE
    /\ sup' = "spawn"
    /\ UNCHANGED <<worker, batch, mailed, stopped, late>>

Spawn ==
    /\ sup = "spawn" /\ sup' = "join"
    /\ worker' = "loop"
    /\ UNCHANGED <<flags, batch, mailed, stopped, late>>

\* Defect: the supervisor takes every end of the worker for a stop.
Join_TakesForStop ==
    /\ sup = "join" /\ worker \in {"ended", "died"}
    /\ sup' = "over" /\ worker' = "none"
    /\ UNCHANGED <<flags, batch, mailed, stopped, late>>

\* Defect: the worker is started again however it has ended.
Join_Always ==
    /\ sup = "join" /\ worker \in {"ended", "died"}
    /\ sup' = "sleep" /\ worker' = "none"
    /\ UNCHANGED <<flags, batch, mailed, stopped, late>>

\* join() returns, whether the worker returned or raised.
Join ==
    /\ sup = "join" /\ worker \in {"ended", "died"}
    /\ sup' = IF running THEN "sleep" ELSE "over"
    /\ worker' = "none"
    /\ UNCHANGED <<flags, batch, mailed, stopped, late>>

Restarts ==
    /\ sup = "sleep" /\ sup' = "spawn"
    /\ Passes(RestartDelay)
    /\ UNCHANGED <<flags, worker, batch, cut, stopped, late>>

-----------------------------------------------------------------------------
(* stop(): two assignments, between which the worker may run.              *)

\* Defect: the event is set, and the flag left as it is.
Stop_EventOnly ==
    /\ sup # "none" /\ running /\ ~stopped
    /\ wakeup' = TRUE /\ stopped' = TRUE
    /\ UNCHANGED <<running, sup, worker, batch, mailed, late>>

Stop ==
    /\ sup # "none" /\ running /\ ~stopped
    /\ running' = FALSE /\ stopped' = TRUE
    /\ UNCHANGED <<wakeup, sup, worker, batch, mailed, late>>

StopWakes ==
    /\ stopped /\ ~wakeup
    /\ wakeup' = TRUE
    /\ UNCHANGED <<running, sup, worker, batch, mailed, stopped, late>>

-----------------------------------------------------------------------------
(* The worker: run, _tick, send_email_notifications, send_batch.           *)

Goes(from, to) == worker = from /\ worker' = to

Loops ==
    /\ IF running THEN Goes("loop", "tick") ELSE Goes("loop", "ended")
    /\ UNCHANGED <<flags, sup, batch, mailed, stopped, late>>

\* Defect: the flag is not looked at after the wait.
Waits_Ticks ==
    /\ Goes("wait", "tick")
    /\ IF wakeup THEN UNCHANGED since ELSE Passes(Interval)
    /\ UNCHANGED <<flags, sup, batch, cut, stopped, late>>

\* Event.wait: at once when the event is set, else until it is or time is up.
Waits ==
    /\ Goes("wait", "loop")
    /\ IF wakeup THEN UNCHANGED since ELSE Passes(Interval)
    /\ UNCHANGED <<flags, sup, batch, cut, stopped, late>>

\* Defect: an error of the queries is an entry of the list.
Reads_ErrorValue ==
    /\ Goes("tick", "build")
    /\ messages' \in {Users} \union IF Fault("read") THEN {{"error"}} ELSE {}
    /\ late' = IF stopped THEN late + 1 ELSE late
    /\ sent' = {} /\ reached' = {}
    /\ UNCHANGED <<flags, sup, conn, mailed, stopped>>

\* get_all_users, and the messages of those with energy and an address.
Reads ==
    /\ Goes("tick", "build")
    /\ \E S \in SUBSET Users :
          /\ S = Users \/ Fault("read")
          /\ messages' = S
    /\ late' = IF stopped THEN late + 1 ELSE late
    /\ sent' = {} /\ reached' = {}
    /\ UNCHANGED <<flags, sup, conn, mailed, stopped>>

Dies == /\ worker' = "died"
        /\ cut' = [u \in Users |-> TRUE]

\* All messages are built before the first is sent.
Builds ==
    /\ worker = "build"
    /\ \/ /\ worker' = IF Enabled /\ messages # {} THEN "connect" ELSE "wait"
          /\ UNCHANGED cut
       \/ Fault("build") /\ messages # {} /\ Dies
    /\ UNCHANGED <<flags, sup, batch, since, stopped, late>>

\* Without a connection the batch is skipped.
Connects ==
    /\ \/ Goes("connect", "send") /\ conn' = "open"
       \/ Fault("connect") /\ Goes("connect", "wait") /\ UNCHANGED conn
    /\ UNCHANGED <<flags, sup, messages, sent, reached, mailed, stopped, late>>

\* The server accepts the message.
Reaches(u) ==
    /\ reached' = reached \union {u}
    /\ since' = [since EXCEPT ![u] = 0] /\ cut' = [cut EXCEPT ![u] = FALSE]

\* Defect: a message is counted before it is sent.
Fails_Counts(u) ==
    /\ worker = "send" /\ u \in messages
    /\ messages' = messages \ {u} /\ sent' = sent \union {u}
    /\ \/ Fault("drop") /\ conn' = "dropped" /\ UNCHANGED <<reached, mailed>>
       \/ Fault("refuse") /\ UNCHANGED <<conn, reached, mailed>>
       \/ Fault("reply") /\ conn = "open" /\ conn' = "dropped" /\ Reaches(u)
       \/ conn = "dropped" /\ UNCHANGED <<conn, reached, mailed>>
    /\ UNCHANGED <<flags, sup, worker, stopped, late>>

\* _send_one for the next message: whatever goes wrong is logged, and the rest of
\* the batch is tried, also on a connection that is gone.
Sends(u) ==
    /\ worker = "send" /\ u \in messages /\ conn = "open"
    /\ messages' = messages \ {u}
    /\ Reaches(u) /\ sent' = sent \union {u}
    /\ UNCHANGED <<flags, sup, worker, conn, stopped, late>>

Fails(u) ==
    /\ worker = "send" /\ u \in messages
    /\ messages' = messages \ {u}
    /\ \/ Fault("drop") /\ conn' = "dropped" /\ UNCHANGED <<reached, mailed>>
       \/ Fault("refuse") /\ UNCHANGED <<conn, reached, mailed>>
       \/ Fault("reply") /\ conn = "open" /\ conn' = "dropped" /\ Reaches(u)
       \/ conn = "dropped" /\ UNCHANGED <<conn, reached, mailed>>
    /\ UNCHANGED <<flags, sup, worker, sent, stopped, late>>

\* The end of `with connection': QUIT, whose refusal is raised after the batch;
\* on a dropped connection it does nothing.
Quits ==
    /\ worker = "send" /\ messages = {}
    /\ \/ worker' = "wait" /\ UNCHANGED cut
       \/ Fault("quit") /\ conn = "open" /\ Dies
    /\ conn' = "none"
    /\ UNCHANGED <<flags, sup, messages, sent, reached, since, stopped, late>>

WorkerStep == \/ Loops \/ Waits \/ Reads \/ Builds \/ Connects \/ Quits
              \/ \E u \in Users : Sends(u) \/ Fails(u)

\* The process ends and is started again: main begins anew.
ProcessRestarts ==
    /\ Fault("process") /\ sup # "none"
    /\ running' = FALSE /\ wakeup' = FALSE /\ sup' = "none" /\ worker' = "none"
    /\ messages' = {} /\ conn' = "none" /\ sent' = {} /\ reached' = {}
    /\ cut' = [u \in Users |-> TRUE]
    /\ stopped' = FALSE /\ late' = 0
    /\ UNCHANGED since

SupervisorStep == Spawn \/ Join \/ Restarts
Over == sup = "over" /\ UNCHANGED vars

Next == Start \/ SupervisorStep \/ Stop \/ StopWakes \/ WorkerStep \/ ProcessRestarts \/ Over
Spec == Init /\ [][Next]_vars

\* Both threads are scheduled; every call they make returns (the SMTP connection
\* has a time-out), and a caller of stop() comes to its end.
FairSpec == /\ Spec /\ WF_vars(Start) /\ WF_vars(SupervisorStep) /\ WF_vars(WorkerStep)
            /\ WF_vars(StopWakes)

-----------------------------------------------------------------------------
WorkerStates == {"none", "loop", "tick", "build", "connect", "send", "wait", "ended", "died"}
TypeOK ==
    /\ running \in BOOLEAN /\ wakeup \in BOOLEAN
    /\ sup \in {"none", "spawn", "join", "sleep", "over"} /\ worker \in WorkerStates
    /\ messages \subseteq Users /\ conn \in {"none", "open", "dropped"}
    /\ sent \subseteq Users /\ reached \subseteq Users
    /\ since \in [Users -> 0..Interval] /\ cut \in [Users -> BOOLEAN]
    /\ stopped \in BOOLEAN /\ late \in Nat

\* stop() may come right after the worker has looked at the flag: the tick that
\* follows is the last one.
OneTickAfterStop == late <= 1

\* The number of mails in the log is no more than were accepted, whatever becomes
\* of the connection between two of them.
SentWereAccepted == sent \subseteq reached

\* A user is not mailed again before the interval has passed, unless a worker or
\* the process died since.
NoEarlyMail ==
    [][\A u \in Users : u \in reached' \ reached => since[u] >= Interval \/ cut[u]]_vars

\* After stop() both threads come to their end, also when the worker has died and
\* the supervisor sleeps; unless the process is started again.
StopEnds == stopped ~> sup = "over" \/ ~stopped

\* Whatever fails in a batch, and however often the worker dies, another tick comes,
\* until somebody calls stop() or the process ends.
TicksKeepComing == ~stopped ~> worker = "tick" \/ stopped \/ sup = "none"

-----------------------------------------------------------------------------
(* The inductive invariant of AwarenessDaemonProofs.                       *)

\* The user may be mailed.
Due(u) == since[u] >= Interval \/ cut[u]
AllDue == \A u \in Users : Due(u)

\* The flag tells whether another tick may begin, and the event is set only after
\* the flag is down: who is on the way to a mail has waited for it.
DueInv ==
    /\ sup # "join" => worker = "none"
    /\ sup = "none" => ~stopped /\ AllDue
    /\ stopped \/ wakeup => ~running
    /\ worker = "ended" => ~running
    /\ running /\ worker \in {"none", "loop"} => AllDue
    /\ worker \in {"tick", "build", "connect", "died"} => AllDue
    /\ worker = "send" => \A u \in messages : Due(u)

\* A tick that is about to begin after stop() is the first.
LastTickInv ==
    /\ OneTickAfterStop
    /\ ~stopped \/ worker = "tick" => late = 0
==============================================================================
