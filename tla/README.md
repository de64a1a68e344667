# EPSA, verified: TLA+ models, model checking and proofs

EPSA (Energy Plug-in for Slurm Accounting) is a PrEp plug-in that is loaded into
`slurmd` on the compute nodes and into `slurmctld` on the controller. Around every
job it measures the energy of the devices of each node (through the library EMA),
writes the readings to a PostgreSQL database, and logs the job's total. A separate
Python daemon mails users statistics about their jobs.

This directory holds TLA+ models of that code, TLC configurations that check them on
small instances, and proofs, checked by TLAPS, that hold for all instances. Paths
below are relative to the repository's root (`prep_epsa.c`, `src/...`); line numbers
are in `PROJECT.json`, which maps every definition to the code it stands for.

## 1. The system

### 1.1 Components

| component | state it keeps | operations | modelled in |
|---|---|---|---|
| slurmd hooks (`prep_p_prolog`, `prep_p_epilog` in `prep_epsa.c`) | nothing between calls but what is in the kernel: a shared memory region `/epsshm_<jobid>` holding one pid, three named semaphores, a child process | prolog: make the region, write the sentinel -1, make `proceed_init`, fork the EFP, wait 10 s for it, publish its pid or kill it; epilog: read the pid, open `resume_efp` and `proceed_exit`, post, wait 10 s, kill after the time-out, wait for the child, unlink everything | `EpsNode` |
| EFP, the energy forward process (`src/eps_efp.c`) | its open semaphores, the readings at the start of the job | open `proceed_init`, make the other two semaphores, initialise EMA, post, read the devices, wait for the epilog, read again, run the transaction, post, exit | `EpsNode` (synchronisation), `EpsAccounting` (transaction) |
| semaphores, shared memory, waiting for a child (`src/eps_sem.c`, `src/eps_shm.c`, `src/eps_wait.c`) | names in the kernel, objects behind them | create (unlinking what is there), open, unlink; `timedwaitpid`, which polls | `EpsNode` |
| slurmctld hooks (`prep_p_prolog_slurmctld`, `prep_p_epilog_slurmctld`) and the epilog's detached thread | database rows; a thread per terminating job | prolog: upsert the user, insert the allocation; thread: connect, poll for measurements up to 15 s, query the total, append it to the log file, call slurmctld back | `EpsAccounting` |
| database (`src/eps_db.c`, `db/base-scheme.sql`) | `users`, `allocations`, `executions`, `measurements` with their keys | inserts, the two queries of the thread | `EpsAccounting`; as its readers see it `EpsTables`; widths of the readings `EpsEnergy` |
| job data (`src/eps_data.c`) | a structure filled in from slurmctld's job record | fill in, print | the owner only |
| core lists, ranges, utilization (`src/eps_cpuinfo.c`, `src/eps_utils.c`) | topology of the node, the text `cpu_ids` | the node's slice of the job's cores, its text, the parsing of that, cores per socket | `EpsCores` |
| GRES and NVML (`src/eps_gres.c`, `src/eps_nvml.c`, `parse_gres`) | the lists of GPU indexes and UUIDs | parse gres_used, look the UUIDs up, select devices, free the lists | `EpsGres` |
| awareness daemon: worker, supervisor, mailer (`daemon.py`, `main.py`, `mailer.py`) | a flag, an event, two threads, a batch | tick, send, wait, stop, restart after a failure | `AwarenessDaemon` |
| awareness daemon: queries (`db.py`) | nothing between queries | the figures of all users for a tick, of one user for its page | `AwarenessReports` |
| MQTT configuration, plug-in life cycle, dashboard templates, build and cluster scripts, tests | none, or nothing that changes after start-up | | no (section 8) |

### 1.2 How they interact

    slurmctld                               slurmd on each node
    ---------                               -------------------
    prolog_slurmctld                        prolog ----fork----> EFP
      users, allocations --> database         |  sem proceed_init   |
            (job launched)                    | <-------------------|
                                              |  shm: pid           | baseline
                                             job runs               | sem_wait(resume_efp)
    epilog_slurmctld                        epilog                  |
      detached thread                         |  sem resume_efp     |
        polls measurements <-- database <-----|-------------------->| final readings,
        total, log line                       |  sem proceed_exit   | one transaction
        callback                              | <-------------------|
                                              |  waitpid, unlink    x
    awareness daemon
      supervisor --> worker: queries <-- database; mails --> SMTP server

The two columns are not synchronised at the end of a job: slurmctld's epilog starts
while the EFPs have still to commit. The two processes on a node share no lock; all
they have is names derived from the job id. A name that has been unlinked and created
again denotes a *new* object, and whoever has the old one open keeps it. A requeued job
has the same job id, hence the same names, possibly while something of the earlier run
is left.

### 1.3 What is hard, and what makes the components correct

*slurmd hooks and EFP.* Both sides fail anywhere; both of the hook's waits have
deadlines that may pass just as the other side answers; slurmd may die between any two
steps; names leak. What must hold:

* SIGKILL is never sent to 0 or -1, which would hit slurmd's process group or all
  processes, nor to a process that is not an EFP (`KillTargetsAnEfp`), nor to a pid the
  kernel may have given to somebody else (`NoStraySignal`);
* the three things the epilog looks up by name, one after the other, belong to one EFP
  (`EpilogAddressesOneRun`), namely this run's (`EpilogAddressesThisRun`);
* the measured window is that of the job: an EFP is not resumed by a post for another
  run (`JobWindow`), and two EFPs of a job do not measure at once (`EarlierEfpsOver`);
* an EFP that may still be committing is neither waited for nor forgotten
  (`ReapingEndedEfp`, `SentinelMeansNoEfp`, `EfpsEnd`);
* after success nothing is left but, possibly, the name of `proceed_init`, and that only
  when slurmd died in a prolog (`CleanAfterSuccess`); and no hook hangs (`HooksReturn`).

*Accounting.* EFPs of several nodes commit one by one, or never, or fail half-way,
while the thread reads with two queries. What must hold: an execution is in the tables
with all its measurements or not at all (`NoTornExecution`), energy is not counted twice
when a job is requeued (`NoDoubleCount`), the log says "0" only after the time-out
(`EmptyTotalOnlyAfterTimeout`), slurmctld is always answered (`JobAnswered`), and told
whether the line was handed to the log (`AnswerMatchesLog`; not whether it arrived there).

*What the EFP is told.* Its cores and its GPUs come to it as texts, through buffers of
fixed size. What must hold: a list of cores that fits is read as the job's cores on this
node, each once, and of one that is cut at least what is in front of the cut
(`OwnCoresOnce`), no list is read or written outside its bounds (`ReadsInBounds`,
`UuidsFit`), while NVML works every list is freed once on every path (`FreedOnce`), and the
devices that are measured are those of the job (`ListedGpusMeasured`, `NoIdleGpu`). Readings
go through three integer types on their way, and the two totals made of them have to agree
(`TotalsAgree`). Where the buffers are too small some of this is false; section 3 says what
then happens.

*Awareness daemon.* A tick reads the tables with many queries, while EFPs commit and any
query may fail; the worker dies of errors after half a batch; `stop()` comes at any time.
What must hold: nobody is told of another's energy or of half a node's
(`OnlyOwnWholeNodes`), the figures are not older than the reading and fit together
(`TotalUpToDate`, `PageAddsUp`), the week's has the jobs allocated in the last seven days
and no older ones (`WeekIsRecent`); nobody is mailed twice in an interval but
after a crash (`NoEarlyMail`); the count of mails is true (`SentWereAccepted`); the threads
end after `stop()`, after one more tick at most (`StopEnds`, `OneTickAfterStop`), and go on
for ever without it (`TicksKeepComing`).

`PROJECT.json` lists every hazard with its line and the properties that cover it. Two have
no property. That the EFP takes its baseline after the prolog was released
(`src/eps_efp.c:254`) has no bound in the code, and nothing says that it precedes the job;
the epilog returns success also when the EFP was killed (`prep_epsa.c:407`), and nothing
says what its result tells of the measurements.

## 2. Modules

| module | what it is |
|---|---|
| `EpsNode` | one node and one job id: hooks, EFPs, semaphores, region, slurmd's restarts; the properties and the inductive invariants |
| `EpsSessions` | abstract: what hooks and EFPs promise to anybody outside, one measuring session per run; `EpsNode` implements it |
| `EpsTables` | abstract: how the tables grow; `EpsAccounting` implements it, `AwarenessReports` reads it |
| `EpsAccounting` | database, slurmctld's hooks, the thread, the EFPs' transactions |
| `AwarenessReports` | the daemon's queries, composed with `EpsTables` |
| `AwarenessDaemon` | the daemon's threads, its mails and the SMTP server |
| `EpsCores` | from the core bitmap to the utilization of the sockets |
| `EpsGres` | from gres_used to the devices that are measured |
| `EpsEnergy` | the arithmetic of readings and totals |
| `EpsNodeProofs` | theorems about `EpsNode`: types and signals; semaphores and names; sessions and the refinement of `EpsSessions` |
| `EpsAccountingProofs` | theorems about `EpsAccounting`; its refinement of `EpsTables` |
| `AwarenessReportsProofs`, `AwarenessDaemonProofs` | theorems about the daemon |
| `EpsCoresProofs`, `EpsGresProofs`, `EpsEnergyProofs` | theorems about cores, GRES and energy |
| `EpsSums` | lemmas these share: least and greatest numbers, what a sum over a set is |
| `MC...` | the instances TLC's runs take their constants from |

The composition: what `EpsAccounting` is shown to do to the tables, `EpsTables`, is the
environment of `AwarenessReports`; so the daemon's figures are checked, and proved, against
every way in which hooks and EFPs can write the tables, without modelling either again.

### 2.1 EpsNode and the code

Jobs share no names, so one job id is enough; what a node does see is several *runs*
of that id (requeues), one after the other. `run` is the current one. The EFP that run r
forks has pid r (pids are positive, as r is), and the semaphore objects that run r makes
are identified by r. Therefore "the semaphore the epilog opened is the one that the EFP
whose pid it read waits on" is the equation `h.resume = h.pid`.

| variable | in the code |
|---|---|
| `hook` | where the slurmd thread is: `p_...` inside the prolog, `running` the job, `ended` before the epilog, `e_...` inside the epilog, `idle` |
| `h` | the hook's local variables: the pid read from the region, the semaphores opened |
| `shm` | `*efp_pid`; `NoRegion` when the name is not linked, `Sentinel` for -1, 0 for a fresh region |
| `name`, `val` | what each name denotes, the value of each object |
| `efp`, `held` | where each EFP is, the objects it has open |
| `polls`, `rc`, `up`, `restarts` | iterations of `timedwaitpid`, the hook's result, slurmd |
| `cut` | history, not in the code: the runs whose prolog was cut short by slurmd's death |
| `interrupted` | history, not in the code: a semaphore wait has been interrupted by a signal |

Every action is one call of the code that another process can see (a name made or
removed, a post, a wait, a kill, a store to the region), together with the local
computation around it and the whole error path when the call fails. The error paths
are those of the code: for instance `EpilogGivesUp` removes the region but not
the semaphores' names, and does not resume the EFP, because that is what the early
return does.

`EpilogTimesOut` is possible whenever the semaphore is 0: ten seconds may pass at any
point of the EFP's work. It is not possible while the semaphore is positive:
`sem_timedwait` takes a semaphore it can take even when the deadline has passed.

`h.pid` is read once where the code reads `*efp_pid` again at the kill and at the wait:
nothing but the prolog that made the region writes to it, and `NamesInv` has that
`h.pid = shm` throughout the epilog.

The EFP's states are the calls of `efp_main`: `boot` (open `proceed_init`), `mk_efp`
and `mk_exit` (make the semaphores), `setup` (EMA), `ready` (devices, baseline), `wait`,
`final` (readings, transaction), `finish` (post), `exiting`. `dying` has been killed and
has not ended; `zombie` has ended and not been waited for; `gone` has been, so that its
pid is free. A `zombie`'s pid is still its own, which is why killing one is harmless and
killing a `gone` one is not.

`Faults` is the set of things that may go wrong besides time-outs:

| fault | meaning |
|---|---|
| `prolog` | any error return of the prolog |
| `efp` | the EFP fails anywhere (every `goto exit`, every signal its handler catches) |
| `nodevs` | EMA finds no device |
| `epilog` | the epilog fails to open or map something that exists |
| `noepilog` | the node's slurm.conf has no `Epilog=`, so that the epilog is not called (EPSA.md, pitfall 1) |
| `clock` | `clock_gettime` fails: the prolog then waits without a deadline, the epilog gives up |
| `eintr` | a semaphore wait is interrupted by a signal |

slurmd dies at any step (`SlurmdDies`); a prolog it cut short has failed, an epilog it
cut short is run again. EFPs survive it. A new slurmd cannot listen while an EFP holds the
inherited socket (EPSA.md, pitfall 4), so `SlurmdStarts` waits until there is none;
`OperatorKills` is what the pitfall tells the operator to do.

Assumed of Slurm: `PrologFlags=Serial`, as EPSA.md demands, so that a run's epilog starts
after its prolog has returned; the epilog is run also after a failed prolog; a job id
runs on a node once at a time.

### 2.2 EpsAccounting and the code

`job` and `run` are slurmctld's view of each job. The tables are sets of rows without the
measured values: a measurement is identified by job, run, node and device, an execution
by the first three. A total is the set of rows summed up, so that "the total
misses a node" or "counts a node twice" can be said. `tx[j][n]` is where the EFP of the
node is: waiting to be resumed, begun, inserting, committed (`done`) or without result
(`lost`); `ins` are the measurements in the open transaction, visible to nobody else.

The thread is `thr`: `connect`, `poll` (with `waited`, the sleeps so far), `sum`, `log`,
`callback`, `done`. A failure of a call leads to `callback` with the result `error`, as the
`goto`s of `prep_epsa.c` do; but for `fprintf` and `fclose`, whose results the code ignores
(526-530). A member of `log` is therefore a line the thread has handed to the opened file,
and its field `written` says whether it got there (fault `write`: it may not).

`CtldInsertsUser` and `CtldInsertsAllocation` are two actions because the code runs two
statements without a transaction. Keys are as in `db/base-scheme.sql`: `jobid` is the
primary key of `allocations`, so the second run of a requeued job fails there.
Assumed of Slurm: a job whose slurmctld prolog failed is not launched, its epilog is
still called.

An EFP may also be killed by its node's epilog at any point of the transaction; this and
its own failures are `EfpLoses`. When that happens is `EpsNode`'s subject; the two
modules are not composed (section 9).

### 2.3 The abstract specifications

`EpsSessions` knows runs, the phases Slurm takes them through, and one session per run:
`none`, `measuring`, `recording`, `over`. A run begins only when no session is open; a
session records only after the job; a run is over only when its session is. In `EpsNode`
the phase is read off `hook`, the session of a run off the state of its EFP (`Stage`):
`recording` are `final` and `finish`, `over` everything from `exiting` on. A restart of
slurmd in a prolog is a prolog that failed.

`EpsTables` has the four tables and three ways to change them: a user, an allocation, and
an execution *with* all measurements of its node. In `EpsAccounting` the refinement mapping
is the identity; the EFP's inserts are stutters, since they are seen by nobody before the
commit.

### 2.4 AwarenessReports and the code

The tables belong to `EpsTables`; `old` are the allocations whose time stamp, the moment the
job was allocated, is more than seven days back (`JobAges`). An allocation may get old
before its EFPs commit. Every query of `db.py` is one step, because it has a connection
and a transaction of its own, and any of them may fail, which the code logs and answers with
0, `None` or an empty list (`Answers`). `pc` follows `get_all_users` (`kind` "mail") and
`get_user_by_userid` ("page") through the queries of one user: the total (its jobs, then
one query each), last week's energy (its jobs again, the age of each and its energy), the
number of jobs, and the list of the jobs with their energy. An amount of energy is the set
of measurements summed up. The leaderboard and the pages of single jobs are single queries,
so nothing can come between; they are left out.

### 2.5 AwarenessDaemon and the code

`sup` is `_supervise_daemon`, `worker` the thread it starts: `loop` (`while
self._running`), `tick` and `build` (read, make the messages), `connect`, `send`, `wait`
(the event, or the interval), `ended` (returned) or `died` (raised). `stop()` is two
assignments, `Stop` and `StopWakes`. `send_batch` goes on after an error of a message, also
on a connection that is gone, and its `with` statement sends QUIT at the end, whose refusal
is raised. `since` and `cut` are history: the time since the last mail the server accepted
for a user, and whether a worker or the process died since. Time passes only in
`Event.wait` and `time.sleep`, so that it is a lower bound of what has really passed.

### 2.6 EpsCores, EpsGres and EpsEnergy and the code

`EpsCores`: `a` is the allocation (cores per node, bitmap, this node), `hw` the socket of
each core as hwloc tells it. The prolog's slice, the text in which `bit_fmt` prints it into
128 bytes, the EFP's parsing and counting are the steps. `text` has the tokens, each a core
or a range of cores, and whether the text ends in a comma; of characters only their number
counts, and what a cut leaves. `bit_fmt` writes a comma behind each range and takes off the
last character, whatever that is; so a text that is too long keeps the first digits of a
number (`FirstDigits`), a range with a shorter or without an end (`Left`), or a comma at its
end (`Fmt`). `parsed` is what `parse_index_range` makes of the tokens, one by one (`Value`: a
range whose end is not above its start is read as its start). It counts the commas for the
number of tokens (`src/eps_utils.c:274-280`), but `strtok` finds no token behind a last
comma, so that the last pointer of `tokens` is parsed without having been set (305-307):
the EFP fails there or parses any of `Garbage`. Cores behind the topology are not
stopped by the code either: `socket_idx` is then read out of its bounds, with any socket,
none, or a crash for a result (`SocketsRead`).

`EpsGres`: gres_used is a sequence of entries with a count, indexes and whether these are
shown. The steps are the calls: parsing, NVML's initialisation, GPU by GPU its handle,
number and UUID, shutdown, and the two places that free the lists. `list` says whether the
list of UUIDs can still be used; what a freed list holds is any set of GPUs. `nvml` is
history: no call of NVML has failed.

`EpsEnergy`: e0 and e1 are unsigned of `Modulus` values, the columns signed, the sum of the
database exact and signed, slurmctld's result again unsigned through `strtoull`, which
negates what has a minus sign. Numbers are printed into 20 bytes: 19 digits and the end.

### 2.7 Defect variants

Definitions named `X_Something`, each before the `X` it varies, are not part of the
specifications. Each is `X` as a plausible mistake would have it: a kill after the wait, a
semaphore name reused, a commit per insert. For every property there is one that breaks
it, which shows that the property does depend on the code's being as it is.
`PROJECT.json` pairs them.

## 3. The runs

| run | instance | asks |
|---|---|---|
| `node_all` | 2 runs, 1 restart, every fault, fairness for hooks only | do signals go to EFPs only; do runs meet through leaked names; is the window the job's; what may be left after success; do hooks return though EFPs stall for ever |
| `node_successive` | 3 runs, 1 restart, faults `prolog`, `efp`, `nodevs` | is each run's EFP over when its epilog returned; does each epilog serve its own run; is `EpsSessions` implemented; is every EFP brought to an end by the hooks |
| `node_publish` | 2 runs, fault `nodevs` | violation: see 7.1 |
| `node_sentinel` | 2 runs, no fault | violation: see 7.2 |
| `acct_safety` | 1 job, 2 nodes (2 devices and 1), 2 runs, every fault, fairness for the thread | the tables and the totals; does the answer tell whether the line was handed to the log; is `EpsTables` implemented; is every terminating job answered |
| `acct_total` | 1 job, 2 nodes, no fault | violation: see 7.3 |
| `report_figures` | 2 jobs of one user and 1 of another, 1 node of 2 devices, queries failing | whose energy a user is told of, how old it is, whether its figures add up |
| `daemon_mails` | 3 users, interval 3, restart delay 1, every fault, fairness for both threads | who is mailed when, what is counted, what `stop()` does, whether ticks keep coming |
| `cores_share` | all bitmaps of two nodes of 4 and 3 or 4 cores; of 128 cores every s-th, and ranges, as texts that fit and that are cut before a comma, in a number, in a range, behind a comma; 7 topologies | are the job's cores read, each once, within bounds, and counted per socket |
| `gres_lists` | GRES of up to 3 of 4 GPUs, alone and with other resources; NVML and prolog failing anywhere | are the lists written within bounds, which devices are measured; while NVML works, are the lists freed once |
| `gres_ten` | 9 or 10 of 16 GPUs, no fault | violation: see 7.4 |
| `energy_totals` | 3 devices, readings at the edges of 7-bit types | do the EFP's total and the one slurmctld reads agree |

Time-outs are not faults: they are possible in every run.

**Bounds.** `MaxRuns` bounds how often the job id comes to the node. Two runs are needed
for one to meet what another left; three so that a run meets what was left by one that
itself met leftovers. `MaxRestarts = 1` suffices for slurmd to die at every step of
either hook. `WaitPolls = 2` stands for the 100 polls of `timedwaitpid`: one poll that
finds the EFP working, then another, and the time-out. `PollLimit = 2` stands for the
thread's 150 polls likewise. Two nodes are the least for a total to be incomplete, a node
with two devices the least for a transaction to be torn. Of `AwarenessReports`, two jobs of
a user are the least between whose queries something can be committed, and a second user
the least to be mixed up with; nodes need not be two, since no query goes by node. Three
users let a batch fail before, at and after a message; an interval longer than the restart
delay is the case that matters for `NoEarlyMail`. In `EpsEnergy` 7 bits keep the order of
the widths (`TextMax` lies between the signed and the unsigned maximum, as 10^19 does
between 2^63 and 2^64). In `EpsCores` 128 cores are where a text of 128 bytes overflows in
each of its ways: every third core from 0 ends in a comma, every third from 1 in the first
two digits of a number of three, every second from 2 in a number that was there before.
`Garbage` has a core, a range and a core no node has. For the properties proved in section 5
the bounds do not matter.

**What some properties leave out.** A property is limited where it is false without:

* *Interrupted waits.* Both hooks look at `ETIMEDOUT` only, so that an interrupted wait
  counts as the EFP's answer, and the EFP does not look at the result of `sem_wait` at all.
  `JobWindow`, `EpilogAddressesOneRun`, `ReapingEndedEfp` and `CleanAfterSuccess` therefore
  hold up to the first interrupted wait (`interrupted`). slurmd's threads block most
  signals and the EFP installs its handler for fatal ones, so the fault is a remote one;
  nothing in the repository rules it out either.
* *The name of `proceed_init`.* Only the prolog unlinks it (`prep_epsa.c:275`), the epilog does
  not (393-407). When slurmd dies in the prolog before that, the epilog of the job returns
  success and leaves `/efpsem_init_<jobid>` linked, until a prolog of the same job id makes
  the name anew. `CleanAfterSuccess` allows for this name, and only for runs whose prolog was
  cut short in this way (`cut`).
* *The clock.* When it cannot be read the prolog waits without a deadline: `HooksReturn`
  exempts this wait (`p_wait_untimed`).
* *Epilogs.* One that gives up (`epilog`, `clock`), or is not run (`noepilog`), leaves its EFP
  waiting, as EPSA.md warns; the properties of `node_successive` say what holds when
  epilogs are run and can open what exists.
* *Lost log lines.* The results of `fprintf` and `fclose` are ignored (`prep_epsa.c:526-530`):
  on a full disk slurmctld is answered success and the log has no line. `AnswerMatchesLog`
  therefore says that success goes with a line that was handed to the opened log, not that
  the line is in it.
* *Last week's energy.* A job belongs to the week by the time stamp of its allocation
  (`db.py:437`). `WeekIsRecent` says just that; a job that was allocated eight days ago and
  committed today is in no weekly figure at all (7.5).
* *NVML's errors.* `NVML_HANDLE_RET` (`src/eps_nvml.c:9-17`) frees both lists, and the
  callers free them again (`src/eps_gres.c:72`, `prep_epsa.c:37-42`): undefined behaviour
  after any error of NVML. `FreedOnce` and `ListedGpusMeasured` are stated for an NVML that
  works; the rest of the prolog may fail.
* *Long core lists.* `cpu_ids` has 128 bytes (`src/eps_cpuinfo.c:194`), and a longer list is
  cut. What is read then depends on where (checked in `cores_share`, for a node of 128 cores):
  every second core from 0 ends with `86`, and the cores behind are missing; cores 1, 4, 7, ...
  end with `12`, which is not a core of the job but what is left of 121; cores 2, 4, 6, ...
  with an `8`, which is counted twice; cores 0, 3, 6, ... with `120,`, and behind that comma
  `parse_index_range` parses a pointer that was never set (`src/eps_utils.c:274-307`). So
  `OwnCoresOnce` says of a text that is cut in or in front of a token that all indexes but
  the last are the job's, each once; `ReadsInBounds` that the last one, too, is a core the
  node has; neither says anything of the indexes of a text that ends in a comma.
  `UtilizationIsShare` is about texts that have room for all.
* *Cores without a socket* count as socket 0's (`src/eps_cpuinfo.c:80-91`), which can then be
  used by more cores than it has; `UtilizationIsShare` assumes that every core has one.
* *Readings of 20 digits.* `insert_measurement_data` prints a reading into 20 bytes
  (`src/eps_db.c:198-207`). From 10^19 on the last digit is cut off, so that a tenth of the
  reading is stored, which fits the column; from 2^63 up to there the database refuses the
  number and the node's transaction is lost. The model has both. `TotalsAgree` is about
  transactions that are accepted, with readings below 10^19.

**Deadlock.** It is checked except in `node_all`, where the fault `clock` may leave the
prolog in `sem_wait` for an EFP that has ended: the system does stop there. The end of the
last run is not a deadlock but the action `Finished`; so with `Ended` and `Over`.

## 4. Fairness

*EpsNode.* `HookMoves`: a thread of slurmd that is inside a hook takes its next step. Each
of its waits has a deadline (10 s, and 100 polls), except that of the prolog without a
clock, so that `WF` of the hook's steps is what the scheduler gives. It includes the end
of the job, which has a time limit in Slurm. It does not include the start of another run,
and no step of the EFP: the EFP talks to devices and to a database and may stall for ever.
`HooksReturn` holds under this alone. `EfpsEnd` needs in addition that a process
which is exiting, or has been killed, ends (`LiveSpec`), and nothing else of the EFP. Both
end at a death of slurmd, since nothing obliges anybody to start it again.

*EpsAccounting.* `WF` of the thread's steps: libpq's calls return, with an error if need
be. EFPs and slurmctld are under no obligation.

*AwarenessDaemon.* `WF` of the supervisor's and of the worker's steps: both are threads of a
running process, and psycopg2's and smtplib's calls return (the SMTP connection has a
time-out). `WF` of `StopWakes`: a caller that has entered `stop()` comes to its end. Nobody
need call `stop()`, and the process may be restarted at any time, which both properties
allow for.

## 5. What is proved

`EpsNodeProofs` proves for all numbers of runs, restarts and polls, and for all sets of
faults:

* `TypeCorrect`: `Spec => []TypeOK`. No semaphore value goes below 0 and every handle is an
  object of some run or 0.
* `KillsAnEfp`: `Spec => []KillTargetsAnEfp`.
* `NeverStray`: `Spec => []NoStraySignal`.

and, for the same, of semaphores and names:

* `OneRunAddressed`: `Spec => []EpilogAddressesOneRun`.
* `WindowKept`: `Spec => []JobWindow`.
* `ReapsEndedOnly`: `Spec => []ReapingEndedEfp`.
* `LeavesNothing`: `Spec => []CleanAfterSuccess`, which leaves room for the name of
  `proceed_init` after a prolog that slurmd's death cut short;

and, where epilogs do their work (`EpilogsWork`: `Faults` has none of `epilog`, `noepilog`,
`clock` and `eintr`), for all numbers of runs and restarts:

* `OneEfpWorks`: `Spec => []EarlierEfpsOver`.
* `SentinelTold`: `Spec => []SentinelMeansNoEfp`.
* `OwnRunAddressed`: `Spec => []EpilogAddressesThisRun`.
* `ImplementsSessions`: `Spec => OneSessionPerRun`, that is, `EpsNode` implements `EpsSessions`.

`EpsAccountingProofs` proves for all sets of jobs, nodes and devices, all numbers of runs
and polls, and all sets of faults:

* `TypeCorrect`: `Spec => []TypeOK`.
* `NeverTorn`: `Spec => []NoTornExecution`.
* `CountedOnce`: `Spec => []NoDoubleCount`.
* `EmptyIsLate`: `Spec => []EmptyTotalOnlyAfterTimeout`.
* `AnswersTruly`: `Spec => []AnswerMatchesLog`: success if and only if this run's line was
  handed to the log.
* `ImplementsTables`: `Spec => TablesGrowByWholeExecutions`, that is, `EpsAccounting` implements
  `EpsTables`.

`AwarenessReportsProofs` proves for all sets of jobs, nodes, devices and users, whether or
not queries fail:

* `TypeCorrect`: `Spec => []TypeOK`.
* `OnlyOwnTold`: `Spec => []OnlyOwnWholeNodes`.
* `TotalTold`, `WeekTold`, `PageTold`: `Spec => []TotalUpToDate`, `[]WeekIsRecent`, `[]PageAddsUp`.

`AwarenessDaemonProofs` proves for all sets of users, all intervals and restart delays and all
sets of faults:

* `TypeCorrect`: `Spec => []TypeOK`.
* `StopsAfterOneTick`: `Spec => []OneTickAfterStop`.
* `CountsAccepted`: `Spec => []SentWereAccepted`.
* `NeverEarly`: `Spec => NoEarlyMail`.

`EpsCoresProofs` proves for all allocations, topologies and sizes of the text:

* `ReadsOwnCores`: `Spec => []OwnCoresOnce`.
* `RoomForAll`: when the ranges of the node's cores fit (`Whole`), the text does not end in a
  comma and what is parsed of it are those ranges.
* `StaysInBounds`: `Spec => []ReadsInBounds`.
* `CountsOwnCores`: `Spec => []UtilizationIsShare`.

`EpsGresProofs` proves for all values of gres_used, all sets of devices and all faults:

* `ListsHold`: `Spec => []UuidsFit`.
* `IdleGpusNotMeasured`: `Spec => []NoIdleGpu`.
* `FreesEachOnce`: `Spec => []FreedOnce`.
* `MeasuresListedGpus`: `Spec => []ListedGpusMeasured`.

`EpsEnergyProofs` proves for all finite sets of devices, all readings and all widths, hence
for those of the code, 2^64, 2^63 and 10^19:

* `TotalsEqual`: `Spec => []TotalsAgree`.

So every invariant and every safety property of an action that a run checks is proved, and
both refinements.

The assumptions are those named in the modules: in `EpsNode` that the bounds are positive
numbers (`BoundsAssumption`), in `EpsAccounting` also that each node's devices are devices
(`DevicesAssumption`) and that `NoTotal` is not the empty set (`NoTotalAssumption`, used for
`EmptyIsLate` only), in `AwarenessReports` and `AwarenessDaemon` the types of their
constants; in `EpsCores` that an allocation lists a number of cores for each of its nodes,
this one among them and none above 1000 (so that numbers have three digits at most), and
a bitmap of naturals (`BitsAssumption`), that the text has at least three bytes
(`SizeAssumption`; the code's has 128), and that what an uninitialised pointer leads to, if
it can be parsed, is a number or a range (`GarbageAssumption`); in `EpsGres` that an entry that shows indexes
shows those it counts (`GresAssumption`: Slurm prints both from one bitmap) and that a node
has finitely many GPUs (`GpusAssumption`); in `EpsEnergy` that readings are unsigned
numbers of the modulus, and the other two widths not above it (`WidthsAssumption`), and that
the devices are finitely many (`DevicesAssumption`). TLC evaluates them in every run.

**Argument for the signals.** Neither property is inductive: that `h.pid` is an
unreaped EFP when the epilog kills it depends on what the region held when the epilog read
it, and that on who wrote it and on what has happened to the process since.
`SignalInv` follows the pid: from the fork, where it becomes that of an EFP nobody has
waited for; through the prolog, which publishes it or kills it; to the region, which while
it holds a positive pid holds one that is *forked* and, except inside the epilog between
the `waitpid` and the `unlink`, *unreaped*; to the epilog's copy `h.pid`. Only two steps
make a process `gone` while slurmd is up: the epilog's wait, after which the epilog does
not kill, and slurmd's death, after which `NoStraySignal` promises nothing. What EFPs do
among themselves matters only in that none is un-forked or waited for by it
(`EfpForward`), so that the eleven actions of the EFP are dealt with by one lemma.

**Argument for the semaphores.** That the epilog's three look-ups agree cannot be seen in
the epilog, nor that nobody posted to the EFP too early. `SemInv` adds to `SignalInv`
three groups of facts.

* `ObjectsInv`: an object is used by the run that made it only. Runs that have not come
  yet have no EFP and no posts; an EFP holds objects of its own run; `proceed_init` of a
  run has not been posted while its EFP is still making names; `proceed_exit` has been
  posted only if its EFP has nothing left to do.
* `NamesInv`: names denote objects of the run whose pid can be read. The region's pid and
  the names of `resume_efp` and `proceed_exit` are written by different processes; what
  ties them together is that an EFP makes names only while the sentinel is in the region
  and the prolog is waiting for it (or slurmd is down), and that a positive
  `proceed_init` implies that it is done with that. So the region's positive pid and the
  two names belong to the same run, or the name is not linked.
* `WindowInv`: during the prolog and the job the current run's `resume_efp` is 0.

`EpilogAddressesOneRun` follows by a look at each of the epilog's opens; `JobWindow`
because an EFP leaves its wait only by taking a post; `ReapingEndedEfp` because the epilog
got past its wait by taking a post of the EFP it addresses or after killing it. All of it
holds until a wait is interrupted: an interrupted prolog publishes the pid of an EFP
that is still making names. What is proved inductive is `interrupted \/ SemInv`.

**Argument for success.** `MadeInv`: an EFP makes names only while the prolog waits (or slurmd
is down and the epilog is to come), so that an epilog that has unlinked them will find no
new ones when it has unlinked the region and returns; `proceed_init` is linked only during
the prolog of its run, or when that was cut short by slurmd's death (`cut`).

**Argument for sessions.** When every epilog gets through, `SessionInv` is inductive: only the
current run's EFP is at work, and as long as it is it can be found, by its names, and after
the prolog by the region. At the end of a run the epilog either reads the sentinel, and then
the prolog killed the EFP, or reads a pid; that is the current run's, since the run before
left no region; and it does not return before the EFP has posted or been killed. From
`SemInv` and `SessionInv` each action is a step of `EpsSessions` or none; the case of an EFP
that resumes is `WindowInv`: the post it takes is the epilog's.

**Argument for the accounting.** The parts of `AcctInv` are separate arguments. `KeyInv`: a
node's EFP starts only in the run that inserted the allocation, the primary key lets one
run do that, and the transaction that commits is over. `WholeInv`: a commit adds the
execution and its rows in one step, and the thread's total is one query, so that it sees
each node's rows or none. `LineInv`: no line has a run number above the job's, hence a new
run has no line; from there each step of the thread either keeps "success and no line
yet", or goes to the callback with "error and no line" or "success and a line handed to
the log"; whether that line was written makes no difference to the thread.
`EmptyInv`: rows are never deleted, so what the poll found is there for the sum.

**Argument for the tables.** Every step but one is a step or a stutter of `EpsTables` by the
definitions. The commit needs that the measurements in the transaction are all of the
node's, and that the job, its user (`OwnerInv`: a job that has been allocated has an owner
in `users`) and no execution of the node are in the tables; `WholeInv` and `KeyInv` have that.

**Argument for the reports.** `ReportInv` has four parts. `TablesInv` is what a reader gets from
`EpsTables`. `OwnInv`: what is read, and the jobs that are still to be read, are the user's.
`UpToDateInv`: of what was there when the user's turn came, each measurement is already
in the sum or belongs to a job that is still to come; new commits only add to the tables, so
that a later query never finds less. `AddUpInv`: for the same reason the list of jobs, which
is read last, has what was summed up before. The last two hold as long as no query
failed.

**Argument for the mails.** `DueInv` follows a worker from the wait to the batch: whoever is in
a batch has waited for the interval, or a worker or the process died since its last mail. It
depends on the order of `stop()`'s two steps, because an event that is set ends the wait
early: by then the flag is down (`wakeup => ~running`), and a worker that has been woken
does not begin another tick. `LastTickInv` has that the flag keeps all but one tick from
beginning.

**Argument for sums.** Total, offset and length are sums over a set (`SumFunctionOnSet` of
the community modules), which is defined by recursion over the elements in an order nobody
knows. `EpsSums` shows that the order does not matter: any summand may be taken out
(`SumRemove`). A library theorem for the induction would take the claim as a parameter;
here each induction is by a smallest counterexample, a minimal element of the set of subsets for
which the claim fails, which exists because the subsets of a finite set are well-founded
(`MinimalSet`). First it gives that the recursion has a solution (`IteratesExist`) and one
only (`IteratesAgree`).

**Argument for the cores.** The text: a maximal range of a set is given by its first core,
between two there is a gap, so that their ranks are 1, 2, ... and `Tokens` lists each range
once, in ascending order (`Ranks`, `TokensAreOwn`); each core is in one, since there is a
least and a greatest core that it is joined to (`RangesCover`, `TokensCover`). The cut: what
`Fmt` keeps is a prefix of these tokens and at most one more, of which the first digits of
a number are left, and those are never more than the number (`FirstDigitsOf`, `LeftOf`). So
what is parsed of a text without a comma at its end is `Readable` (`ParsedOf`): all tokens
are ranges of the node's cores in ascending order, or all but the last are, and the last is
one number, not above some core of the job. The loop: `PositionInv` has that as
many indexes are read as there are elements before the position, which a sum says; the
total of the sizes is reached only behind the last token, because every token has an
element. `IndexesInv` has of each index that it is the element of a token that its
position says, for any tokens, the uninitialised one included. That they ascend and are the
job's as far as the tokens are (`OwnElements`, `OwnIndexes`), and that no element is missing
(`ElementsCover`, `WholeIndexes`), follows from that alone. `CountInv` follows the
counting. That the slice ends with the node's cores is arithmetic of the offsets, whose
difference is the number of cores of the node and, by `Init`, of its topology; a number not
above such a core is itself one of the topology, which keeps a cut number in bounds.

**Argument for GRES.** `UuidsInv`: behind the loop over the GPUs the UUIDs are those of the
indexes if NVML works, and never of another GPU. `FreesInv` counts, for each place, the
lists that are held and those that were freed. What a freed list holds is any set of GPUs,
so all that concerns the devices is limited to a list that has not been freed.

**Argument for the energy.** `TotalInv`: after each device the EFP's total is the integer sum of
the differences so far, modulo 2^64 (`ModAdd`: a remainder may be taken at each addition or
once). The database's sum is the same integer when no reading was cut; what `strtoull` makes
of it is its remainder (`StrtoullWraps`) as long as it lies between -2^64 and 2^64.

The proofs have one lemma per group of actions (`Prolog...`, `Epilog...`, `Efp...`,
`Slurmd...`), with a step per action.

## 6. What is only model-checked

The liveness properties `HooksReturn`, `EfpsEnd`, `JobAnswered`, `StopEnds` and
`TicksKeepComing` (reasoning with fairness and `ENABLED` is beyond this prover). The four
runs that show a violation (section 7) are counterexamples, for which a run is the
proof. No module has a recursive definition.

## 7. Where the code and its documentation disagree

**7.1 A published pid need not be of a running EFP** (`node_publish`). The comment at
`prep_epsa.c:150-151` says that the sentinel is "overwritten with the real EFP pid only
once it is actually running". The EFP posts `proceed_init` (`src/eps_efp.c:188`) *before*
it finds out whether there are devices (190-194), and exits if there are none. The
prolog then publishes the pid of a process that has ended, and the job's epilog waits out
its 10 seconds for an answer that cannot come.

**7.2 After a timed-out prolog there is a child to wait for** (`node_sentinel`). The comment
at `prep_epsa.c:311-313` says of the sentinel: "Nothing to signal/wait/kill". The
prolog killed the EFP without waiting for it, and the epilog, seeing the sentinel, does not
either: one zombie of slurmd stays for each such prolog.

**7.3 The logged total of a job of several nodes may be partial** (`acct_total`). The thread
stops polling at the *first* measurement of the job, and sums up what is committed then.
The comment at `prep_epsa.c:454-463` explains the thread by the need to wait for the
EFPs "as long as it takes".

**7.4 Ten GPUs are as good as none** (`gres_ten`). `parse_gres` (`src/eps_utils.c:138-187`)
skips a count of one digit and `(IDX`. Behind a count of two digits what is left is not a
number, and the list is given up as if the node had no GRES: only the CPUs are measured. So
it is when another resource follows the GPUs in gres_used. `README.md:63-67` says
that the plug-in uses NVML for nodes that have GPUs, and names only a build without it as
unable to measure them.

**7.5 Without a run.** The daemon's comment says "once every 7 days" (`daemon.py:3`), the
constant below it and the configuration in the repository are 60 seconds; `NoEarlyMail` is
about the configured interval. `README.md:26-30` gives the share of allocated cores as the
utilization; a list of cores that is cut at 128 bytes gives less, or counts a core the job
does not have, or one twice, or fails (section 3). The mails give "your total energy
consumption over the past week" (`daemon.py:53-54`), and the docstring of the query "total
energy consumption for all jobs of a specific user in the last 7 days" (`db.py:417-425`);
the query takes the jobs that were *allocated* in the last seven days (`db.py:437-439`): a
job allocated eight days ago whose energy was used, and committed, since then is left out.
slurmctld's thread reports a line that `fprintf` or `fclose` could not write as logged
(`prep_epsa.c:526-530`); no comment promises more.

## 8. What is not modelled

* Inside the modelled parts: a failing `ftruncate` of the region (the code returns
  without the unlink; the next prolog unlinks it), a `time()` that fails in the EFP, texts of
  log lines, mails and SQL statements; `threads_per_core` and the look-up of the node's
  index (`src/eps_cpuinfo.c`), which the EFP's utilization does not depend on; core numbers of
  more than three digits; what an out-of-bounds read of `socket_idx` (cut core lists only)
  does besides yielding a socket, none, or a crash; malformed or overlong gres_used
  (`parse_gres` has 30 bytes for a list); builds without NVML.
* The daemon's leaderboard and job pages (a query each), its `comparator.py` (a look-up in a
  list), templates, and the reading of its configuration.
* MQTT configuration (reads a file and registers a plug-in with EMA), `fini` and
  `prep_p_required` (no state), build and cluster scripts. The tests were read as
  documentation of what the tables should contain.
* `src/eps_data.c` but for the job's owner: names and times are copied and printed.

## 9. Plan

Done: the hooks and the EFP with their proofs, the accounting with its proofs, the two
abstract specifications and their refinements, the daemon's threads and its queries with
their proofs, cores, GRES and energy with their proofs. Left:

1. `EpsCluster`: `EpsNode` on each node composed with `EpsAccounting`, so that the moment
   an EFP is killed and the state of its transaction are one; is a transaction that
   was committed ever reported as lost, or the reverse?
