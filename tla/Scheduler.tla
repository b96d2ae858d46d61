------------------------------ MODULE Scheduler ------------------------------
(***************************************************************************)
(* The job scheduler of the bridge: chitta_bridge/scheduler.py.            *)
(*                                                                         *)
(* One or more bridge processes share a database (tables job_state and     *)
(* job_runs) and a lock file.  The process that wins the lock runs four    *)
(* asyncio loops (tick, worker, reload, slurm) and one untracked task per  *)
(* dispatched run.  Everything between two awaits is one action.           *)
(*                                                                         *)
(* Operators named Bug_... are seeded faults of the definition that        *)
(* follows them; nothing in the specification uses them.                   *)
(***************************************************************************)
EXTENDS Integers, Sequences, FiniteSets, SequencesExt

CONSTANTS
  Procs,          \* bridge processes that may run the scheduler
  Jobs,           \* job ids
  Yamls,          \* states of jobs.yaml: [Jobs -> Configs or NoConfig], Refused
  NoConfig,       \* "this job is absent"
  Refused,        \* jobs.yaml missing, readable by others, or unparseable
  NoProc,         \* nobody holds the lock
  Attended,       \* jobs an operator runs, pauses and resumes by hand
  MaxTime,        \* bound on the clock
  Jitter,         \* next_due is drawn from the Jitter instants after now
  QueueCap,       \* asyncio.Queue(maxsize=64)
  Slots,          \* WORKER_SLOTS
  MaxChainDepth,  \* MAX_CHAIN_DEPTH
  MaxFailures,    \* MAX_AUTO_DISABLE_FAILURES
  SlurmFinal,     \* states in which a SLURM job may end in this instance
  CanDie          \* whether a process may crash while it is active

Kinds == {"codex", "slurm", "other"}
SubprocessKinds == {"codex"}   \* stands for codex, claude, workflow, room
SlurmStates == {"COMPLETED", "FAILED", "OUT_OF_MEMORY"}  \* the last: not listed by the code
Configs == [kind : Kinds, enabled : BOOLEAN, skip : BOOLEAN, chain : SUBSET Jobs]

ASSUME SchedulerAssumption ==
  /\ IsFiniteSet(Jobs)
  /\ NoConfig \notin Configs
  /\ NoProc \notin Procs
  /\ Yamls \subseteq [Jobs -> Configs \cup {NoConfig}] \cup {Refused}
  /\ Refused \notin [Jobs -> Configs \cup {NoConfig}]
  /\ Attended \subseteq Jobs
  /\ MaxTime \in Nat
  /\ Jitter \in Nat \ {0}
  /\ QueueCap \in Nat \ {0}
  /\ Slots \in Nat \ {0}
  /\ MaxChainDepth \in Nat
  /\ MaxFailures \in Nat \ {0}
  /\ SlurmFinal \subseteq SlurmStates
  /\ CanDie \in BOOLEAN

Times == 0 .. (MaxTime + Jitter)
NoDue == -1                          \* SQL NULL in job_state.next_due

(* A run is named by its idempotency key, which the table keeps unique.    *)
Keys == {k \in [origin : {"tick", "manual", "chain"}, src : Jobs, job : Jobs, at : 0 .. MaxTime] :
           /\ k.origin # "chain" => k.src = k.job
           /\ k.origin = "chain" => MaxChainDepth > 0
           /\ k.origin = "manual" => k.job \in Attended}
TickKey(j, t)     == [origin |-> "tick",   src |-> j, job |-> j, at |-> t]
ManualKey(j, t)   == [origin |-> "manual", src |-> j, job |-> j, at |-> t]
ChainKey(s, j, t) == [origin |-> "chain",  src |-> s, job |-> j, at |-> t]

Outcomes == {"success", "failure"}   \* "timeout" is treated as "failure" everywhere
FinalStatus == Outcomes \cup {"abandoned"}

VARIABLES
  now, yaml,                                  \* clock, jobs.yaml
  lock, mode,                                 \* flock owner, life of each process
  configs, loaded, queue, tasks, asked,       \* memory of each process
  jobs, runs,                                 \* the two tables
  children, cluster                           \* live subprocesses, SLURM jobs

env  == <<now, yaml>>
life == <<lock, mode>>
mem  == <<configs, loaded, queue, tasks, asked>>
db   == <<jobs, runs>>
ext  == <<children, cluster>>
vars == <<env, life, mem, db, ext>>

JobRow  == [hash : Configs \cup {NoConfig}, enabled : BOOLEAN, failures : Nat,
            due : Times \cup {NoDue}]
NoJob   == [hash |-> NoConfig, enabled |-> TRUE, failures |-> 0, due |-> NoDue]
RunRow  == [status : {"none", "running"} \cup FinalStatus, kind : Kinds, slurm : BOOLEAN]
NoRun   == [status |-> "none", kind |-> "other", slurm |-> FALSE]
Request == [key : Keys, depth : 0 .. MaxChainDepth]
Task    == [pc : {"none", "new"}, cfg : {NoConfig}, depth : 0 .. MaxChainDepth]
             \cup [pc : {"wait", "exec", "sbatch", "other"}, cfg : Configs,
                   depth : 0 .. MaxChainDepth]
NoTask  == [pc |-> "none", cfg |-> NoConfig, depth |-> 0]

TypeOK ==
  /\ now \in 0 .. MaxTime
  /\ yaml \in Yamls
  /\ lock \in Procs \cup {NoProc}
  /\ mode \in [Procs -> {"down", "active", "loser", "stopped"}]
  /\ configs \in [Procs -> [Jobs -> Configs \cup {NoConfig}]]
  /\ loaded \in [Procs -> Yamls \cup {Refused}]
  /\ queue \in [Procs -> Seq(Request)]
  /\ tasks \in [Procs -> [Keys -> Task]]
  /\ asked \in [Procs -> SUBSET Keys]
  /\ jobs \in [Jobs -> JobRow]
  /\ runs \in [Keys -> RunRow]
  /\ children \in SUBSET Keys
  /\ cluster \in [Keys -> {"none", "running"} \cup SlurmFinal]

Empty == [j \in Jobs |-> NoConfig]

Init ==
  /\ now = 0 /\ yaml \in Yamls
  /\ lock = NoProc /\ mode = [p \in Procs |-> "down"]
  /\ configs = [p \in Procs |-> Empty] /\ loaded = [p \in Procs |-> Refused]
  /\ queue = [p \in Procs |-> <<>>]
  /\ tasks = [p \in Procs |-> [k \in Keys |-> NoTask]]
  /\ asked = [p \in Procs |-> {}]
  /\ jobs = [j \in Jobs |-> NoJob] /\ runs = [k \in Keys |-> NoRun]
  /\ children = {} /\ cluster = [k \in Keys |-> "none"]

-----------------------------------------------------------------------------
(* The statements of StateStore and the cron helper.                       *)

NextDues == (now + 1) .. (now + Jitter)

Upserted(row, cfg, nxt) ==
  [row EXCEPT !.hash = cfg, !.due = IF row.hash # cfg THEN nxt ELSE @]

Finished(row, st, nxt) ==
  [row EXCEPT !.failures = IF st = "success" THEN 0 ELSE @ + 1, !.due = nxt]

Running(j) == {k \in Keys : k.job = j /\ runs[k].status = "running"}

Bug_GetDue == {j \in Jobs : /\ jobs[j].hash # NoConfig /\ jobs[j].enabled
                            /\ jobs[j].due # NoDue /\ jobs[j].due <= now}

GetDue == {j \in Jobs : /\ jobs[j].hash # NoConfig /\ jobs[j].enabled
                        /\ jobs[j].due # NoDue /\ jobs[j].due <= now
                        /\ Running(j) = {}}

NewRun(kind) == [status |-> "running", kind |-> kind, slurm |-> FALSE]

(* put_nowait over a sequence of requests: what no longer fits is dropped. *)
Fits(p, reqs) ==
  LET room == QueueCap - Len(queue[p])
  IN  IF Len(reqs) <= room THEN reqs ELSE SubSeq(reqs, 1, room)

Enqueue(p, reqs) == queue' = [queue EXCEPT ![p] = @ \o Fits(p, reqs)]

-----------------------------------------------------------------------------
(* Environment.                                                            *)

Tock == /\ now < MaxTime /\ now' = now + 1
        /\ UNCHANGED <<yaml, life, mem, db, ext>>

EditYaml(y) == /\ y # yaml /\ yaml' = y
               /\ UNCHANGED <<now, life, mem, db, ext>>

(* A child whose bridge is gone runs on in its own session, then ends.     *)
Orphan(k) == k \in children /\ \A p \in Procs : tasks[p][k].pc # "exec"

OrphanExits(k) == /\ Orphan(k) /\ children' = children \ {k}
                  /\ UNCHANGED <<env, life, mem, db, cluster>>

SlurmEnds(k, st) == /\ cluster[k] = "running" /\ cluster' = [cluster EXCEPT ![k] = st]
                    /\ UNCHANGED <<env, life, mem, db, children>>

-----------------------------------------------------------------------------
(* Life of a process: start, stop and the end of the process.              *)

ReloadedJobs(y, nxt) ==
  [j \in Jobs |-> IF y[j] # NoConfig THEN Upserted(jobs[j], y[j], nxt[j]) ELSE jobs[j]]

Stale == {k \in Keys : runs[k].status = "running" /\ runs[k].kind \in SubprocessKinds}

(* start(): take the lock or give up; load jobs.yaml unless it is refused; *)
(* abandon what a previous process left running.                           *)
StartLoses(p) ==
  /\ mode[p] = "down" /\ lock # NoProc
  /\ mode' = [mode EXCEPT ![p] = "loser"]
  /\ UNCHANGED <<env, lock, mem, db, ext>>

Bug_Recovered(cfgs, rows, nxt) ==
  [j \in Jobs |-> IF \E k \in Stale : k.job = j THEN [rows[j] EXCEPT !.due = NoDue]
                  ELSE rows[j]]

Recovered(cfgs, rows, nxt) ==
  [j \in Jobs |-> IF \E k \in Stale : k.job = j
                  THEN [rows[j] EXCEPT !.due = IF cfgs[j] # NoConfig THEN nxt[j] ELSE NoDue]
                  ELSE rows[j]]

Bug_AfterRestartSkips(k) == runs[k]
Bug_AfterRestartAll(k) ==
  IF runs[k].status # "none" THEN [runs[k] EXCEPT !.status = "abandoned"] ELSE runs[k]

AfterRestart(k) ==
  IF k \in Stale THEN [runs[k] EXCEPT !.status = "abandoned"] ELSE runs[k]

StartWins(p) ==
  /\ mode[p] = "down" /\ lock = NoProc
  /\ lock' = p /\ mode' = [mode EXCEPT ![p] = "active"]
  /\ \E nxt \in [Jobs -> NextDues] :
       LET cfgs == IF yaml = Refused THEN Empty ELSE yaml
           rows == IF yaml = Refused THEN jobs ELSE ReloadedJobs(yaml, nxt)
       IN  /\ configs' = [configs EXCEPT ![p] = cfgs]
           /\ loaded' = [loaded EXCEPT ![p] = yaml]
           /\ jobs' = Recovered(cfgs, rows, nxt)
           /\ runs' = [k \in Keys |-> AfterRestart(k)]
  /\ UNCHANGED <<env, queue, tasks, asked, ext>>

(* stop() cancels the four loops and releases the lock; the tasks of the   *)
(* worker loop are not among the cancelled ones.                           *)
Stop(p) ==
  /\ mode[p] \in {"active", "loser"}
  /\ mode' = [mode EXCEPT ![p] = "stopped"]
  /\ lock' = IF lock = p THEN NoProc ELSE lock
  /\ asked' = [asked EXCEPT ![p] = {}]
  /\ UNCHANGED <<env, configs, loaded, queue, tasks, db, ext>>

Owned(p) == {k \in children : tasks[p][k].pc = "exec"}

(* The process ends: after stop() always, before it by a crash.  Children  *)
(* have their own session: some die with the bridge, some do not.          *)
Die(p) ==
  /\ mode[p] # "down" /\ (mode[p] = "stopped" \/ CanDie)
  /\ mode' = [mode EXCEPT ![p] = "down"]
  /\ lock' = IF lock = p THEN NoProc ELSE lock
  /\ configs' = [configs EXCEPT ![p] = Empty]
  /\ loaded' = [loaded EXCEPT ![p] = Refused]
  /\ queue' = [queue EXCEPT ![p] = <<>>]
  /\ tasks' = [tasks EXCEPT ![p] = [k \in Keys |-> NoTask]]
  /\ asked' = [asked EXCEPT ![p] = {}]
  /\ \E killed \in SUBSET Owned(p) : children' = children \ killed
  /\ UNCHANGED <<env, db, cluster>>

ReloadYaml(p) ==
  /\ mode[p] = "active" /\ yaml # Refused /\ yaml # loaded[p]
  /\ \E nxt \in [Jobs -> NextDues] : jobs' = ReloadedJobs(yaml, nxt)
  /\ configs' = [configs EXCEPT ![p] = yaml]
  /\ loaded' = [loaded EXCEPT ![p] = yaml]
  /\ UNCHANGED <<env, life, queue, tasks, asked, runs, ext>>

-----------------------------------------------------------------------------
(* One pass of the tick loop over every due job.                           *)

Fires(p) ==
  {j \in GetDue : /\ configs[p][j] # NoConfig /\ configs[p][j].enabled
                  /\ ~(configs[p][j].skip /\ Cardinality(Running(j)) >= 1)
                  /\ runs[TickKey(j, jobs[j].due)].status = "none"}

\* The row of a run the queue had no room for is finished at once.
Bug_TickedRow(p, k, queued) == NewRun(configs[p][k.job].kind)

TickedRow(p, k, queued) ==
  LET row == NewRun(configs[p][k.job].kind)
  IN  IF k \in queued THEN row ELSE [row EXCEPT !.status = "failure"]

TickRequest(j) == [key |-> TickKey(j, jobs[j].due), depth |-> 0]

Tick(p) ==
  /\ mode[p] = "active" /\ Fires(p) # {}
  /\ \E order \in SetToSeqs(Fires(p)), nxt \in [Jobs -> NextDues] :
       LET reqs    == [i \in 1 .. Len(order) |-> TickRequest(order[i])]
           queued  == {r.key : r \in Range(Fits(p, reqs))}
           Key(j)  == TickKey(j, jobs[j].due)
           Late(j) == j \in Fires(p) /\ Key(j) \notin queued
           new     == {Key(j) : j \in Fires(p)}
           Up(j)   == Upserted(jobs[j], configs[p][j], nxt[j])
       IN  /\ Enqueue(p, reqs)
           /\ runs' = [k \in Keys |->
                 IF k \in new THEN TickedRow(p, k, queued) ELSE runs[k]]
           /\ jobs' = [j \in Jobs |->
                 IF Late(j) THEN Finished(Up(j), "failure", nxt[j])
                 ELSE IF j \in Fires(p) THEN Up(j)
                 ELSE jobs[j]]
  /\ UNCHANGED <<env, life, configs, loaded, tasks, asked, ext>>

(* The worker loop turns the head of the queue into a task.                *)
Dispatch(p) ==
  /\ mode[p] = "active" /\ queue[p] # <<>>
  /\ LET r == Head(queue[p])
     IN  tasks' = [tasks EXCEPT ![p][r.key] =
                     [pc |-> "new", cfg |-> NoConfig, depth |-> r.depth]]
  /\ queue' = [queue EXCEPT ![p] = Tail(@)]
  /\ UNCHANGED <<env, life, configs, loaded, asked, db, ext>>

-----------------------------------------------------------------------------
(* _run_job: look the job up, wait for a slot, execute, finish, chain.     *)

FirstPc(kind) == CASE kind = "slurm" -> "sbatch"
                   [] kind = "other" -> "other"
                   [] OTHER -> "wait"

TaskStart(p, k) ==
  /\ tasks[p][k].pc = "new"
  /\ LET cfg == configs[p][k.job]
     IN  tasks' = [tasks EXCEPT ![p][k] =
                     IF cfg = NoConfig THEN NoTask
                     ELSE [pc |-> FirstPc(cfg.kind), cfg |-> cfg, depth |-> @.depth]]
  /\ UNCHANGED <<env, life, configs, loaded, queue, asked, db, ext>>

Holders(p) == {k \in Keys : tasks[p][k].pc = "exec"}

Acquire(p, k) ==
  /\ tasks[p][k].pc = "wait" /\ Cardinality(Holders(p)) < Slots
  /\ tasks' = [tasks EXCEPT ![p][k].pc = "exec"]
  /\ children' = children \cup {k}
  /\ UNCHANGED <<env, life, configs, loaded, queue, asked, db, cluster>>

Bug_AutoDisabled(row, st) ==
  [row EXCEPT !.enabled = @ /\ ~(st # "success" /\ row.failures > MaxFailures)]

AutoDisabled(row, st) ==
  [row EXCEPT !.enabled = @ /\ ~(st # "success" /\ row.failures >= MaxFailures)]

(* The runs of the chain rules that fire and whose row can be inserted.    *)
Bug_ChainedDeeper(p, k, fired) ==
  {ChainKey(k.job, j, now) :
     j \in {i \in fired : /\ configs[p][i] # NoConfig
                          /\ runs[ChainKey(k.job, i, now)].status = "none"}}
Bug_ChainedAgain(p, k, fired) ==
  {ChainKey(k.job, j, now) :
     j \in {i \in fired : tasks[p][k].depth < MaxChainDepth /\ configs[p][i] # NoConfig}}

Chained(p, k, fired) ==
  {ChainKey(k.job, j, now) :
     j \in {i \in fired : /\ tasks[p][k].depth < MaxChainDepth
                          /\ configs[p][i] # NoConfig
                          /\ runs[ChainKey(k.job, i, now)].status = "none"}}

AfterFinish(p, k, st, new) ==
  [i \in Keys |-> IF i = k THEN [runs[k] EXCEPT !.status = st]
                  ELSE IF i \in new THEN NewRun(configs[p][i.job].kind)
                  ELSE runs[i]]

Finish(p, k, st) ==
  /\ \E nxt \in NextDues :
       jobs' = [jobs EXCEPT ![k.job] = AutoDisabled(Finished(@, st, nxt), st)]
  /\ \E fired \in SUBSET tasks[p][k].cfg.chain :
       /\ runs' = AfterFinish(p, k, st, Chained(p, k, fired))
       /\ \E order \in SetToSeqs(Chained(p, k, fired)) :
            Enqueue(p, [i \in 1 .. Len(order) |->
                          [key |-> order[i], depth |-> tasks[p][k].depth + 1]])
  /\ tasks' = [tasks EXCEPT ![p][k] = NoTask]
  /\ UNCHANGED <<env, life, configs, loaded, asked>>

(* The child ended, failed or was killed at its timeout.                   *)
ExecEnds(p, k, st) ==
  /\ tasks[p][k].pc = "exec"
  /\ Finish(p, k, st)
  /\ children' = children \ {k} /\ UNCHANGED cluster

UnknownKind(p, k) ==
  /\ tasks[p][k].pc = "other"
  /\ Finish(p, k, "failure") /\ UNCHANGED ext

(* sbatch: the cluster accepts the job, then the answer is recorded; an    *)
(* answer that takes too long is a failure although the job may be queued. *)
SlurmAccepts(p, k) ==
  /\ tasks[p][k].pc = "sbatch" /\ cluster[k] = "none"
  /\ cluster' = [cluster EXCEPT ![k] = "running"]
  /\ UNCHANGED <<env, life, mem, db, children>>

SbatchReturns(p, k) ==
  /\ tasks[p][k].pc = "sbatch" /\ cluster[k] # "none"
  /\ runs' = [runs EXCEPT ![k].slurm = TRUE]
  /\ tasks' = [tasks EXCEPT ![p][k] = NoTask]
  /\ UNCHANGED <<env, life, configs, loaded, queue, asked, jobs, ext>>

SbatchFails(p, k) ==
  /\ tasks[p][k].pc = "sbatch"
  /\ Finish(p, k, "failure") /\ UNCHANGED ext

-----------------------------------------------------------------------------
(* _reconcile_slurm: read the rows, await sacct, finish the ended ones.    *)

RunningSlurm == {k \in Keys : /\ runs[k].status = "running" /\ runs[k].kind = "slurm"
                              /\ runs[k].slurm}

AskSacct(p) ==
  /\ mode[p] = "active" /\ asked[p] = {} /\ RunningSlurm # {}
  /\ asked' = [asked EXCEPT ![p] = RunningSlurm]
  /\ UNCHANGED <<env, life, configs, loaded, queue, tasks, db, ext>>

SacctFails(p) ==
  /\ asked[p] # {}
  /\ asked' = [asked EXCEPT ![p] = {}]
  /\ UNCHANGED <<env, life, configs, loaded, queue, tasks, db, ext>>

Bug_Verdict(k) == "success"

Verdict(k) == IF cluster[k] = "COMPLETED" THEN "success" ELSE "failure"

(* failure_count of j after the rows of order were finished one by one.    *)
Recount(j, order) ==
  LET mine == {i \in 1 .. Len(order) : order[i].job = j}
      Bad(i) == \A h \in mine : h >= i => Verdict(order[h]) = "failure"
      streak == {i \in mine : Bad(i)}
  IN  Cardinality(streak) + IF streak = mine THEN jobs[j].failures ELSE 0

SacctAnswers(p) ==
  LET ended == {k \in asked[p] : cluster[k] \in {"COMPLETED", "FAILED"}}
  IN  /\ asked[p] # {}
      /\ asked' = [asked EXCEPT ![p] = {}]
      /\ runs' = [k \in Keys |-> IF k \in ended THEN [runs[k] EXCEPT !.status = Verdict(k)]
                                 ELSE runs[k]]
      /\ \E order \in SetToSeqs(ended), nxt \in [Jobs -> NextDues] :
           jobs' = [j \in Jobs |->
             IF \E k \in ended : k.job = j
             THEN [jobs[j] EXCEPT !.failures = Recount(j, order),
                                  !.due = IF configs[p][j] # NoConfig THEN nxt[j] ELSE NoDue]
             ELSE jobs[j]]
      /\ UNCHANGED <<env, life, configs, loaded, queue, tasks, ext>>

-----------------------------------------------------------------------------
(* Manual control, reachable while the process lives.                      *)

RunNow(p, j) ==
  LET k == ManualKey(j, now)
  IN  /\ mode[p] # "down" /\ configs[p][j] # NoConfig /\ runs[k].status = "none"
      /\ runs' = [runs EXCEPT ![k] = NewRun(configs[p][j].kind)]
      /\ Enqueue(p, <<[key |-> k, depth |-> 0]>>)
      /\ UNCHANGED <<env, life, configs, loaded, tasks, asked, jobs, ext>>

Pause(p, j) ==
  /\ mode[p] # "down" /\ jobs[j].hash # NoConfig
  /\ jobs' = [jobs EXCEPT ![j].enabled = FALSE]
  /\ UNCHANGED <<env, life, mem, runs, ext>>

Resume(p, j) ==
  /\ mode[p] # "down" /\ jobs[j].hash # NoConfig
  /\ \E nxt \in NextDues :
       LET row == [jobs[j] EXCEPT !.enabled = TRUE, !.failures = 0]
       IN  jobs' = [jobs EXCEPT ![j] =
                      IF configs[p][j] # NoConfig THEN Upserted(row, configs[p][j], nxt)
                      ELSE row]
  /\ UNCHANGED <<env, life, mem, runs, ext>>

-----------------------------------------------------------------------------
TaskStep(p, k) ==
  \/ TaskStart(p, k)
  \/ Acquire(p, k)
  \/ \E st \in Outcomes : ExecEnds(p, k, st)
  \/ UnknownKind(p, k)
  \/ SbatchReturns(p, k)
  \/ SbatchFails(p, k)

Manual(p, j) == RunNow(p, j) \/ Pause(p, j) \/ Resume(p, j)

Next ==
  \/ Tock
  \/ \E y \in Yamls : EditYaml(y)
  \/ \E k \in Keys : OrphanExits(k)
  \/ \E k \in Keys, st \in SlurmFinal : SlurmEnds(k, st)
  \/ \E p \in Procs :
       \/ StartWins(p) \/ StartLoses(p) \/ Stop(p) \/ Die(p) \/ ReloadYaml(p)
       \/ Tick(p) \/ Dispatch(p)
       \/ \E k \in Keys : TaskStep(p, k) \/ SlurmAccepts(p, k)
       \/ AskSacct(p) \/ SacctFails(p) \/ SacctAnswers(p)
       \/ \E j \in Attended : Manual(p, j)

Spec == Init /\ [][Next]_vars
-----------------------------------------------------------------------------
(* Fairness.  The event loop keeps running what is ready, and executors    *)
(* end because they have timeouts (WF); a tick loop makes a pass as soon   *)
(* as it starts, so restarts do not starve it (SF); again and again some   *)
(* process lives through one SLURM poll and sacct answers (SF); the        *)
(* cluster ends its jobs; a stopped process exits and the service manager  *)
(* starts the bridge again.  Nothing makes jobs fire by hand.              *)
Fairness ==
  /\ WF_vars(\E k \in Keys, st \in SlurmFinal : SlurmEnds(k, st))
  /\ \A p \in Procs :
       /\ WF_vars(StartWins(p)) /\ WF_vars(mode[p] = "stopped" /\ Die(p))
       /\ WF_vars(ReloadYaml(p)) /\ SF_vars(Tick(p)) /\ WF_vars(Dispatch(p))
       /\ SF_vars(AskSacct(p)) /\ SF_vars(SacctAnswers(p))
       /\ WF_vars(\E k \in Keys : TaskStep(p, k))

FairSpec == Spec /\ Fairness

-----------------------------------------------------------------------------
(* Properties.                                                             *)

Queued(p, k) == \E i \in 1 .. Len(queue[p]) : queue[p][i].key = k
Working(p, k) == tasks[p][k].pc # "none"

(* At most one run per job that the tick loop started is open at any time, *)
(* across restarts and hand-overs between processes (get_due, create_run). *)
OneTickRun ==
  \A j \in Jobs : \A k, l \in Running(j) :
    k.origin = "tick" /\ l.origin = "tick" => k = l

(* A request in the queue or a task works on a row that is still open, and *)
(* no row is worked on twice.                                              *)
WorkIsOpen ==
  \A p \in Procs : \A k \in Keys :
    /\ Queued(p, k) \/ Working(p, k) => runs[k].status = "running"
    /\ ~(Queued(p, k) /\ Working(p, k))
    /\ \A h, i \in 1 .. Len(queue[p]) : queue[p][h].key = queue[p][i].key => h = i

(* While a scheduler runs, an open row of a subprocess kind is in its      *)
(* queue or has a task: no row stays 'running' with nobody to finish it.   *)
RunsAreOwned ==
  \A k \in Keys :
    /\ runs[k].status = "running" /\ runs[k].kind \in SubprocessKinds /\ lock # NoProc
    => \E p \in Procs : Queued(p, k) \/ Working(p, k)

(* A job whose failures reached the limit is disabled until it is resumed. *)
AutoDisable == \A j \in Jobs : jobs[j].enabled => jobs[j].failures < MaxFailures

(* A job that is configured, enabled and idle has a next_due, so that a    *)
(* later tick fires it.                                                    *)
StaysScheduled ==
  \A p \in Procs, j \in Jobs :
    /\ mode[p] = "active" /\ configs[p][j] # NoConfig /\ Running(j) = {}
    => jobs[j].due # NoDue

(* A run that got its final status keeps it.                               *)
FinalIsFinal ==
  [][\A k \in Keys : runs[k].status \in FinalStatus => runs'[k].status = runs[k].status]_vars

(* A row in state 'running' is finished or abandoned in the end, whatever  *)
(* restarts there are in between; a SLURM run once its job id is recorded. *)
RunsEnd ==
  \A k \in Keys :
    runs[k].status = "running" /\ (runs[k].kind = "slurm" => runs[k].slurm)
      ~> runs[k].status # "running"

(* A scheduled instant that has come is run, unless the job is disabled or *)
(* was rescheduled.                                                        *)
DueFires ==
  \A j \in Jobs, t \in 0 .. MaxTime :
    jobs[j].enabled /\ jobs[j].due = t /\ t <= now
      ~> ~jobs[j].enabled \/ jobs[j].due # t \/ runs[TickKey(j, t)].status # "none"

(* The final status of a followed SLURM run is the one the cluster gave.   *)
SlurmVerdict ==
  \A k \in Keys : runs[k].slurm =>
    /\ runs[k].status = "success" => cluster[k] = "COMPLETED"
    /\ runs[k].status = "failure" => cluster[k] = "FAILED"
=============================================================================
