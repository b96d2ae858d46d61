--------------------------- MODULE SchedulerProofs ---------------------------
(* Proofs about Scheduler, for every value of its constants.               *)
EXTENDS Scheduler, FiniteSetTheorems, SequenceTheorems, TLAPS

(* There are finitely many idempotency keys within the clock's bound.      *)
LEMMA KeysFinite == IsFiniteSet(Keys)
<1> DEFINE Origins == {"tick", "manual", "chain"}
           Tuples  == (Origins \X Jobs) \X (Jobs \X Times)
           Rec(t)  == [origin |-> t[1][1], src |-> t[1][2], job |-> t[2][1], at |-> t[2][2]]
           All     == [origin : Origins, src : Jobs, job : Jobs, at : Times]
           f       == [t \in Tuples |-> Rec(t)]
<1>1. IsFiniteSet(Origins)
  <2>1. IsFiniteSet({"tick"}) /\ IsFiniteSet({"tick"} \cup {"manual"})
    BY FS_Singleton, FS_AddElement
  <2>2. IsFiniteSet(({"tick"} \cup {"manual"}) \cup {"chain"})  BY <2>1, FS_AddElement
  <2>3. Origins = ({"tick"} \cup {"manual"}) \cup {"chain"}  OBVIOUS
  <2> QED  BY <2>2, <2>3
<1>2. IsFiniteSet(Times)
  BY SchedulerAssumption, FS_Interval DEF Times
<1>3. IsFiniteSet(Tuples)
  <2>1. IsFiniteSet(Origins \X Jobs)  BY <1>1, SchedulerAssumption, FS_Product
  <2>2. IsFiniteSet(Jobs \X Times)    BY <1>2, SchedulerAssumption, FS_Product
  <2> QED  BY <2>1, <2>2, FS_Product
<1>4. f \in Surjection(Tuples, All)
  <2>1. f \in [Tuples -> All]  OBVIOUS
  <2>2. ASSUME NEW r \in All PROVE \E t \in Tuples : f[t] = r
    <3> WITNESS <<<<r.origin, r.src>>, <<r.job, r.at>>>> \in Tuples
    <3> QED  OBVIOUS
  <2> QED  BY <2>1, <2>2 DEF Surjection
<1>5. IsFiniteSet(All)  BY <1>3, <1>4, FS_Surjection
<1>6. Keys \in SUBSET All  BY SchedulerAssumption DEF Keys, Times
<1> QED  BY <1>5, <1>6, FS_Subset

(* The orders in which a finite set is processed are sequences over it.    *)
LEMMA OrderType ==
  ASSUME NEW S, IsFiniteSet(S), NEW order \in SetToSeqs(S)
  PROVE  order \in Seq(S) /\ Len(order) = Cardinality(S)
<1>1. Cardinality(S) \in Nat  BY FS_CardinalityType
<1>2. order \in [1 .. Cardinality(S) -> S]  BY DEF SetToSeqs
<1> QED  BY <1>1, <1>2

(* put_nowait never admits anything but the requests it was given.         *)
LEMMA FitsType ==
  ASSUME TypeOK, NEW p \in Procs, NEW reqs \in Seq(Request)
  PROVE  Fits(p, reqs) \in Seq(Request)
<1> DEFINE room == QueueCap - Len(queue[p])
<1>1. room \in Int  BY SchedulerAssumption DEF TypeOK
<1>2. CASE Len(reqs) <= room  BY <1>2 DEF Fits
<1>3. CASE ~(Len(reqs) <= room)
  <2>1. \A i \in 1 .. room : reqs[i] \in Request  BY <1>1, <1>3
  <2> HIDE DEF room
  <2>2. SubSeq(reqs, 1, room) \in Seq(Request)  BY <1>1, <2>1, SubSeqProperties
  <2> QED  BY <1>3, <2>2 DEF Fits, room
<1> QED  BY <1>2, <1>3
-----------------------------------------------------------------------------
(* Types of the values the actions write.                                  *)

LEMMA NextDuesType == TypeOK => NextDues \subseteq Times /\ NoDue \notin Times
BY SchedulerAssumption DEF TypeOK, NextDues, Times, NoDue

LEMMA DueTypes ==
  ASSUME NEW row \in JobRow, NEW nxt \in Times, NEW cfg \in Configs \cup {NoConfig}
  PROVE  /\ Upserted(row, cfg, nxt) \in JobRow
         /\ [row EXCEPT !.due = nxt] \in JobRow
         /\ [row EXCEPT !.due = NoDue] \in JobRow
<1>1. [row EXCEPT !.due = nxt] \in JobRow  BY DEF JobRow
<1>2. [row EXCEPT !.due = NoDue] \in JobRow  BY DEF JobRow
<1>3. Upserted(row, cfg, nxt) \in JobRow  BY DEF JobRow, Upserted
<1> QED  BY <1>1, <1>2, <1>3

LEMMA FinishedTypes ==
  ASSUME NEW row \in JobRow, NEW nxt \in Times, NEW st \in FinalStatus
  PROVE  /\ Finished(row, st, nxt) \in JobRow
         /\ AutoDisabled(row, st) \in JobRow
<1>1. Finished(row, st, nxt) \in JobRow
  <2>1. row.failures + 1 \in Nat  BY DEF JobRow
  <2> QED  BY <2>1 DEF JobRow, Finished
<1>2. AutoDisabled(row, st) \in JobRow
  <2> DEFINE bad == st # "success" /\ row.failures >= MaxFailures
  <2> HIDE DEF bad
  <2>1. (row.enabled /\ ~bad) \in BOOLEAN  OBVIOUS
  <2>2. [row EXCEPT !.enabled = (row.enabled /\ ~bad)] \in JobRow
    BY <2>1, Zenon DEF JobRow
  <2> QED  BY <2>2 DEF AutoDisabled, bad
<1> QED  BY <1>1, <1>2

LEMMA RunTypes ==
  ASSUME NEW kind \in Kinds, NEW row \in RunRow, NEW st \in FinalStatus
  PROVE  /\ NewRun(kind) \in RunRow
         /\ [row EXCEPT !.status = st] \in RunRow
         /\ [row EXCEPT !.slurm = TRUE] \in RunRow
BY DEF RunRow, NewRun

LEMMA ReloadedType ==
  ASSUME TypeOK, NEW y \in [Jobs -> Configs \cup {NoConfig}], NEW nxt \in [Jobs -> NextDues]
  PROVE  ReloadedJobs(y, nxt) \in [Jobs -> JobRow]
<1>1. ASSUME NEW j \in Jobs
      PROVE  Upserted(jobs[j], y[j], nxt[j]) \in JobRow
  BY NextDuesType, DueTypes DEF TypeOK
<1> QED  BY <1>1 DEF ReloadedJobs, TypeOK

LEMMA TickKeyType ==
  ASSUME NEW j \in Jobs, NEW t \in 0 .. MaxTime  PROVE  TickKey(j, t) \in Keys
BY DEF Keys, TickKey

LEMMA ManualKeyType ==
  ASSUME NEW j \in Attended, NEW t \in 0 .. MaxTime  PROVE  ManualKey(j, t) \in Keys
BY SchedulerAssumption DEF Keys, ManualKey

LEMMA ChainKeyType ==
  ASSUME NEW i \in Jobs, NEW j \in Jobs, NEW t \in 0 .. MaxTime, MaxChainDepth > 0
  PROVE  ChainKey(i, j, t) \in Keys
BY DEF Keys, ChainKey

LEMMA NowType == TypeOK => now \in Times
BY SchedulerAssumption DEF TypeOK, Times

LEMMA ConfigTypes ==
  ASSUME TypeOK, NEW p \in Procs, NEW j \in Jobs, configs[p][j] # NoConfig
  PROVE  configs[p][j] \in Configs /\ configs[p][j].kind \in Kinds
BY DEF TypeOK, Configs

LEMMA YamlType == TypeOK /\ yaml # Refused => yaml \in [Jobs -> Configs \cup {NoConfig}]
BY SchedulerAssumption DEF TypeOK

(* A request put in the queue leaves a queue of requests.                  *)
LEMMA EnqueueType ==
  ASSUME TypeOK, NEW p \in Procs, NEW reqs \in Seq(Request), Enqueue(p, reqs)
  PROVE  queue' \in [Procs -> Seq(Request)]
<1>1. Fits(p, reqs) \in Seq(Request)  BY FitsType
<1>2. queue[p] \o Fits(p, reqs) \in Seq(Request)  BY <1>1 DEF TypeOK
<1> QED  BY <1>2 DEF Enqueue, TypeOK

(* The type invariant is inductive, action by action.                      *)
LEMMA TypeInit == Init => TypeOK
<1> SUFFICES ASSUME Init PROVE TypeOK  OBVIOUS
<1> USE DEF Init
<1>1. NoJob \in JobRow /\ NoRun \in RunRow /\ NoTask \in Task
  BY SchedulerAssumption DEF NoJob, JobRow, NoRun, RunRow, NoTask, Task, Kinds
<1> QED  BY <1>1, SchedulerAssumption DEF TypeOK, Empty

LEMMA TypeEnvironment ==
  ASSUME TypeOK,
         \/ Tock
         \/ \E y \in Yamls : EditYaml(y)
         \/ \E k \in Keys : OrphanExits(k)
         \/ \E k \in Keys, st \in SlurmFinal : SlurmEnds(k, st)
  PROVE  TypeOK'
<1> USE DEF TypeOK, env, life, mem, db, ext
<1>1. CASE Tock  BY <1>1, SchedulerAssumption DEF Tock
<1>2. CASE \E y \in Yamls : EditYaml(y)  BY <1>2 DEF EditYaml
<1>3. CASE \E k \in Keys : OrphanExits(k)  BY <1>3 DEF OrphanExits
<1>4. CASE \E k \in Keys, st \in SlurmFinal : SlurmEnds(k, st)  BY <1>4 DEF SlurmEnds
<1> QED  BY <1>1, <1>2, <1>3, <1>4

LEMMA TypeLife ==
  ASSUME TypeOK, NEW p \in Procs,
         StartWins(p) \/ StartLoses(p) \/ Stop(p) \/ Die(p) \/ ReloadYaml(p)
  PROVE  TypeOK'
<1> USE DEF env, life, mem, db, ext
<1>0. Empty \in [Jobs -> Configs \cup {NoConfig}] /\ NoTask \in Task
  BY SchedulerAssumption DEF Empty, NoTask, Task
<1>1. CASE StartWins(p)
  <2> DEFINE cfgs == IF yaml = Refused THEN Empty ELSE yaml
             rows(nxt) == IF yaml = Refused THEN jobs ELSE ReloadedJobs(yaml, nxt)
  <2> PICK nxt \in [Jobs -> NextDues] :
             /\ configs' = [configs EXCEPT ![p] = cfgs]
             /\ loaded' = [loaded EXCEPT ![p] = yaml]
             /\ jobs' = Recovered(cfgs, rows(nxt), nxt)
             /\ runs' = [k \in Keys |-> AfterRestart(k)]
    BY <1>1 DEF StartWins
  <2>1. cfgs \in [Jobs -> Configs \cup {NoConfig}]  BY <1>0, YamlType
  <2>2. rows(nxt) \in [Jobs -> JobRow]  BY YamlType, ReloadedType DEF TypeOK
  <2> HIDE DEF cfgs, rows
  <2>3. jobs' \in [Jobs -> JobRow]
    <3>1. \A j \in Jobs : nxt[j] \in Times  BY NextDuesType
    <3>2. ASSUME NEW j \in Jobs
          PROVE  [rows(nxt)[j] EXCEPT !.due = IF cfgs[j] # NoConfig THEN nxt[j] ELSE NoDue]
                   \in JobRow
      BY <2>2, <3>1 DEF JobRow
    <3> QED  BY <2>2, <3>2 DEF Recovered
  <2>4. runs' \in [Keys -> RunRow]
    <3>1. ASSUME NEW k \in Keys PROVE AfterRestart(k) \in RunRow
      BY DEF AfterRestart, TypeOK, FinalStatus, RunRow
    <3> QED  BY <3>1
  <2> QED  BY <1>1, <2>1, <2>3, <2>4 DEF StartWins, TypeOK
<1>2. CASE StartLoses(p)  BY <1>2 DEF StartLoses, TypeOK
<1>3. CASE Stop(p)  BY <1>3 DEF Stop, TypeOK
<1>4. CASE Die(p)
  <2>1. [k \in Keys |-> NoTask] \in [Keys -> Task]  BY <1>0
  <2>2. children' \in SUBSET Keys  BY <1>4 DEF Die, TypeOK
  <2> QED  BY <1>0, <1>4, <2>1, <2>2 DEF Die, TypeOK
<1>5. CASE ReloadYaml(p)
  <2>1. jobs' \in [Jobs -> JobRow]  BY <1>5, YamlType, ReloadedType DEF ReloadYaml
  <2> QED  BY <1>5, <2>1, YamlType DEF ReloadYaml, TypeOK
<1> QED  BY <1>1, <1>2, <1>3, <1>4, <1>5
(* A tick over the due jobs: rows, requests and job rows keep their types. *)
LEMMA TypeTick ==
  ASSUME TypeOK, NEW p \in Procs, Tick(p)
  PROVE  TypeOK'
<1> DEFINE reqs(order) == [i \in 1 .. Len(order) |-> TickRequest(order[i])]
           queued(order) == {r.key : r \in Range(Fits(p, reqs(order)))}
           Key(j)  == TickKey(j, jobs[j].due)
           Up(j, nxt) == Upserted(jobs[j], configs[p][j], nxt[j])
           Late(j, order) == j \in Fires(p) /\ Key(j) \notin queued(order)
           new     == {Key(j) : j \in Fires(p)}
<1>1. PICK order \in SetToSeqs(Fires(p)), nxt \in [Jobs -> NextDues] :
        /\ Enqueue(p, reqs(order))
        /\ runs' = [k \in Keys |-> IF k \in new THEN TickedRow(p, k, queued(order)) ELSE runs[k]]
        /\ jobs' = [j \in Jobs |-> IF Late(j, order) THEN Finished(Up(j, nxt), "failure", nxt[j])
                                   ELSE IF j \in Fires(p) THEN Up(j, nxt)
                                   ELSE jobs[j]]
  BY DEF Tick
<1>2. Fires(p) \in SUBSET Jobs /\ IsFiniteSet(Fires(p))
  <2>1. Fires(p) \in SUBSET Jobs  BY DEF Fires, GetDue
  <2> QED  BY <2>1, SchedulerAssumption, FS_Subset
<1>3. order \in Seq(Fires(p))  BY <1>1, <1>2, OrderType
<1>4. ASSUME NEW j \in Fires(p)
      PROVE  /\ j \in Jobs /\ jobs[j].due \in Times /\ Key(j) \in Keys /\ Key(j).job = j
             /\ configs[p][j] # NoConfig
  <2>1. j \in Jobs /\ jobs[j].due # NoDue /\ configs[p][j] # NoConfig  BY DEF Fires, GetDue
  <2>2. jobs[j].due \in Times  BY <2>1 DEF TypeOK, JobRow
  <2>3. jobs[j].due \in 0 .. MaxTime
    BY <2>2, SchedulerAssumption DEF Fires, GetDue, NoDue, Times, TypeOK
  <2> QED  BY <2>1, <2>2, <2>3, TickKeyType DEF TickKey
<1>5. queue' \in [Procs -> Seq(Request)]
  <2>1. \A i \in 1 .. Len(order) : TickRequest(order[i]) \in Request
    BY <1>3, <1>4, SchedulerAssumption DEF TickRequest, Request
  <2>2. reqs(order) \in Seq(Request)  BY <1>3, <2>1
  <2> QED  BY <1>1, <2>2, EnqueueType
<1>6. runs' \in [Keys -> RunRow]
  <2>1. ASSUME NEW k \in new PROVE TickedRow(p, k, queued(order)) \in RunRow
    <3>1. k.job \in Jobs /\ configs[p][k.job] # NoConfig  BY <1>4
    <3>2. configs[p][k.job].kind \in Kinds  BY <3>1, ConfigTypes
    <3>3. NewRun(configs[p][k.job].kind) \in RunRow  BY <3>2 DEF NewRun, RunRow
    <3> HIDE DEF queued
    <3> QED  BY <3>3 DEF TickedRow, RunRow, FinalStatus, Outcomes
  <2> HIDE DEF new, queued
  <2> QED  BY <1>1, <2>1 DEF TypeOK
<1>7. jobs' \in [Jobs -> JobRow]
  <2>1. ASSUME NEW j \in Jobs PROVE nxt[j] \in Times /\ Up(j, nxt) \in JobRow
    <3>1. nxt[j] \in Times  BY NextDuesType
    <3>2. jobs[j] \in JobRow /\ configs[p][j] \in Configs \cup {NoConfig}  BY DEF TypeOK
    <3> QED  BY <3>1, <3>2, DueTypes
  <2>2. ASSUME NEW j \in Jobs PROVE Finished(Up(j, nxt), "failure", nxt[j]) \in JobRow
    <3> HIDE DEF Up
    <3> QED  BY <2>1, <2>2, FinishedTypes DEF FinalStatus, Outcomes
  <2> HIDE DEF Up, Late
  <2> QED  BY <1>1, <2>1, <2>2 DEF TypeOK
<1> QED  BY <1>5, <1>6, <1>7 DEF Tick, TypeOK, env, life, ext

LEMMA TypeDispatch ==
  ASSUME TypeOK, NEW p \in Procs, Dispatch(p)
  PROVE  TypeOK'
<1>1. Head(queue[p]) \in Request /\ Tail(queue[p]) \in Seq(Request)
  BY HeadTailProperties DEF Dispatch, TypeOK
<1>2. [pc |-> "new", cfg |-> NoConfig, depth |-> Head(queue[p]).depth] \in Task
  BY <1>1 DEF Task, Request
<1>3. tasks' \in [Procs -> [Keys -> Task]]  BY <1>1, <1>2 DEF Dispatch, TypeOK, Request
<1>4. queue' \in [Procs -> Seq(Request)]  BY <1>1 DEF Dispatch, TypeOK
<1> QED  BY <1>3, <1>4 DEF Dispatch, TypeOK, env, life, db, ext

(* The end of a run: its row, its job's row and the runs it chains.        *)
LEMMA TypeFinish ==
  ASSUME TypeOK, NEW p \in Procs, NEW k \in Keys, NEW st \in Outcomes,
         tasks[p][k].pc \notin {"none", "new"}, Finish(p, k, st),
         children' \in SUBSET Keys, UNCHANGED cluster
  PROVE  TypeOK'
<1> DEFINE new(fired) == Chained(p, k, fired)
           depth == tasks[p][k].depth
           reqs(order) == [i \in 1 .. Len(order) |-> [key |-> order[i], depth |-> depth + 1]]
<1>1. jobs' \in [Jobs -> JobRow]
  <2> PICK nxt \in NextDues :
           jobs' = [jobs EXCEPT ![k.job] = AutoDisabled(Finished(@, st, nxt), st)]
    BY DEF Finish
  <2>1. nxt \in Times /\ k.job \in Jobs /\ st \in FinalStatus
    BY NextDuesType DEF Keys, FinalStatus
  <2>2. Finished(jobs[k.job], st, nxt) \in JobRow  BY <2>1, FinishedTypes DEF TypeOK
  <2>3. AutoDisabled(Finished(jobs[k.job], st, nxt), st) \in JobRow
    BY <2>1, <2>2, FinishedTypes
  <2> QED  BY <2>1, <2>3 DEF TypeOK
<1>2. PICK fired \in SUBSET tasks[p][k].cfg.chain :
        /\ runs' = AfterFinish(p, k, st, new(fired))
        /\ \E order \in SetToSeqs(new(fired)) : Enqueue(p, reqs(order))
  BY DEF Finish
<1>3. ASSUME NEW i \in new(fired)
      PROVE  i \in Keys /\ configs[p][i.job].kind \in Kinds /\ depth < MaxChainDepth
  <2>1. tasks[p][k].cfg.chain \in SUBSET Jobs
    <3>1. tasks[p][k] \in Task  BY DEF TypeOK
    <3> QED  BY <3>1 DEF Task, Configs
  <2>2. PICK j \in fired : /\ i = ChainKey(k.job, j, now)
                           /\ configs[p][j] # NoConfig /\ depth < MaxChainDepth
    BY DEF Chained
  <2>3. j \in Jobs  BY <2>1, <2>2
  <2>4. i \in Keys /\ i.job = j
    <3>1. tasks[p][k].depth \in 0 .. MaxChainDepth  BY DEF TypeOK, Task
    <3>2. MaxChainDepth > 0  BY <2>2, <3>1, SchedulerAssumption
    <3>3. now \in 0 .. MaxTime /\ k.job \in Jobs  BY DEF TypeOK, Keys
    <3> QED  BY <2>2, <2>3, <3>2, <3>3, ChainKeyType DEF ChainKey
  <2> QED  BY <2>2, <2>3, <2>4, ConfigTypes
<1>4. runs' \in [Keys -> RunRow]
  <2>1. ASSUME NEW i \in new(fired) PROVE NewRun(configs[p][i.job].kind) \in RunRow
    BY <1>3, RunTypes, <2>1 DEF NewRun, RunRow
  <2>2. [runs[k] EXCEPT !.status = st] \in RunRow  BY DEF TypeOK, RunRow, FinalStatus
  <2> HIDE DEF new
  <2> QED  BY <1>2, <2>1, <2>2 DEF TypeOK, AfterFinish
<1>5. queue' \in [Procs -> Seq(Request)]
  <2>1. new(fired) \in SUBSET Keys  BY <1>3
  <2>2. IsFiniteSet(new(fired))  BY <2>1, KeysFinite, FS_Subset
  <2>3. PICK order \in SetToSeqs(new(fired)) : Enqueue(p, reqs(order))  BY <1>2
  <2>4. order \in Seq(new(fired))  BY <2>2, <2>3, OrderType
  <2>5. ASSUME NEW i \in 1 .. Len(order)
        PROVE  [key |-> order[i], depth |-> depth + 1] \in Request
    <3>1. order[i] \in new(fired)  BY <2>4, <2>5
    <3>2. order[i] \in Keys /\ depth < MaxChainDepth  BY <1>3, <3>1
    <3>3. depth + 1 \in 0 .. MaxChainDepth
      BY <3>2, SchedulerAssumption DEF TypeOK, Task
    <3> HIDE DEF new
    <3> QED  BY <3>2, <3>3 DEF Request
  <2>6. reqs(order) \in Seq(Request)  BY <2>4, <2>5
  <2> QED  BY <2>3, <2>6, EnqueueType
<1>6. tasks' \in [Procs -> [Keys -> Task]]
  BY SchedulerAssumption DEF Finish, TypeOK, NoTask, Task
<1> QED  BY <1>1, <1>4, <1>5, <1>6 DEF Finish, TypeOK, env, life
LEMMA TypeTask ==
  ASSUME TypeOK, NEW p \in Procs, NEW k \in Keys, TaskStep(p, k) \/ SlurmAccepts(p, k)
  PROVE  TypeOK'
<1> USE DEF env, life, mem, db, ext
<1>0. tasks[p][k] \in Task /\ k.job \in Jobs
  <2>1. tasks \in [Procs -> [Keys -> Task]]  BY DEF TypeOK
  <2>2. k.job \in Jobs  BY DEF Keys
  <2> QED  BY <2>1, <2>2
<1>1. CASE TaskStart(p, k)
  <2> DEFINE cfg == configs[p][k.job]
             next == IF cfg = NoConfig THEN NoTask
                     ELSE [pc |-> FirstPc(cfg.kind), cfg |-> cfg, depth |-> tasks[p][k].depth]
  <2>1. tasks[p][k].depth \in 0 .. MaxChainDepth  BY <1>0 DEF Task
  <2>2. cfg \in Configs \cup {NoConfig}  BY <1>0 DEF TypeOK
  <2>3. next \in Task
    <3>1. CASE cfg = NoConfig  BY <3>1, SchedulerAssumption DEF NoTask, Task
    <3>2. CASE cfg # NoConfig
      <4>1. FirstPc(cfg.kind) \in {"wait", "sbatch", "other"}  BY DEF FirstPc
      <4> QED  BY <2>1, <2>2, <3>2, <4>1 DEF Task
    <3> QED  BY <3>1, <3>2
  <2>4. tasks' = [tasks EXCEPT ![p][k] = next]  BY <1>1 DEF TaskStart
  <2> HIDE DEF next
  <2> QED  BY <1>1, <2>3, <2>4 DEF TaskStart, TypeOK
<1>2. CASE Acquire(p, k)
  <2>1. [tasks[p][k] EXCEPT !.pc = "exec"] \in Task  BY <1>0, <1>2 DEF Acquire, Task
  <2> QED  BY <1>2, <2>1 DEF Acquire, TypeOK
<1>3. CASE \E st \in Outcomes : ExecEnds(p, k, st)
  <2> PICK st \in Outcomes : ExecEnds(p, k, st)  BY <1>3
  <2>1. children' \in SUBSET Keys  BY DEF ExecEnds, TypeOK
  <2>2. UNCHANGED cluster /\ tasks[p][k].pc \notin {"none", "new"} /\ Finish(p, k, st)
    BY DEF ExecEnds
  <2> QED  BY <2>1, <2>2, TypeFinish
<1>4. CASE UnknownKind(p, k) \/ SbatchFails(p, k)
  <2>1. children' \in SUBSET Keys  BY <1>4 DEF UnknownKind, SbatchFails, TypeOK
  <2>2. UNCHANGED cluster /\ tasks[p][k].pc \notin {"none", "new"} /\ Finish(p, k, "failure")
    BY <1>4 DEF UnknownKind, SbatchFails
  <2> QED  BY <2>1, <2>2, TypeFinish DEF Outcomes
<1>5. CASE SbatchReturns(p, k)
  <2>1. [runs[k] EXCEPT !.slurm = TRUE] \in RunRow  BY DEF TypeOK, RunRow
  <2>2. NoTask \in Task  BY SchedulerAssumption DEF NoTask, Task
  <2> QED  BY <1>5, <2>1, <2>2 DEF SbatchReturns, TypeOK
<1>6. CASE SlurmAccepts(p, k)  BY <1>6 DEF SlurmAccepts, TypeOK
<1> QED  BY <1>1, <1>2, <1>3, <1>4, <1>5, <1>6 DEF TaskStep

LEMMA TypeReconcile ==
  ASSUME TypeOK, NEW p \in Procs, AskSacct(p) \/ SacctFails(p) \/ SacctAnswers(p)
  PROVE  TypeOK'
<1> USE DEF env, life, db, ext
<1>1. CASE AskSacct(p)  BY <1>1 DEF AskSacct, RunningSlurm, TypeOK
<1>2. CASE SacctFails(p)  BY <1>2 DEF SacctFails, TypeOK
<1>3. CASE SacctAnswers(p)
  <2> DEFINE ended == {k \in asked[p] : cluster[k] \in {"COMPLETED", "FAILED"}}
  <2>1. ended \in SUBSET Keys /\ IsFiniteSet(ended)
    <3>1. ended \in SUBSET Keys  BY DEF TypeOK
    <3> QED  BY <3>1, KeysFinite, FS_Subset
  <2>2. runs' \in [Keys -> RunRow]
    <3>1. runs' = [k \in Keys |-> IF k \in ended THEN [runs[k] EXCEPT !.status = Verdict(k)]
                                  ELSE runs[k]]
      BY <1>3 DEF SacctAnswers
    <3>2. ASSUME NEW k \in Keys
          PROVE  runs[k] \in RunRow /\ [runs[k] EXCEPT !.status = Verdict(k)] \in RunRow
      <4>1. Verdict(k) \in FinalStatus  BY DEF Verdict, FinalStatus, Outcomes
      <4>2. runs[k] \in RunRow  BY DEF TypeOK
      <4> QED  BY <4>1, <4>2, RunTypes DEF RunRow
    <3> HIDE DEF ended
    <3> QED  BY <3>1, <3>2
  <2>3. PICK order \in SetToSeqs(ended), nxt \in [Jobs -> NextDues] :
          jobs' = [j \in Jobs |->
             IF \E k \in ended : k.job = j
             THEN [jobs[j] EXCEPT !.failures = Recount(j, order),
                                  !.due = IF configs[p][j] # NoConfig THEN nxt[j] ELSE NoDue]
             ELSE jobs[j]]
    BY <1>3 DEF SacctAnswers
  <2>4. order \in Seq(ended)  BY <2>1, <2>3, OrderType
  <2>5. ASSUME NEW j \in Jobs PROVE Recount(j, order) \in Nat
    <3> DEFINE mine == {i \in 1 .. Len(order) : order[i].job = j}
               streak == {i \in mine : \A h \in mine : h >= i => Verdict(order[h]) = "failure"}
    <3>1. streak \in SUBSET (1 .. Len(order)) /\ Len(order) \in Int  BY <2>4
    <3>2. IsFiniteSet(streak)
      <4>1. IsFiniteSet(1 .. Len(order))  BY <3>1, FS_Interval
      <4> HIDE DEF streak
      <4> QED  BY <3>1, <4>1, FS_Subset
    <3>3. Cardinality(streak) \in Nat  BY <3>2, FS_CardinalityType
    <3>4. jobs[j].failures \in Nat  BY DEF TypeOK, JobRow
    <3>5. Recount(j, order) = Cardinality(streak)
                               + (IF streak = mine THEN jobs[j].failures ELSE 0)
      BY DEF Recount
    <3> HIDE DEF streak, mine
    <3> QED  BY <3>3, <3>4, <3>5
  <2>6. ASSUME NEW j \in Jobs
        PROVE  [jobs[j] EXCEPT !.failures = Recount(j, order),
                               !.due = IF configs[p][j] # NoConfig THEN nxt[j] ELSE NoDue]
                 \in JobRow
    <3>1. nxt[j] \in Times  BY NextDuesType
    <3>2. jobs[j] \in JobRow  BY DEF TypeOK
    <3>3. Recount(j, order) \in Nat  BY <2>5
    <3> QED  BY <3>1, <3>2, <3>3 DEF JobRow
  <2>7. jobs' \in [Jobs -> JobRow]  BY <2>3, <2>6 DEF TypeOK
  <2> QED  BY <1>3, <2>2, <2>7 DEF SacctAnswers, TypeOK
<1> QED  BY <1>1, <1>2, <1>3

LEMMA TypeManual ==
  ASSUME TypeOK, NEW p \in Procs, NEW j \in Attended, Manual(p, j)
  PROVE  TypeOK'
<1> USE DEF env, life, mem, ext
<1>0. j \in Jobs /\ jobs[j] \in JobRow
  <2>1. j \in Jobs  BY SchedulerAssumption
  <2>2. jobs \in [Jobs -> JobRow]  BY DEF TypeOK
  <2> QED  BY <2>1, <2>2
<1>1. CASE RunNow(p, j)
  <2> DEFINE k == ManualKey(j, now)
  <2>1. k \in Keys  BY ManualKeyType DEF TypeOK
  <2>2. NewRun(configs[p][j].kind) \in RunRow
    BY <1>0, <1>1, ConfigTypes DEF RunNow, NewRun, RunRow
  <2>3. <<[key |-> k, depth |-> 0]>> \in Seq(Request)
    <3> HIDE DEF k
    <3> QED  BY <2>1, SchedulerAssumption DEF Request
  <2>4. queue' \in [Procs -> Seq(Request)]  BY <1>1, <2>3, EnqueueType DEF RunNow
  <2>5. runs' \in [Keys -> RunRow]  BY <1>1, <2>1, <2>2 DEF RunNow, TypeOK
  <2> QED  BY <1>1, <2>4, <2>5 DEF RunNow, TypeOK
<1>2. CASE Pause(p, j)
  <2>1. [jobs[j] EXCEPT !.enabled = FALSE] \in JobRow  BY ONLY <1>0 DEF JobRow
  <2> QED  BY <1>0, <1>2, <2>1 DEF Pause, TypeOK, db
<1>3. CASE Resume(p, j)
  <2> DEFINE row == [jobs[j] EXCEPT !.enabled = TRUE, !.failures = 0]
  <2>1. row \in JobRow  BY ONLY <1>0 DEF JobRow
  <2> HIDE DEF row
  <2>2. PICK nxt \in NextDues :
          jobs' = [jobs EXCEPT ![j] = IF configs[p][j] # NoConfig
                                      THEN Upserted(row, configs[p][j], nxt) ELSE row]
    BY <1>3 DEF Resume, row
  <2>3. Upserted(row, configs[p][j], nxt) \in JobRow
    <3>1. nxt \in Times  BY NextDuesType
    <3>2. configs[p][j] \in Configs \cup {NoConfig}  BY <1>0 DEF TypeOK
    <3> QED  BY <2>1, <3>1, <3>2, DueTypes
  <2> QED  BY <1>0, <1>3, <2>1, <2>2, <2>3 DEF Resume, TypeOK, db
<1> QED  BY <1>1, <1>2, <1>3 DEF Manual

LEMMA TypeStep == TypeOK /\ [Next]_vars => TypeOK'
<1> SUFFICES ASSUME TypeOK, [Next]_vars PROVE TypeOK'  OBVIOUS
<1>1. CASE UNCHANGED vars  BY <1>1 DEF vars, env, life, mem, db, ext, TypeOK
<1>2. CASE Next
  BY <1>2, SchedulerAssumption, TypeEnvironment, TypeLife, TypeTick, TypeDispatch, TypeTask,
     TypeReconcile, TypeManual DEF Next
<1> QED  BY <1>1, <1>2

(* Every variable keeps its type: the scheduler never leaves the statuses, *)
(* chain depths and instants its tables and requests are meant to hold.    *)
THEOREM TypeCorrect == Spec => []TypeOK
BY TypeInit, TypeStep, PTL DEF Spec
-----------------------------------------------------------------------------
(* At most one open tick run per job, for any number of processes.         *)

(* Only the tick loop opens a row with a tick key.                         *)
TickRowsKept ==
  \A k \in Keys : k.origin = "tick" /\ runs'[k].status = "running"
                    => runs[k].status = "running"

LEMMA FinishKeepsTickRows ==
  ASSUME TypeOK, NEW p \in Procs, NEW k \in Keys, NEW st \in Outcomes, Finish(p, k, st)
  PROVE  TickRowsKept
<1>1. PICK new : /\ \A i \in new : i.origin = "chain"
                 /\ runs' = AfterFinish(p, k, st, new)
  <2>1. PICK fired \in SUBSET tasks[p][k].cfg.chain :
          runs' = AfterFinish(p, k, st, Chained(p, k, fired))
    BY DEF Finish
  <2>2. ASSUME NEW i \in Chained(p, k, fired) PROVE i.origin = "chain"
    <3>1. \E j \in fired : i = ChainKey(k.job, j, now)  BY DEF Chained
    <3> QED  BY <3>1 DEF ChainKey
  <2> QED  BY <2>1, <2>2
<1>2. [runs[k] EXCEPT !.status = st].status = st  BY DEF TypeOK, RunRow
<1> QED  BY <1>1, <1>2 DEF AfterFinish, TickRowsKept, Outcomes

LEMMA TaskKeepsTickRows ==
  ASSUME TypeOK, NEW p \in Procs, NEW k \in Keys, TaskStep(p, k) \/ SlurmAccepts(p, k)
  PROVE  TickRowsKept
<1>1. CASE \E st \in Outcomes : Finish(p, k, st)  BY <1>1, FinishKeepsTickRows
<1>2. CASE UNCHANGED runs  BY <1>2 DEF TickRowsKept
<1>3. CASE SbatchReturns(p, k)
  <2>1. \A i \in Keys : runs'[i].status = runs[i].status
    BY <1>3 DEF SbatchReturns, TypeOK, RunRow
  <2> QED  BY <2>1 DEF TickRowsKept
<1> QED
  BY <1>1, <1>2, <1>3 DEF TaskStep, TaskStart, Acquire, ExecEnds, UnknownKind, SbatchFails,
                          SlurmAccepts, Outcomes, db

LEMMA OthersKeepTickRows ==
  ASSUME TypeOK, NEW p \in Procs,
         \/ StartWins(p) \/ StartLoses(p) \/ Stop(p) \/ Die(p) \/ ReloadYaml(p)
         \/ Dispatch(p) \/ AskSacct(p) \/ SacctFails(p) \/ SacctAnswers(p)
         \/ \E j \in Attended : Manual(p, j)
  PROVE  TickRowsKept
<1> USE DEF TickRowsKept
<1>1. CASE StartWins(p)
  <2>1. \A k \in Keys : runs'[k] = AfterRestart(k)  BY <1>1 DEF StartWins
  <2>2. ASSUME NEW k \in Keys, AfterRestart(k).status = "running"
        PROVE  runs[k].status = "running"
    BY <2>2 DEF AfterRestart, Stale
  <2> QED  BY <2>1, <2>2
<1>2. CASE SacctAnswers(p)
  <2>1. \A k \in Keys : \/ runs'[k] = runs[k]
                        \/ runs'[k] = [runs[k] EXCEPT !.status = Verdict(k)]
    BY <1>2 DEF SacctAnswers
  <2>2. \A k \in Keys : Verdict(k) # "running"  BY DEF Verdict
  <2> QED  BY <2>1, <2>2 DEF TypeOK, RunRow
<1>3. ASSUME NEW j \in Attended, RunNow(p, j)  PROVE TickRowsKept
  <2>1. runs' = [runs EXCEPT ![ManualKey(j, now)] = NewRun(configs[p][j].kind)]
    BY <1>3 DEF RunNow
  <2>2. ManualKey(j, now).origin # "tick"  BY DEF ManualKey
  <2>3. \A k \in Keys : k # ManualKey(j, now) => runs'[k] = runs[k]  BY <2>1 DEF TypeOK
  <2> QED  BY <2>2, <2>3
<1>4. CASE UNCHANGED runs  BY <1>4
<1> QED
  BY <1>1, <1>2, <1>3, <1>4 DEF StartLoses, Stop, Die, ReloadYaml, Dispatch, AskSacct,
     SacctFails, Manual, Pause, Resume, db

LEMMA TickOpensOne ==
  ASSUME TypeOK, OneTickRun, NEW p \in Procs, Tick(p)
  PROVE  OneTickRun'
<1> DEFINE new == {TickKey(j, jobs[j].due) : j \in Fires(p)}
<1>1. \A k \in Keys : k \notin new => runs'[k] = runs[k]
  BY DEF Tick
<1>2. ASSUME NEW j \in Jobs, NEW k \in Running(j)', NEW l \in Running(j)',
             k.origin = "tick", l.origin = "tick"
      PROVE  k = l
  <2>1. k \in Keys /\ l \in Keys /\ k.job = j /\ l.job = j  BY DEF Running
  <2>2. CASE j \in Fires(p)
    <3>1. Running(j) = {}  BY <2>2 DEF Fires, GetDue
    <3>2. k \in new /\ l \in new
      BY <1>1, <2>1, <3>1, <1>2 DEF Running
    <3>3. \A i \in new : i.job = j => i = TickKey(j, jobs[j].due)  BY DEF TickKey
    <3> QED  BY <2>1, <3>2, <3>3
  <2>3. CASE j \notin Fires(p)
    <3>1. k \notin new /\ l \notin new  BY <2>1, <2>3 DEF TickKey
    <3>2. k \in Running(j) /\ l \in Running(j)
      <4>1. runs'[k] = runs[k] /\ runs'[l] = runs[l]  BY <1>1, <2>1, <3>1
      <4> QED  BY <2>1, <4>1, <1>2 DEF Running
    <3> QED  BY <3>2, <1>2 DEF OneTickRun
  <2> QED  BY <2>2, <2>3
<1> QED  BY <1>2 DEF OneTickRun

(* No two open runs of a job were both started by the tick loop, whatever  *)
(* processes start, stop, crash and hand the lock over in between.         *)
THEOREM TicksDoNotOverlap == Spec => []OneTickRun
<1>1. Init => OneTickRun
  BY DEF Init, OneTickRun, Running, NoRun
<1>2. TypeOK /\ OneTickRun /\ [Next]_vars => OneTickRun'
  <2> SUFFICES ASSUME TypeOK, OneTickRun, [Next]_vars PROVE OneTickRun'  OBVIOUS
  <2>1. CASE TickRowsKept
    <3>1. ASSUME NEW j \in Jobs, NEW k \in Running(j)', k.origin = "tick"
          PROVE  k \in Running(j)
      BY <2>1, <3>1 DEF TickRowsKept, Running
    <3> QED  BY <3>1 DEF OneTickRun
  <2>2. CASE UNCHANGED runs  BY <2>2, <2>1 DEF TickRowsKept
  <2>3. CASE \E p \in Procs : Tick(p)  BY <2>3, TickOpensOne
  <2> QED
    BY <2>1, <2>2, <2>3, TaskKeepsTickRows, OthersKeepTickRows
       DEF Next, vars, Tock, EditYaml, OrphanExits, SlurmEnds, db
<1> QED  BY <1>1, <1>2, TypeCorrect, PTL DEF Spec
-----------------------------------------------------------------------------
(* What a process has in hand: the requests in its queue and its tasks.    *)

Plain(s) == \A h, i \in 1 .. Len(s) : s[h].key = s[i].key => h = i
InQueue(s, k) == \E i \in 1 .. Len(s) : s[i].key = k

Holds(p, k) == Queued(p, k) \/ Working(p, k)
Apart(p) == Plain(queue[p]) /\ \A k \in Keys : ~(Queued(p, k) /\ Working(p, k))

(* A step of p that drops some of what p holds and adds new requests.      *)
Moves(p, drop, add) ==
  /\ Apart(p)'
  /\ \A k \in Keys : Holds(p, k)' <=> (Holds(p, k) /\ k \notin drop) \/ k \in add
  /\ \A q \in Procs \ {p} : /\ queue'[q] = queue[q]
                            /\ \A k \in Keys : Working(q, k)' <=> Working(q, k)

(* The keys that a sequence of requests brings into a queue.               *)
KeysOf(s) == {s[i].key : i \in 1 .. Len(s)}

LEMMA KeysInQueue == \A s, k : InQueue(s, k) <=> k \in KeysOf(s)
BY DEF InQueue, KeysOf

LEMMA ConcatPlain ==
  ASSUME NEW s \in Seq(Request), NEW t \in Seq(Request), Plain(s), Plain(t),
         \A k \in KeysOf(t) : ~InQueue(s, k)
  PROVE  /\ Plain(s \o t)
         /\ \A k : InQueue(s \o t, k) <=> InQueue(s, k) \/ k \in KeysOf(t)
<1>1. /\ Len(s) \in Nat /\ Len(t) \in Nat /\ Len(s \o t) = Len(s) + Len(t)
      /\ \A i \in 1 .. Len(s \o t) : (s \o t)[i] = IF i <= Len(s) THEN s[i] ELSE t[i - Len(s)]
  BY ConcatProperties
<1>2. \A i \in 1 .. Len(s) : i \in 1 .. Len(s \o t) /\ (s \o t)[i] = s[i]
  BY <1>1
<1>3. \A i \in 1 .. Len(t) : i + Len(s) \in 1 .. Len(s \o t) /\ (s \o t)[i + Len(s)] = t[i]
  BY <1>1
<1>4. ASSUME NEW i \in 1 .. Len(s \o t)
      PROVE  \/ i \in 1 .. Len(s) /\ (s \o t)[i] = s[i]
             \/ i - Len(s) \in 1 .. Len(t) /\ (s \o t)[i] = t[i - Len(s)]
  BY <1>1
<1>5. Plain(s \o t)
  <2> SUFFICES ASSUME NEW h \in 1 .. Len(s \o t), NEW i \in 1 .. Len(s \o t),
                      (s \o t)[h].key = (s \o t)[i].key
               PROVE  h = i
    BY DEF Plain
  <2>1. CASE h \in 1 .. Len(s) /\ (s \o t)[h] = s[h] /\ i \in 1 .. Len(s) /\ (s \o t)[i] = s[i]
    BY <2>1 DEF Plain
  <2>2. CASE /\ h - Len(s) \in 1 .. Len(t) /\ (s \o t)[h] = t[h - Len(s)]
             /\ i - Len(s) \in 1 .. Len(t) /\ (s \o t)[i] = t[i - Len(s)]
    <3>1. h - Len(s) = i - Len(s)  BY <2>2 DEF Plain
    <3> QED  BY <1>1, <3>1
  <2>3. CASE /\ h \in 1 .. Len(s) /\ (s \o t)[h] = s[h]
             /\ i - Len(s) \in 1 .. Len(t) /\ (s \o t)[i] = t[i - Len(s)]
    BY <2>3 DEF KeysOf, InQueue
  <2>4. CASE /\ i \in 1 .. Len(s) /\ (s \o t)[i] = s[i]
             /\ h - Len(s) \in 1 .. Len(t) /\ (s \o t)[h] = t[h - Len(s)]
    BY <2>4 DEF KeysOf, InQueue
  <2> QED  BY <1>4, <2>1, <2>2, <2>3, <2>4
<1>6. ASSUME NEW k PROVE InQueue(s \o t, k) <=> InQueue(s, k) \/ k \in KeysOf(t)
  <2>1. ASSUME InQueue(s \o t, k) PROVE InQueue(s, k) \/ k \in KeysOf(t)
    BY <1>4, <2>1 DEF InQueue, KeysOf
  <2>2. ASSUME InQueue(s, k) PROVE InQueue(s \o t, k)
    BY <1>2, <2>2 DEF InQueue
  <2>3. ASSUME k \in KeysOf(t) PROVE InQueue(s \o t, k)
    BY <1>3, <2>3 DEF InQueue, KeysOf
  <2> QED  BY <2>1, <2>2, <2>3
<1> QED  BY <1>5, <1>6

LEMMA TailPlain ==
  ASSUME NEW s \in Seq(Request), s # <<>>, Plain(s)
  PROVE  /\ Plain(Tail(s)) /\ ~InQueue(Tail(s), Head(s).key)
         /\ \A k : InQueue(s, k) <=> InQueue(Tail(s), k) \/ k = Head(s).key
<1>1. /\ Len(s) \in Nat \ {0} /\ Len(Tail(s)) = Len(s) - 1 /\ Head(s) = s[1]
      /\ \A i \in 1 .. Len(Tail(s)) : Tail(s)[i] = s[i + 1]
  BY HeadTailProperties, LenProperties, EmptySeq
<1>2. \A i \in 1 .. Len(Tail(s)) : i + 1 \in 1 .. Len(s) /\ i + 1 # 1
  BY <1>1
<1>3. Plain(Tail(s))
  <2> SUFFICES ASSUME NEW h \in 1 .. Len(Tail(s)), NEW i \in 1 .. Len(Tail(s)),
                      Tail(s)[h].key = Tail(s)[i].key
               PROVE  h = i
    BY DEF Plain
  <2>1. h + 1 = i + 1  BY <1>1, <1>2 DEF Plain
  <2> QED  BY <1>1, <2>1
<1>4. ~InQueue(Tail(s), Head(s).key)
  <2>1. 1 \in 1 .. Len(s)  BY <1>1
  <2> QED  BY <1>1, <1>2, <2>1 DEF Plain, InQueue
<1>5. ASSUME NEW k PROVE InQueue(s, k) <=> InQueue(Tail(s), k) \/ k = Head(s).key
  <2>1. ASSUME NEW i \in 1 .. Len(s), i # 1
        PROVE  i - 1 \in 1 .. Len(Tail(s)) /\ s[i] = Tail(s)[i - 1]
    <3>1. i - 1 \in 1 .. Len(Tail(s)) /\ (i - 1) + 1 = i  BY <1>1, <2>1
    <3>2. Tail(s)[i - 1] = s[(i - 1) + 1]  BY ONLY <1>1, <3>1
    <3> QED  BY <3>1, <3>2
  <2>2. 1 \in 1 .. Len(s)  BY <1>1
  <2> QED  BY <1>1, <1>2, <2>1, <2>2 DEF InQueue
<1> QED  BY <1>3, <1>4, <1>5

(* What fits is a prefix of what was asked for, and all of it if the queue *)
(* does not fill up.                                                       *)
LEMMA FitsPlain ==
  ASSUME TypeOK, NEW p \in Procs, NEW reqs \in Seq(Request), Plain(reqs)
  PROVE  /\ Plain(Fits(p, reqs)) /\ KeysOf(Fits(p, reqs)) \subseteq KeysOf(reqs)
         /\ Enqueue(p, reqs) /\ Len(queue[p]) < QueueCap /\ Len(queue'[p]) < QueueCap
              => Fits(p, reqs) = reqs
<1> DEFINE room == QueueCap - Len(queue[p])
           fits == Fits(p, reqs)
<1>1. room \in Int /\ Len(reqs) \in Nat /\ queue[p] \in Seq(Request) /\ Len(queue[p]) \in Nat
  BY SchedulerAssumption DEF TypeOK
<1>2. CASE Len(reqs) <= room
  <2>1. fits = reqs  BY <1>2 DEF Fits
  <2> QED  BY <2>1
<1>3. CASE ~(Len(reqs) <= room)
  <2> HIDE DEF room
  <2>1. \A i \in 1 .. room : reqs[i] \in Request  BY <1>1, <1>3
  <2>2. /\ fits = SubSeq(reqs, 1, room) /\ fits \in Seq(Request)
        /\ Len(fits) = IF 1 <= room THEN room ELSE 0
        /\ \A i \in 1 .. Len(fits) : fits[i] = reqs[i] /\ i \in 1 .. Len(reqs)
    <3>1. fits = SubSeq(reqs, 1, room)  BY <1>3 DEF Fits, room
    <3>2. /\ SubSeq(reqs, 1, room) \in Seq(Request)
          /\ Len(SubSeq(reqs, 1, room)) = IF 1 <= room THEN room ELSE 0
          /\ \A i \in 1 .. room : SubSeq(reqs, 1, room)[i] = reqs[i]
      BY <1>1, <2>1, SubSeqProperties
    <3> HIDE DEF fits
    <3> QED  BY <1>1, <1>3, <3>1, <3>2
  <2> HIDE DEF fits
  <2>3. Plain(fits) /\ KeysOf(fits) \subseteq KeysOf(reqs)  BY <2>2 DEF Plain, KeysOf
  <2>4. ASSUME Enqueue(p, reqs), Len(queue[p]) < QueueCap  PROVE ~(Len(queue'[p]) < QueueCap)
    <3>1. queue'[p] = queue[p] \o fits  BY <2>4 DEF Enqueue, TypeOK, fits
    <3>2. Len(queue'[p]) = Len(queue[p]) + Len(fits)  BY <1>1, <2>2, <3>1, ConcatProperties
    <3>3. QueueCap \in Nat /\ room = QueueCap - Len(queue[p])
      BY SchedulerAssumption DEF room
    <3>4. Len(fits) = room
      <4>1. 1 <= room  BY ONLY <1>1, <2>4, <3>3
      <4> QED  BY ONLY <2>2, <4>1
    <3> QED  BY ONLY <1>1, <3>2, <3>3, <3>4
  <2> QED  BY <2>3, <2>4 DEF fits
<1> QED  BY <1>2, <1>3

(* An order in which a finite set is processed has each element once.      *)
LEMMA OrderAll ==
  ASSUME NEW S, IsFiniteSet(S), NEW order \in SetToSeqs(S)
  PROVE  /\ \A h, i \in 1 .. Len(order) : order[h] = order[i] => h = i
         /\ \A x \in S : \E i \in 1 .. Len(order) : order[i] = x
<1> DEFINE n == Cardinality(S)
<1>1. n \in Nat  BY FS_CardinalityType
<1>2. order \in [1 .. n -> S] /\ \A h, i \in 1 .. n : h # i => order[h] # order[i]
  BY DEF SetToSeqs
<1> HIDE DEF n
<1>3. Len(order) = n  BY <1>1, <1>2
<1>4. order \in Injection(1 .. n, S)  BY <1>2 DEF Injection, IsInjective
<1>5. Cardinality(1 .. n) = Cardinality(S)  BY <1>1, FS_Interval DEF n
<1>6. order \in Surjection(1 .. n, S)  BY <1>4, <1>5, FS_Injection
<1> QED  BY <1>2, <1>3, <1>6 DEF Surjection

(* The moves that the actions are made of.                                 *)
LEMMA MoveNothing ==
  ASSUME NEW p \in Procs, Apart(p), UNCHANGED queue,
         \A q \in Procs, k \in Keys : Working(q, k)' <=> Working(q, k)
  PROVE  Moves(p, {}, {})
BY DEF Moves, Apart, Holds, Queued, Plain

LEMMA MoveOut ==
  ASSUME NEW p \in Procs, NEW k \in Keys, Apart(p), UNCHANGED queue, tasks \in [Procs -> [Keys -> Task]],
         Working(p, k), tasks' = [tasks EXCEPT ![p][k] = NoTask]
  PROVE  Moves(p, {k}, {})
<1>1. \A q \in Procs, i \in Keys : Working(q, i)' <=> Working(q, i) /\ ~(q = p /\ i = k)
  BY DEF Working, NoTask
<1> QED  BY <1>1 DEF Moves, Apart, Holds, Queued, Plain

LEMMA MoveAll ==
  ASSUME TypeOK, NEW p \in Procs, Die(p)
  PROVE  Moves(p, Keys, {})
<1>1. /\ queue'[p] = <<>> /\ \A k \in Keys : tasks'[p][k] = NoTask
      /\ \A q \in Procs \ {p} : queue'[q] = queue[q] /\ tasks'[q] = tasks[q]
  BY DEF Die, TypeOK
<1>2. \A k \in Keys : ~Queued(p, k)' /\ ~Working(p, k)'
  BY <1>1 DEF Queued, Working, NoTask
<1>3. Plain(queue[p])'  BY <1>1 DEF Plain
<1> QED  BY <1>1, <1>2, <1>3 DEF Moves, Apart, Holds, Working

LEMMA MoveHead ==
  ASSUME TypeOK, NEW p \in Procs, Apart(p), Dispatch(p)
  PROVE  Moves(p, {}, {})
<1> DEFINE r == Head(queue[p])
<1>1. queue[p] \in Seq(Request) /\ queue[p] # <<>> /\ r \in Request
  BY HeadTailProperties DEF Dispatch, TypeOK
<1>2. r.key \in Keys  BY <1>1 DEF Request
<1>3. /\ queue'[p] = Tail(queue[p])
      /\ \A q \in Procs \ {p} : queue'[q] = queue[q] /\ tasks'[q] = tasks[q]
  BY DEF Dispatch, TypeOK
<1>4. \A k \in Keys : Working(p, k)' <=> Working(p, k) \/ k = r.key
  BY <1>2 DEF Dispatch, TypeOK, Working
<1>5. /\ Plain(Tail(queue[p])) /\ ~InQueue(Tail(queue[p]), r.key)
      /\ \A k : InQueue(queue[p], k) <=> InQueue(Tail(queue[p]), k) \/ k = r.key
  BY <1>1, TailPlain DEF Apart
<1> HIDE DEF r
<1>6. \A k \in Keys : /\ Queued(p, k) <=> InQueue(queue[p], k)
                      /\ Queued(p, k)' <=> InQueue(Tail(queue[p]), k)
  BY <1>3 DEF Queued, InQueue
<1>7. Apart(p)'  BY <1>3, <1>4, <1>5, <1>6 DEF Apart
<1>8. \A k \in Keys : Holds(p, k)' <=> Holds(p, k)
  BY <1>4, <1>5, <1>6 DEF Holds
<1> QED  BY <1>3, <1>7, <1>8 DEF Moves, Working

LEMMA MoveIn ==
  ASSUME TypeOK, NEW p \in Procs, Apart(p), NEW reqs \in Seq(Request), Plain(reqs),
         \A k \in KeysOf(reqs) : k \in Keys /\ ~Holds(p, k), Enqueue(p, reqs),
         NEW drop \in SUBSET Keys, \A k \in drop : Working(p, k),
         \A q \in Procs, k \in Keys :
           Working(q, k)' <=> Working(q, k) /\ ~(q = p /\ k \in drop)
  PROVE  Moves(p, drop, KeysOf(Fits(p, reqs)))
<1> DEFINE fits == Fits(p, reqs)
<1>1. fits \in Seq(Request) /\ Plain(fits) /\ KeysOf(fits) \subseteq KeysOf(reqs)
  BY FitsType, FitsPlain
<1>2. queue'[p] = queue[p] \o fits /\ \A q \in Procs \ {p} : queue'[q] = queue[q]
  BY DEF Enqueue, TypeOK
<1>3. queue[p] \in Seq(Request)  BY DEF TypeOK
<1> HIDE DEF fits
<1>4. \A k \in Keys : /\ Queued(p, k) <=> InQueue(queue[p], k)
                      /\ Queued(p, k)' <=> InQueue(queue[p] \o fits, k)
  BY <1>2 DEF Queued, InQueue
<1>5. \A k \in KeysOf(fits) : k \in Keys /\ ~InQueue(queue[p], k) /\ ~Working(p, k)
  BY <1>1, <1>4 DEF Holds
<1>6. /\ Plain(queue[p] \o fits)
      /\ \A k : InQueue(queue[p] \o fits, k) <=> InQueue(queue[p], k) \/ k \in KeysOf(fits)
  <2>1. Plain(queue[p])  BY DEF Apart
  <2> QED  BY <1>1, <1>3, <1>5, <2>1, ConcatPlain
<1>7. Apart(p)'
  <2>1. \A k \in Keys : ~(Queued(p, k)' /\ Working(p, k)')
    BY <1>4, <1>5, <1>6 DEF Apart
  <2> QED  BY <1>2, <1>6, <2>1 DEF Apart
<1>8. \A k \in Keys : Holds(p, k)' <=> (Holds(p, k) /\ k \notin drop) \/ k \in KeysOf(fits)
  BY <1>4, <1>5, <1>6 DEF Holds, Apart
<1> QED  BY <1>2, <1>7, <1>8 DEF Moves, fits
-----------------------------------------------------------------------------
(* What a process has in hand is open, is in one place and in one process. *)

Alone == \A p, q \in Procs : p = q

(* The status of a run in hand: a second process abandons, when it starts, *)
(* the runs that a stopped one still has in hand.                          *)
HeldStatus == {"running"} \cup (IF Alone THEN {} ELSE {"abandoned"})

HandsApart == \A p \in Procs : Apart(p)
OneHolder  == \A p, q \in Procs, k \in Keys : Holds(p, k) /\ Holds(q, k) => p = q
HeldRows   == \A p \in Procs, k \in Keys :
                Holds(p, k) => runs[k].status \in HeldStatus /\ ~runs[k].slurm
DownIsBare == \A p \in Procs, k \in Keys : mode[p] = "down" => ~Holds(p, k)
HandsInv   == HandsApart /\ OneHolder /\ HeldRows /\ DownIsBare

(* The rows sacct was asked about are open, and the asker is active.       *)
AskedRows == \A p \in Procs : /\ asked[p] \subseteq RunningSlurm
                              /\ asked[p] # {} => mode[p] = "active"
LockIsActive == \A p \in Procs : mode[p] = "active" <=> lock = p

WorkInv == TypeOK /\ HandsInv /\ AskedRows /\ LockIsActive

(* How the rows change when p drops what it holds and opens new rows, some *)
(* of which it adds to its queue.                                          *)
Opened(p, k) == /\ runs[k].status = "none" /\ configs[p][k.job] # NoConfig
                /\ runs'[k].kind = configs[p][k.job].kind /\ ~runs'[k].slurm
Closed(k) == /\ runs'[k].kind = runs[k].kind
             /\ \/ runs'[k].slurm = runs[k].slurm /\ runs'[k].status \in Outcomes
                \/ runs'[k].slurm /\ runs'[k].status = runs[k].status
                \/ runs'[k] = runs[k]
Rows(p, drop, new, add) ==
  /\ add \subseteq new /\ new \subseteq Keys /\ \A k \in drop \cap Keys : Holds(p, k)
  /\ \A k \in new : Opened(p, k) /\ runs'[k].status \in {"running", "failure"}
  /\ \A k \in add : runs'[k].status = "running"
  /\ \A k \in drop \cap Keys : Closed(k)
  /\ \A k \in Keys \ (new \cup drop) : runs'[k] = runs[k]
  /\ UNCHANGED mode /\ (new # {} => mode[p] # "down")
Hand(p, drop, new, add) == Moves(p, drop, add) /\ Rows(p, drop, new, add)

(* What any step but an answer of sacct may do to a row.                   *)
RowMoves ==
  \A k \in Keys :
    \/ runs'[k] = runs[k]
    \/ runs[k].status = "none" /\ ~runs'[k].slurm
    \/ runs[k].status \in HeldStatus /\ ~runs[k].slurm /\ ~runs'[k].slurm
    \/ k \in Stale /\ runs'[k] = [runs[k] EXCEPT !.status = "abandoned"]
    \/ runs[k].status \in HeldStatus /\ ~runs[k].slurm /\ runs'[k].status = runs[k].status

LEMMA HandSound ==
  ASSUME HandsInv, NEW p \in Procs, NEW drop, NEW new, NEW add, Hand(p, drop, new, add)
  PROVE  HandsInv' /\ RowMoves
<1>1. /\ \A k \in new : runs[k].status = "none" /\ runs[k].status \notin HeldStatus
      /\ \A q \in Procs, k \in new : k \in Keys /\ ~Holds(q, k)
      /\ add \subseteq new
  BY DEF Hand, Rows, HandsInv, HeldRows, HeldStatus, Opened
<1>2. \A q \in Procs, k \in Keys :
        Holds(q, k)' => \/ Holds(q, k) /\ ~(q = p /\ k \in drop) /\ k \notin add
                        \/ q = p /\ k \in add
  BY <1>1 DEF Hand, Moves, Holds, Queued
<1>3. HandsApart'
  BY DEF Hand, Moves, HandsInv, HandsApart, Apart, Queued, Working, Plain
<1>4. OneHolder'
  BY <1>1, <1>2 DEF HandsInv, OneHolder
<1>5. ASSUME NEW q \in Procs, NEW k \in Keys, Holds(q, k)'
      PROVE  runs'[k].status \in HeldStatus /\ ~runs'[k].slurm
  <2>1. CASE q = p /\ k \in add
    BY <1>1, <2>1 DEF Hand, Rows, Opened, HeldStatus
  <2>2. CASE Holds(q, k) /\ ~(q = p /\ k \in drop) /\ k \notin add
    <3>1. k \notin drop
      BY <2>2 DEF Hand, Rows, HandsInv, OneHolder
    <3>2. k \notin new  BY <1>1, <2>2
    <3>3. runs'[k] = runs[k]  BY <3>1, <3>2 DEF Hand, Rows
    <3> QED  BY <2>2, <3>3 DEF HandsInv, HeldRows
  <2> QED  BY <1>2, <1>5, <2>1, <2>2
<1>6. HeldRows'  BY <1>5 DEF HeldRows
<1>7. DownIsBare'
  BY <1>1, <1>2 DEF Hand, Rows, HandsInv, DownIsBare
<1>8. RowMoves
  <2> SUFFICES ASSUME NEW k \in Keys
               PROVE  \/ runs'[k] = runs[k]
                      \/ runs[k].status = "none" /\ ~runs'[k].slurm
                      \/ /\ runs[k].status \in HeldStatus /\ ~runs[k].slurm
                         /\ ~runs'[k].slurm \/ runs'[k].status = runs[k].status
    BY DEF RowMoves
  <2>1. CASE k \in new  BY <2>1 DEF Hand, Rows, Opened
  <2>2. CASE k \in drop
    <3>1. Holds(p, k) /\ Closed(k)  BY <2>2 DEF Hand, Rows
    <3>2. runs[k].status \in HeldStatus /\ ~runs[k].slurm  BY <3>1 DEF HandsInv, HeldRows
    <3> QED  BY <3>1, <3>2 DEF Closed
  <2>3. CASE k \notin new /\ k \notin drop  BY <2>3 DEF Hand, Rows
  <2> QED  BY <2>1, <2>2, <2>3
<1> QED  BY <1>3, <1>4, <1>6, <1>7, <1>8 DEF HandsInv

(* What a pass of the tick loop asks the queue to take.                    *)
DueKey(j) == TickKey(j, jobs[j].due)
TickRequests(order) == [i \in 1 .. Len(order) |-> TickRequest(order[i])]

LEMMA DueKeys ==
  ASSUME TypeOK, NEW p \in Procs, NEW j \in Fires(p)
  PROVE  /\ DueKey(j) \in Keys /\ DueKey(j).job = j /\ configs[p][j] # NoConfig
         /\ runs[DueKey(j)].status = "none"
         /\ TickRequest(j) \in Request /\ TickRequest(j).key = DueKey(j)
<1>1. j \in Jobs /\ jobs[j].due # NoDue /\ configs[p][j] # NoConfig  BY DEF Fires, GetDue
<1>2. jobs[j].due \in 0 .. MaxTime
  BY <1>1, SchedulerAssumption DEF Fires, GetDue, NoDue, Times, TypeOK, JobRow
<1>3. DueKey(j) \in Keys /\ DueKey(j).job = j  BY <1>1, <1>2, TickKeyType DEF TickKey, DueKey
<1>4. TickRequest(j) = [key |-> DueKey(j), depth |-> 0]  BY DEF TickRequest, DueKey
<1>5. TickRequest(j) \in Request /\ TickRequest(j).key = DueKey(j)
  BY <1>3, <1>4, SchedulerAssumption DEF Request
<1>6. runs[DueKey(j)].status = "none"  BY DEF Fires, DueKey
<1> QED  BY <1>1, <1>3, <1>5, <1>6

LEMMA TickQueue ==
  ASSUME TypeOK, NEW p \in Procs, NEW order \in SetToSeqs(Fires(p)), NEW rs,
         rs = TickRequests(order)
  PROVE  /\ rs \in Seq(Request) /\ Plain(rs) /\ KeysOf(rs) = {DueKey(j) : j \in Fires(p)}
         /\ {r.key : r \in Range(Fits(p, rs))} = KeysOf(Fits(p, rs))
<1>1. IsFiniteSet(Fires(p))
  <2>1. Fires(p) \in SUBSET Jobs  BY DEF Fires, GetDue
  <2> QED  BY <2>1, SchedulerAssumption, FS_Subset
<1>2. /\ order \in Seq(Fires(p))
      /\ \A h, i \in 1 .. Len(order) : order[h] = order[i] => h = i
      /\ \A j \in Fires(p) : \E i \in 1 .. Len(order) : order[i] = j
  BY <1>1, OrderType, OrderAll
<1>3. \A i \in 1 .. Len(order) : order[i] \in Fires(p)  BY <1>2
<1>4. /\ rs \in Seq(Request) /\ Len(rs) = Len(order)
      /\ \A i \in 1 .. Len(order) : rs[i].key = DueKey(order[i])
  BY <1>2, <1>3, DueKeys DEF TickRequests
<1>5. \A i, j \in Fires(p) : DueKey(i) = DueKey(j) => i = j
  BY DueKeys
<1>6. Plain(rs)  BY <1>2, <1>3, <1>4, <1>5 DEF Plain
<1>7. KeysOf(rs) = {DueKey(j) : j \in Fires(p)}  BY <1>2, <1>3, <1>4 DEF KeysOf
<1>8. {r.key : r \in Range(Fits(p, rs))} = KeysOf(Fits(p, rs))
  <2> DEFINE fits == Fits(p, rs)
  <2>1. fits \in Seq(Request)  BY <1>4, FitsType
  <2> HIDE DEF fits
  <2>2. DOMAIN fits = 1 .. Len(fits)  BY <2>1
  <2>3. {r.key : r \in Range(fits)} = {fits[i].key : i \in DOMAIN fits}  BY DEF Range
  <2> QED  BY <2>2, <2>3 DEF KeysOf, fits
<1> QED  BY <1>4, <1>6, <1>7, <1>8

(* The tick loop: every row it opens is put in the queue or failed.        *)
LEMMA TickHand ==
  ASSUME WorkInv, NEW p \in Procs, Tick(p)
  PROVE  \E new, add : Hand(p, {}, new, add) /\ \A k \in new \ add : runs'[k].status = "failure"
<1> DEFINE new == {DueKey(j) : j \in Fires(p)}
<1>0. PICK order \in SetToSeqs(Fires(p)) :
        /\ Enqueue(p, TickRequests(order))
        /\ runs' = [k \in Keys |->
              IF k \in new
              THEN TickedRow(p, k, {r.key : r \in Range(Fits(p, TickRequests(order)))})
              ELSE runs[k]]
  BY DEF Tick, TickRequests, DueKey
<1> DEFINE rs == TickRequests(order)
<1>1. /\ rs = TickRequests(order) /\ Enqueue(p, rs)
      /\ runs' = [k \in Keys |->
            IF k \in new THEN TickedRow(p, k, {r.key : r \in Range(Fits(p, rs))}) ELSE runs[k]]
  BY <1>0
<1> HIDE DEF rs
<1> DEFINE add == KeysOf(Fits(p, rs))
<1>2. TypeOK /\ Apart(p)  BY DEF WorkInv, HandsInv, HandsApart
<1>3. /\ rs \in Seq(Request) /\ Plain(rs) /\ KeysOf(rs) = new
      /\ {r.key : r \in Range(Fits(p, rs))} = add
  BY <1>1, <1>2, TickQueue
<1>4. new \subseteq Keys /\ \A k \in new : /\ runs[k].status = "none"
                                           /\ configs[p][k.job] # NoConfig
  BY <1>2, DueKeys
<1>5. add \subseteq new  BY <1>2, <1>3, FitsPlain
<1> HIDE DEF new
<1>6. Moves(p, {}, add)
  <2>1. \A k \in KeysOf(rs) : k \in Keys /\ ~Holds(p, k)
    BY <1>3, <1>4 DEF WorkInv, HandsInv, HeldRows, HeldStatus
  <2>2. UNCHANGED tasks /\ Enqueue(p, rs)  BY <1>1 DEF Tick
  <2>3. \A q \in Procs, k \in Keys : Working(q, k)' <=> Working(q, k) /\ ~(q = p /\ k \in {})
    BY <2>2 DEF Working
  <2> QED  BY <1>2, <1>3, <2>1, <2>2, <2>3, MoveIn
<1> HIDE DEF add
<1>7. \A k \in new : /\ Opened(p, k)
                     /\ runs'[k].status = IF k \in add THEN "running" ELSE "failure"
  <2> SUFFICES ASSUME NEW k \in new
               PROVE  /\ runs'[k].kind = configs[p][k.job].kind /\ ~runs'[k].slurm
                      /\ runs'[k].status = IF k \in add THEN "running" ELSE "failure"
    BY <1>4 DEF Opened
  <2>1. runs'[k] = TickedRow(p, k, add)  BY <1>1, <1>3, <1>4
  <2> QED  BY <2>1 DEF TickedRow, NewRun
<1>8. Rows(p, {}, new, add)
  <2>1. \A k \in Keys \ new : runs'[k] = runs[k]  BY <1>1
  <2>2. UNCHANGED mode /\ mode[p] # "down"  BY DEF Tick, life
  <2> QED  BY <1>4, <1>5, <1>7, <2>1, <2>2 DEF Rows
<1> WITNESS new, add
<1> QED  BY <1>6, <1>7, <1>8 DEF Hand

(* A manual run: its row stays open even if the queue has no room for it.  *)
LEMMA RunHand ==
  ASSUME WorkInv, NEW p \in Procs, NEW j \in Attended, RunNow(p, j)
  PROVE  \E new, add : /\ Hand(p, {}, new, add)
                       /\ Len(queue[p]) < QueueCap /\ Len(queue'[p]) < QueueCap => add = new
<1> DEFINE k == ManualKey(j, now)
           rs == <<[key |-> k, depth |-> 0]>>
           add == KeysOf(Fits(p, rs))
<1>1. k \in Keys /\ k.job = j
  <2>1. now \in 0 .. MaxTime  BY DEF WorkInv, TypeOK
  <2> QED  BY <2>1, ManualKeyType DEF ManualKey
<1>2. runs[k].status = "none" /\ configs[p][j] # NoConfig /\ mode[p] # "down"  BY DEF RunNow
<1>3. runs' = [runs EXCEPT ![k] = NewRun(configs[p][j].kind)] /\ Enqueue(p, rs)
  BY DEF RunNow
<1> HIDE DEF k
<1>4. rs \in Seq(Request) /\ Plain(rs) /\ KeysOf(rs) = {k}
  <2>1. [key |-> k, depth |-> 0] \in Request  BY <1>1, SchedulerAssumption DEF Request
  <2> QED  BY <2>1 DEF Plain, KeysOf
<1> HIDE DEF rs
<1>5. /\ add \subseteq {k}
      /\ Len(queue[p]) < QueueCap /\ Len(queue'[p]) < QueueCap => add = {k}
  BY <1>3, <1>4, FitsPlain DEF WorkInv
<1>6. Moves(p, {}, add)
  <2>1. \A i \in KeysOf(rs) : i \in Keys /\ ~Holds(p, i)
    BY <1>1, <1>2, <1>4 DEF WorkInv, HandsInv, HeldRows, HeldStatus
  <2>2. UNCHANGED tasks  BY DEF RunNow
  <2>3. Apart(p) /\ TypeOK  BY DEF WorkInv, HandsInv, HandsApart
  <2>4. \A q \in Procs, i \in Keys : Working(q, i)' <=> Working(q, i) /\ ~(q = p /\ i \in {})
    BY <2>2 DEF Working
  <2> QED  BY <1>3, <1>4, <2>1, <2>3, <2>4, MoveIn
<1> HIDE DEF add
<1>7. Opened(p, k) /\ runs'[k].status = "running"
  <2>1. runs'[k] = NewRun(configs[p][j].kind)  BY <1>1, <1>3 DEF WorkInv, TypeOK
  <2> QED  BY <1>1, <1>2, <2>1 DEF Opened, NewRun
<1>8. Rows(p, {}, {k}, add)
  <2>1. \A i \in Keys \ {k} : runs'[i] = runs[i]  BY <1>3 DEF WorkInv, TypeOK
  <2>2. UNCHANGED mode  BY DEF RunNow, life
  <2> QED  BY <1>1, <1>2, <1>5, <1>7, <2>1, <2>2 DEF Rows
<1> WITNESS {k}, add
<1> QED  BY <1>5, <1>6, <1>8 DEF Hand

(* The end of a task: its row is final and the chained rows are open.      *)
LEMMA FinishHand ==
  ASSUME WorkInv, NEW p \in Procs, NEW k \in Keys, NEW st \in Outcomes, Finish(p, k, st),
         tasks[p][k].pc \notin {"none", "new"}
  PROVE  \E new, add :
           /\ Hand(p, {k}, new, add) /\ runs'[k].status = st
           /\ new # {} => MaxChainDepth > 0
           /\ Len(queue[p]) < QueueCap /\ Len(queue'[p]) < QueueCap => add = new
<1> DEFINE depth == tasks[p][k].depth
           reqs(order) == [i \in 1 .. Len(order) |-> [key |-> order[i], depth |-> depth + 1]]
<1>1. PICK fired \in SUBSET tasks[p][k].cfg.chain :
        /\ runs' = AfterFinish(p, k, st, Chained(p, k, fired))
        /\ \E order \in SetToSeqs(Chained(p, k, fired)) : Enqueue(p, reqs(order))
  BY DEF Finish
<1> DEFINE new == Chained(p, k, fired)
<1>2. Holds(p, k) /\ runs[k].status # "none" /\ mode[p] # "down"
  BY DEF Holds, Working, WorkInv, HandsInv, HeldRows, HeldStatus, DownIsBare
<1>3. ASSUME NEW i \in new
      PROVE  /\ i \in Keys /\ runs[i].status = "none" /\ configs[p][i.job] # NoConfig
             /\ depth < MaxChainDepth /\ MaxChainDepth > 0
  <2>1. tasks[p][k].cfg.chain \in SUBSET Jobs
    <3>1. tasks[p][k] \in Task  BY DEF WorkInv, TypeOK
    <3> QED  BY <3>1 DEF Task, Configs
  <2>2. PICK j \in fired : /\ i = ChainKey(k.job, j, now) /\ runs[i].status = "none"
                           /\ configs[p][j] # NoConfig /\ depth < MaxChainDepth
    BY DEF Chained
  <2>3. j \in Jobs  BY <2>1, <2>2
  <2>4. depth \in 0 .. MaxChainDepth /\ MaxChainDepth > 0
    <3>1. depth \in 0 .. MaxChainDepth  BY DEF WorkInv, TypeOK, Task
    <3> QED  BY <2>2, <3>1, SchedulerAssumption
  <2>5. i \in Keys /\ i.job = j
    <3>1. now \in 0 .. MaxTime /\ k.job \in Jobs  BY DEF WorkInv, TypeOK, Keys
    <3> QED  BY <2>2, <2>3, <2>4, <3>1, ChainKeyType DEF ChainKey
  <2> QED  BY <2>2, <2>4, <2>5
<1>4. IsFiniteSet(new)
  <2>1. new \in SUBSET Keys  BY <1>3
  <2> HIDE DEF new
  <2> QED  BY <2>1, KeysFinite, FS_Subset
<1>5. PICK order \in SetToSeqs(new) : Enqueue(p, reqs(order))  BY <1>1
<1> HIDE DEF new
<1> DEFINE rs == reqs(order)
<1>6. /\ order \in Seq(new) /\ \A h, i \in 1 .. Len(order) : order[h] = order[i] => h = i
      /\ \A x \in new : \E i \in 1 .. Len(order) : order[i] = x
  BY <1>4, <1>5, OrderType, OrderAll
<1>7. rs \in Seq(Request) /\ Plain(rs) /\ KeysOf(rs) = new
  <2>1. ASSUME NEW i \in 1 .. Len(order)
        PROVE  [key |-> order[i], depth |-> depth + 1] \in Request
    <3>1. order[i] \in Keys /\ depth < MaxChainDepth  BY <1>3, <1>6
    <3>2. depth + 1 \in 0 .. MaxChainDepth
      BY <3>1, SchedulerAssumption DEF WorkInv, TypeOK, Task
    <3> QED  BY <3>1, <3>2 DEF Request
  <2>2. rs \in Seq(Request)  BY <1>6, <2>1
  <2>3. Len(rs) = Len(order) /\ \A i \in 1 .. Len(order) : rs[i].key = order[i]
    BY <1>6
  <2> HIDE DEF rs
  <2>4. Plain(rs)  BY <1>6, <2>3 DEF Plain
  <2>5. KeysOf(rs) = new
    <3>1. \A i \in 1 .. Len(order) : order[i] \in new  BY <1>6
    <3> QED  BY <1>6, <2>3, <3>1 DEF KeysOf
  <2> QED  BY <2>2, <2>4, <2>5
<1> DEFINE add == KeysOf(Fits(p, rs))
<1>8. Enqueue(p, rs)  BY <1>5
<1> HIDE DEF rs
<1>9. /\ add \subseteq new
      /\ Len(queue[p]) < QueueCap /\ Len(queue'[p]) < QueueCap => add = new
  BY <1>7, <1>8, FitsPlain DEF WorkInv
<1>10. Moves(p, {k}, add)
  <2>1. \A i \in KeysOf(rs) : i \in Keys /\ ~Holds(p, i)
    BY <1>3, <1>7 DEF WorkInv, HandsInv, HeldRows, HeldStatus
  <2>2. tasks' = [tasks EXCEPT ![p][k] = NoTask]  BY DEF Finish
  <2>3. Apart(p) /\ TypeOK  BY DEF WorkInv, HandsInv, HandsApart
  <2>4. \A q \in Procs, i \in Keys : Working(q, i)' <=> Working(q, i) /\ ~(q = p /\ i \in {k})
    BY <2>2, <2>3 DEF Working, NoTask, TypeOK
  <2>5. \A i \in {k} : Working(p, i)  BY DEF Working
  <2> QED  BY <1>7, <1>8, <2>1, <2>3, <2>4, <2>5, MoveIn
<1> HIDE DEF add
<1>11. runs'[k] = [runs[k] EXCEPT !.status = st]
  BY <1>1 DEF AfterFinish
<1>12. runs[k] \in RunRow  BY DEF WorkInv, TypeOK
<1>13. Closed(k) /\ runs'[k].status = st  BY <1>11, <1>12 DEF Closed, RunRow
<1>14. ASSUME NEW i \in new PROVE Opened(p, i) /\ runs'[i].status = "running"
  <2>1. i # k  BY <1>2, <1>3
  <2>2. runs'[i] = NewRun(configs[p][i.job].kind)
    BY <1>1, <1>3, <2>1 DEF AfterFinish, new
  <2> QED  BY <1>3, <2>2 DEF Opened, NewRun
<1>15. Rows(p, {k}, new, add)
  <2>1. \A i \in Keys \ (new \cup {k}) : runs'[i] = runs[i]
    BY <1>1 DEF AfterFinish, new
  <2>2. UNCHANGED mode  BY DEF Finish, life
  <2> QED  BY <1>2, <1>3, <1>9, <1>13, <1>14, <2>1, <2>2 DEF Rows
<1> WITNESS new, add
<1> QED  BY <1>3, <1>9, <1>10, <1>13, <1>15 DEF Hand

LEMMA DispatchHand ==
  ASSUME WorkInv, NEW p \in Procs, Dispatch(p)
  PROVE  Hand(p, {}, {}, {})
<1>1. Apart(p) /\ TypeOK  BY DEF WorkInv, HandsInv, HandsApart
<1>2. Moves(p, {}, {})  BY <1>1, MoveHead
<1>3. Rows(p, {}, {}, {})  BY DEF Dispatch, Rows, life, db
<1> QED  BY <1>2, <1>3 DEF Hand

(* A task that starts keeps its run in hand if its job is still listed.    *)
LEMMA StartHand ==
  ASSUME WorkInv, NEW p \in Procs, NEW k \in Keys, TaskStart(p, k)
  PROVE  \E drop : /\ Hand(p, drop, {}, {}) /\ UNCHANGED runs
                   /\ configs[p][k.job] # NoConfig => drop = {}
<1>1. /\ Apart(p) /\ UNCHANGED queue /\ tasks \in [Procs -> [Keys -> Task]]
      /\ Working(p, k) /\ UNCHANGED runs /\ UNCHANGED mode
  BY DEF WorkInv, HandsInv, HandsApart, TaskStart, TypeOK, Working, life, db
<1>2. CASE configs[p][k.job] = NoConfig
  <2>1. Moves(p, {k}, {})
    <3>1. tasks' = [tasks EXCEPT ![p][k] = NoTask]  BY <1>2 DEF TaskStart
    <3> QED  BY <1>1, <3>1, MoveOut
  <2>2. Rows(p, {k}, {}, {})  BY <1>1 DEF Rows, Closed, Holds
  <2> WITNESS {k}
  <2> QED  BY <1>1, <1>2, <2>1, <2>2 DEF Hand
<1>3. CASE configs[p][k.job] # NoConfig
  <2>1. PICK t : tasks' = [tasks EXCEPT ![p][k] = t] /\ t.pc # "none"
    <3> DEFINE cfg == configs[p][k.job]
               t == [pc |-> FirstPc(cfg.kind), cfg |-> cfg, depth |-> tasks[p][k].depth]
    <3>1. tasks' = [tasks EXCEPT ![p][k] = t]  BY <1>3 DEF TaskStart
    <3>2. t.pc # "none"  BY DEF FirstPc
    <3> QED  BY <3>1, <3>2
  <2>2. \A q \in Procs, i \in Keys : Working(q, i)' <=> Working(q, i)
    BY <1>1, <2>1 DEF Working
  <2>3. Moves(p, {}, {})  BY <1>1, <2>2, MoveNothing
  <2>4. Rows(p, {}, {}, {})  BY <1>1 DEF Rows
  <2> WITNESS {}
  <2> QED  BY <1>1, <2>3, <2>4 DEF Hand
<1> QED  BY <1>2, <1>3

LEMMA AcquireHand ==
  ASSUME WorkInv, NEW p \in Procs, NEW k \in Keys, Acquire(p, k)
  PROVE  Hand(p, {}, {}, {}) /\ UNCHANGED runs
<1>1. /\ Apart(p) /\ UNCHANGED queue /\ tasks \in [Procs -> [Keys -> Task]]
      /\ Working(p, k) /\ UNCHANGED runs /\ UNCHANGED mode
  BY DEF WorkInv, HandsInv, HandsApart, Acquire, TypeOK, Working, life, db
<1>2. \A q \in Procs, i \in Keys : Working(q, i)' <=> Working(q, i)
  BY <1>1 DEF Acquire, Working
<1>3. Moves(p, {}, {})  BY <1>1, <1>2, MoveNothing
<1>4. Rows(p, {}, {}, {})  BY <1>1 DEF Rows
<1> QED  BY <1>1, <1>3, <1>4 DEF Hand

(* A run whose SLURM job id is recorded leaves the hands of its process.   *)
LEMMA SbatchHand ==
  ASSUME WorkInv, NEW p \in Procs, NEW k \in Keys, SbatchReturns(p, k)
  PROVE  Hand(p, {k}, {}, {})
<1>1. /\ Apart(p) /\ UNCHANGED queue /\ tasks \in [Procs -> [Keys -> Task]]
      /\ Working(p, k) /\ runs[k] \in RunRow /\ UNCHANGED mode
  BY DEF WorkInv, HandsInv, HandsApart, SbatchReturns, TypeOK, Working, life
<1>2. Moves(p, {k}, {})
  <2>1. tasks' = [tasks EXCEPT ![p][k] = NoTask]  BY DEF SbatchReturns
  <2> QED  BY <1>1, <2>1, MoveOut
<1>3. Rows(p, {k}, {}, {})
  <2>1. /\ runs'[k] = [runs[k] EXCEPT !.slurm = TRUE]
        /\ \A i \in Keys \ {k} : runs'[i] = runs[i]
    BY DEF SbatchReturns, WorkInv, TypeOK
  <2>2. Closed(k)  BY <1>1, <2>1 DEF Closed, RunRow
  <2> QED  BY <1>1, <2>1, <2>2 DEF Rows, Holds
<1> QED  BY <1>2, <1>3 DEF Hand

-----------------------------------------------------------------------------
(* The invariant is inductive, and a settled row keeps its status.         *)

Settled == Outcomes \cup (IF Alone THEN {"abandoned"} ELSE {})
SettledStay == \A k \in Keys : runs[k].status \in Settled => runs'[k].status = runs[k].status

LEMMA MovesKeepRows ==
  ASSUME WorkInv, RowMoves
  PROVE  SettledStay /\ RunningSlurm \subseteq RunningSlurm'
<1>1. SettledStay
  <2>1. \A k \in Keys : runs[k].status \in Settled => runs[k].status \notin HeldStatus \cup {"none"}
    BY DEF Settled, HeldStatus, Outcomes
  <2>2. \A k \in Stale : runs[k].status \notin Settled
    BY DEF Stale, Settled, Outcomes
  <2> QED  BY <2>1, <2>2 DEF RowMoves, SettledStay
<1>2. ASSUME NEW k \in RunningSlurm PROVE runs'[k] = runs[k]
  <2>1. k \in Keys /\ runs[k].slurm /\ runs[k].status # "none" /\ k \notin Stale
    BY DEF RunningSlurm, Stale, SubprocessKinds
  <2> QED  BY <2>1 DEF RowMoves
<1> QED  BY <1>1, <1>2 DEF RunningSlurm

LEMMA AskedFollow ==
  ASSUME WorkInv, RowMoves, asked' = asked, UNCHANGED mode
  PROVE  AskedRows'
BY MovesKeepRows DEF WorkInv, AskedRows

(* What every step but an answer of sacct does.                            *)
Keeps == WorkInv' /\ RowMoves

LEMMA HandKeeps ==
  ASSUME WorkInv, TypeOK', UNCHANGED <<lock, asked>>,
         NEW p \in Procs, NEW drop, NEW new, NEW add, Hand(p, drop, new, add)
  PROVE  Keeps
<1>1. HandsInv  BY DEF WorkInv
<1>2. HandsInv' /\ RowMoves  BY ONLY <1>1, HandSound, p \in Procs, Hand(p, drop, new, add)
<1>3. UNCHANGED mode  BY DEF Hand, Rows
<1>4. AskedRows'  BY <1>2, <1>3, AskedFollow
<1>5. LockIsActive'  BY <1>3 DEF WorkInv, LockIsActive
<1> QED  BY <1>2, <1>4, <1>5 DEF Keeps, WorkInv

LEMMA QueueKeeps ==
  ASSUME WorkInv, TypeOK', NEW p \in Procs,
         Tick(p) \/ Dispatch(p) \/ \E j \in Attended : RunNow(p, j)
  PROVE  Keeps
<1>1. UNCHANGED <<lock, asked>>  BY DEF Tick, Dispatch, RunNow, life
<1>2. \E drop, new, add : Hand(p, drop, new, add)  BY TickHand, DispatchHand, RunHand
<1> QED  BY <1>1, <1>2, HandKeeps

LEMMA TaskKeeps ==
  ASSUME WorkInv, TypeOK', NEW p \in Procs, NEW k \in Keys, TaskStep(p, k)
  PROVE  Keeps
<1>1. UNCHANGED <<lock, asked>>
  BY DEF TaskStep, TaskStart, Acquire, ExecEnds, UnknownKind, SbatchReturns, SbatchFails,
         Finish, life
<1>2. CASE TaskStart(p, k)
  BY <1>1, <1>2, StartHand, HandKeeps
<1>3. CASE Acquire(p, k) \/ SbatchReturns(p, k)
  BY <1>1, <1>3, AcquireHand, SbatchHand, HandKeeps
<1>4. ASSUME NEW st \in Outcomes, Finish(p, k, st), tasks[p][k].pc \notin {"none", "new"}
      PROVE  Keeps
  BY <1>1, <1>4, FinishHand, HandKeeps
<1>5. CASE \/ \E st \in Outcomes : ExecEnds(p, k, st)
           \/ UnknownKind(p, k) \/ SbatchFails(p, k)
  BY <1>4, <1>5 DEF ExecEnds, UnknownKind, SbatchFails, Outcomes
<1> QED  BY <1>2, <1>3, <1>5 DEF TaskStep

LEMMA StartKeeps ==
  ASSUME WorkInv, TypeOK', NEW p \in Procs, StartWins(p)
  PROVE  Keeps
<1>1. /\ UNCHANGED <<queue, tasks, asked>> /\ mode[p] = "down" /\ lock = NoProc /\ lock' = p
      /\ mode' = [mode EXCEPT ![p] = "active"]
      /\ \A k \in Keys : runs'[k] = AfterRestart(k)
  BY DEF StartWins
<1>2. \A q \in Procs : mode'[q] = IF q = p THEN "active" ELSE mode[q]
  BY <1>1 DEF WorkInv, TypeOK
<1>3. \A k \in Keys : \/ runs'[k] = runs[k]
                      \/ k \in Stale /\ runs'[k] = [runs[k] EXCEPT !.status = "abandoned"]
  BY <1>1 DEF AfterRestart
<1>4. RowMoves  BY <1>3 DEF RowMoves
<1>5. \A q \in Procs : Apart(q)' <=> Apart(q)
  BY <1>1 DEF Apart, Plain, Queued, Working
<1>6. \A q \in Procs, k \in Keys : Holds(q, k)' <=> Holds(q, k)
  BY <1>1 DEF Holds, Queued, Working
<1>7. HeldRows'
  <2> SUFFICES ASSUME NEW q \in Procs, NEW k \in Keys, Holds(q, k)'
               PROVE  runs'[k].status \in HeldStatus /\ ~runs'[k].slurm
    BY DEF HeldRows
  <2>1. Holds(q, k)  BY <1>6
  <2>2. runs[k].status \in HeldStatus /\ ~runs[k].slurm /\ runs[k] \in RunRow
    BY <2>1 DEF WorkInv, HandsInv, HeldRows, TypeOK
  <2>3. ~Alone
    <3>1. mode[q] # "down"  BY <2>1 DEF WorkInv, HandsInv, DownIsBare
    <3> QED  BY <1>1, <3>1 DEF Alone
  <2>4. CASE runs'[k] = runs[k]  BY <2>2, <2>4
  <2>5. CASE runs'[k] = [runs[k] EXCEPT !.status = "abandoned"]
    <3>1. runs'[k].status = "abandoned" /\ runs'[k].slurm = runs[k].slurm
      BY <2>2, <2>5 DEF RunRow
    <3> QED  BY <2>2, <2>3, <3>1 DEF HeldStatus
  <2> QED  BY <1>3, <2>4, <2>5
<1>8. HandsApart'  BY <1>5 DEF WorkInv, HandsInv, HandsApart
<1>9. OneHolder'   BY <1>6 DEF WorkInv, HandsInv, OneHolder
<1>10. DownIsBare' BY <1>2, <1>6 DEF WorkInv, HandsInv, DownIsBare
<1>11. AskedRows'
  <2>1. RunningSlurm \subseteq RunningSlurm'  BY <1>4, MovesKeepRows
  <2> QED  BY <1>1, <1>2, <2>1 DEF WorkInv, AskedRows
<1>12. LockIsActive'
  BY <1>1, <1>2, SchedulerAssumption DEF WorkInv, LockIsActive
<1> QED  BY <1>4, <1>7, <1>8, <1>9, <1>10, <1>11, <1>12 DEF Keeps, WorkInv, HandsInv

LEMMA LifeKeeps ==
  ASSUME WorkInv, TypeOK', NEW p \in Procs, StartLoses(p) \/ Stop(p) \/ Die(p) \/ ReloadYaml(p)
  PROVE  Keeps
<1>1. UNCHANGED runs
  BY DEF StartLoses, Stop, Die, ReloadYaml, db
<1>2. RowMoves /\ RunningSlurm' = RunningSlurm  BY <1>1 DEF RowMoves, RunningSlurm
<1>3. /\ \A q \in Procs : Apart(q)'
      /\ \A q \in Procs, k \in Keys : Holds(q, k)' => Holds(q, k) /\ ~(q = p /\ Die(p))
  <2>0. \A q \in Procs : Apart(q)  BY DEF WorkInv, HandsInv, HandsApart
  <2>1. CASE UNCHANGED <<queue, tasks>> /\ ~Die(p)
    BY <2>0, <2>1 DEF Apart, Plain, Holds, Queued, Working
  <2>2. CASE Die(p)
    <3>1. Moves(p, Keys, {})  BY <2>2, MoveAll DEF WorkInv
    <3> QED  BY <2>0, <3>1 DEF Moves, Apart, Plain, Holds, Queued
  <2> QED  BY <2>1, <2>2 DEF StartLoses, Stop, ReloadYaml, mem
<1>4. HandsApart'  BY <1>3 DEF HandsApart
<1>5. OneHolder'   BY <1>3 DEF WorkInv, HandsInv, OneHolder
<1>6. HeldRows'    BY <1>1, <1>3 DEF WorkInv, HandsInv, HeldRows
<1>7. DownIsBare' /\ AskedRows' /\ LockIsActive'
  <2>0. /\ \A q \in Procs, k \in Keys : mode[q] = "down" => ~Holds(q, k)
        /\ \A q \in Procs : asked[q] \subseteq RunningSlurm /\ (asked[q] # {} => mode[q] = "active")
        /\ \A q \in Procs : mode[q] = "active" <=> lock = q
        /\ mode \in [Procs -> {"down", "active", "loser", "stopped"}]
        /\ asked \in [Procs -> SUBSET Keys]
    BY DEF WorkInv, HandsInv, DownIsBare, AskedRows, LockIsActive, TypeOK
  <2> USE DEF DownIsBare, AskedRows, LockIsActive
  <2>1. CASE StartLoses(p)
    <3>1. /\ \A q \in Procs : mode'[q] = IF q = p THEN "loser" ELSE mode[q]
          /\ mode[p] = "down" /\ UNCHANGED <<asked, lock>>
      BY <2>0, <2>1 DEF StartLoses, mem
    <3> QED  BY <1>2, <1>3, <2>0, <3>1
  <2>2. CASE Stop(p)
    <3>1. /\ \A q \in Procs : mode'[q] = IF q = p THEN "stopped" ELSE mode[q]
          /\ \A q \in Procs : asked'[q] = IF q = p THEN {} ELSE asked[q]
          /\ lock' = IF lock = p THEN NoProc ELSE lock
      BY <2>0, <2>2 DEF Stop
    <3> QED  BY <1>2, <1>3, <2>0, <3>1, SchedulerAssumption
  <2>3. CASE Die(p)
    <3>1. /\ \A q \in Procs : mode'[q] = IF q = p THEN "down" ELSE mode[q]
          /\ \A q \in Procs : asked'[q] = IF q = p THEN {} ELSE asked[q]
          /\ lock' = IF lock = p THEN NoProc ELSE lock
      BY <2>0, <2>3 DEF Die
    <3> QED  BY <1>2, <1>3, <2>0, <2>3, <3>1, SchedulerAssumption
  <2>4. CASE ReloadYaml(p)
    <3>1. UNCHANGED <<mode, asked, lock>>  BY <2>4 DEF ReloadYaml, life
    <3> QED  BY <1>2, <1>3, <2>0, <3>1
  <2> QED  BY <2>1, <2>2, <2>3, <2>4
<1> QED  BY <1>2, <1>4, <1>5, <1>6, <1>7 DEF Keeps, WorkInv, HandsInv

(* Steps that touch neither hands nor rows nor the life of a process.      *)
LEMMA AsideKeeps ==
  ASSUME WorkInv, TypeOK', UNCHANGED <<queue, tasks, runs, mode, lock>>,
         \A q \in Procs : \/ asked'[q] \in {{}, asked[q]}
                          \/ asked'[q] = RunningSlurm /\ mode[q] = "active"
  PROVE  Keeps
<1>1. RowMoves /\ RunningSlurm' = RunningSlurm  BY DEF RowMoves, RunningSlurm
<1>2. HandsInv'
  BY DEF WorkInv, HandsInv, HandsApart, OneHolder, HeldRows, DownIsBare, Apart, Plain, Holds,
         Queued, Working
<1>3. AskedRows'  BY <1>1 DEF WorkInv, AskedRows
<1>4. LockIsActive'  BY DEF WorkInv, LockIsActive
<1> QED  BY <1>1, <1>2, <1>3, <1>4 DEF Keeps, WorkInv

(* An answer of sacct ends rows that nobody has in hand, with the verdict. *)
LEMMA SacctSound ==
  ASSUME WorkInv, TypeOK', NEW p \in Procs, SacctAnswers(p)
  PROVE  WorkInv' /\ SettledStay /\ (SlurmVerdict => SlurmVerdict')
<1> DEFINE ended == {k \in asked[p] : cluster[k] \in {"COMPLETED", "FAILED"}}
<1>1. /\ UNCHANGED <<queue, tasks, mode, lock, cluster>> /\ asked[p] # {}
      /\ \A q \in Procs : asked'[q] = IF q = p THEN {} ELSE asked[q]
      /\ \A k \in Keys : runs'[k] = IF k \in ended THEN [runs[k] EXCEPT !.status = Verdict(k)]
                                    ELSE runs[k]
  BY DEF SacctAnswers, life, ext, WorkInv, TypeOK
<1>2. \A k \in ended : /\ k \in RunningSlurm /\ cluster[k] \in {"COMPLETED", "FAILED"}
                       /\ runs[k].status = "running" /\ runs[k].slurm
  BY DEF WorkInv, AskedRows, RunningSlurm
<1> HIDE DEF ended
<1>3. \A q \in Procs, k \in Keys : /\ Apart(q)' <=> Apart(q)
                                   /\ Holds(q, k)' <=> Holds(q, k)
  BY <1>1 DEF Apart, Plain, Holds, Queued, Working
<1>4. \A q \in Procs, k \in Keys : Holds(q, k) => k \notin ended
  BY <1>2 DEF WorkInv, HandsInv, HeldRows
<1>5. HandsApart'
  <2>1. \A q \in Procs : Apart(q)' <=> Apart(q)  BY <1>1 DEF Apart, Plain, Queued, Working
  <2> QED  BY <2>1 DEF WorkInv, HandsInv, HandsApart
<1>6. OneHolder' /\ DownIsBare'
  BY <1>1, <1>3 DEF WorkInv, HandsInv, OneHolder, DownIsBare
<1>7. HeldRows'  BY <1>1, <1>3, <1>4 DEF WorkInv, HandsInv, HeldRows
<1>8. AskedRows'
  <2>1. \A q \in Procs : asked[q] # {} => q = p
    BY <1>1 DEF WorkInv, AskedRows, LockIsActive
  <2>2. \A q \in Procs : asked'[q] = {}  BY <1>1, <2>1
  <2> QED  BY <2>2 DEF AskedRows
<1>9. LockIsActive'  BY <1>1 DEF WorkInv, LockIsActive
<1>10. SettledStay
  BY <1>1, <1>2 DEF SettledStay, Settled, Outcomes
<1>11. ASSUME SlurmVerdict PROVE SlurmVerdict'
  <2> SUFFICES ASSUME NEW k \in Keys, runs'[k].slurm
               PROVE  /\ runs'[k].status = "success" => cluster[k] = "COMPLETED"
                      /\ runs'[k].status = "failure" => cluster[k] = "FAILED"
    BY <1>1 DEF SlurmVerdict
  <2>1. CASE k \in ended
    <3>1. runs'[k].status = Verdict(k)  BY <1>1, <2>1 DEF WorkInv, TypeOK, RunRow
    <3> QED  BY <1>2, <2>1, <3>1 DEF Verdict
  <2>2. CASE k \notin ended  BY <1>1, <1>11, <2>2 DEF SlurmVerdict
  <2> QED  BY <2>1, <2>2
<1> QED  BY <1>5, <1>6, <1>7, <1>8, <1>9, <1>10, <1>11 DEF WorkInv, HandsInv

LEMMA VerdictFollows ==
  ASSUME WorkInv, RowMoves, SlurmVerdict,
         \A k \in Keys : cluster[k] \in {"COMPLETED", "FAILED"} => cluster'[k] = cluster[k]
  PROVE  SlurmVerdict'
<1> SUFFICES ASSUME NEW k \in Keys, runs'[k].slurm
             PROVE  /\ runs'[k].status = "success" => cluster'[k] = "COMPLETED"
                    /\ runs'[k].status = "failure" => cluster'[k] = "FAILED"
  BY DEF SlurmVerdict
<1>1. CASE runs'[k] = runs[k]  BY <1>1 DEF SlurmVerdict
<1>2. CASE runs'[k] = [runs[k] EXCEPT !.status = "abandoned"]
  BY <1>2 DEF WorkInv, TypeOK, RunRow
<1>3. CASE runs[k].status \in HeldStatus /\ runs'[k].status = runs[k].status
  BY <1>3 DEF HeldStatus
<1> QED  BY <1>1, <1>2, <1>3 DEF RowMoves

LEMMA WorkStep ==
  ASSUME WorkInv, [Next]_vars
  PROVE  WorkInv' /\ SettledStay /\ (SlurmVerdict => SlurmVerdict')
<1>1. TypeOK'  BY TypeStep DEF WorkInv
<1>2. ASSUME Keeps,
             \A k \in Keys : cluster[k] \in {"COMPLETED", "FAILED"} => cluster'[k] = cluster[k]
      PROVE  WorkInv' /\ SettledStay /\ (SlurmVerdict => SlurmVerdict')
  BY <1>2, MovesKeepRows, VerdictFollows DEF Keeps
<1>3. CASE /\ UNCHANGED <<queue, tasks, runs, mode, lock, asked>>
           /\ \/ UNCHANGED cluster
              \/ \E k \in Keys, st \in SlurmFinal : SlurmEnds(k, st)
              \/ \E p \in Procs, k \in Keys : SlurmAccepts(p, k)
  <2>1. Keeps  BY <1>1, <1>3, AsideKeeps
  <2>2. CASE UNCHANGED cluster  BY <1>2, <2>1, <2>2
  <2>3. CASE \E k \in Keys, st \in SlurmFinal : SlurmEnds(k, st)
    <3>1. \A k \in Keys : cluster[k] \in {"COMPLETED", "FAILED"} => cluster'[k] = cluster[k]
      BY <2>3 DEF SlurmEnds, WorkInv, TypeOK
    <3> QED  BY <1>2, <2>1, <3>1
  <2>4. CASE \E p \in Procs, k \in Keys : SlurmAccepts(p, k)
    <3>1. \A k \in Keys : cluster[k] \in {"COMPLETED", "FAILED"} => cluster'[k] = cluster[k]
      BY <2>4 DEF SlurmAccepts, WorkInv, TypeOK
    <3> QED  BY <1>2, <2>1, <3>1
  <2> QED  BY <1>3, <2>2, <2>3, <2>4
<1>4. ASSUME NEW p \in Procs, StartWins(p) \/ StartLoses(p) \/ Stop(p) \/ Die(p) \/ ReloadYaml(p)
      PROVE  Keeps /\ UNCHANGED cluster
  <2>1. Keeps  BY <1>1, <1>4, StartKeeps, LifeKeeps
  <2>2. UNCHANGED cluster  BY <1>4 DEF StartWins, StartLoses, Stop, Die, ReloadYaml, ext
  <2> QED  BY <2>1, <2>2
<1>5. ASSUME NEW p \in Procs, Tick(p) \/ Dispatch(p) \/ \E j \in Attended : RunNow(p, j)
      PROVE  Keeps /\ UNCHANGED cluster
  <2>1. Keeps  BY <1>1, <1>5, QueueKeeps
  <2>2. UNCHANGED cluster  BY <1>5 DEF Tick, Dispatch, RunNow, ext
  <2> QED  BY <2>1, <2>2
<1>6. ASSUME NEW p \in Procs, NEW k \in Keys, TaskStep(p, k)
      PROVE  Keeps /\ UNCHANGED cluster
  <2>1. Keeps  BY <1>1, <1>6, TaskKeeps
  <2>2. UNCHANGED cluster
    BY <1>6 DEF TaskStep, TaskStart, Acquire, ExecEnds, UnknownKind, SbatchReturns, SbatchFails,
       ext
  <2> QED  BY <2>1, <2>2
<1>7. ASSUME NEW p \in Procs, AskSacct(p) \/ SacctFails(p)
      PROVE  Keeps /\ UNCHANGED cluster
  <2>1. /\ UNCHANGED <<queue, tasks, runs, mode, lock, cluster>>
        /\ \A q \in Procs : \/ asked'[q] \in {{}, asked[q]}
                            \/ asked'[q] = RunningSlurm /\ mode[q] = "active"
    BY <1>7 DEF AskSacct, SacctFails, life, db, ext, WorkInv, TypeOK
  <2> QED  BY <1>1, <2>1, AsideKeeps
<1>8. ASSUME NEW p \in Procs, SacctAnswers(p)
      PROVE  WorkInv' /\ SettledStay /\ (SlurmVerdict => SlurmVerdict')
  BY <1>1, <1>8, SacctSound
<1>9. ASSUME Keeps, UNCHANGED cluster
      PROVE  WorkInv' /\ SettledStay /\ (SlurmVerdict => SlurmVerdict')
  BY <1>2, <1>9
<1>10. CASE \/ Tock \/ \E y \in Yamls : EditYaml(y)
            \/ \E k \in Keys : OrphanExits(k)
            \/ \E k \in Keys, st \in SlurmFinal : SlurmEnds(k, st)
            \/ \E p \in Procs, k \in Keys : SlurmAccepts(p, k)
            \/ \E p \in Procs : \E j \in Attended : Pause(p, j) \/ Resume(p, j)
            \/ UNCHANGED vars
  BY <1>3, <1>10 DEF Tock, EditYaml, OrphanExits, SlurmEnds, SlurmAccepts, Pause, Resume,
     env, life, mem, db, ext, vars
<1> QED  BY <1>4, <1>5, <1>6, <1>7, <1>8, <1>9, <1>10 DEF Next, Manual

LEMMA WorkInit == Init => WorkInv /\ SlurmVerdict
<1> SUFFICES ASSUME Init PROVE WorkInv /\ SlurmVerdict  OBVIOUS
<1>1. \A p \in Procs : /\ queue[p] = <<>> /\ asked[p] = {} /\ mode[p] = "down"
                       /\ \A k \in Keys : tasks[p][k].pc = "none"
  BY DEF Init, NoTask
<1>2. lock = NoProc /\ \A k \in Keys : runs[k] = NoRun  BY DEF Init
<1>3. \A p \in Procs, k \in Keys : ~Queued(p, k) /\ ~Working(p, k)
  BY <1>1 DEF Queued, Working
<1>4. \A p \in Procs : Plain(queue[p])  BY <1>1 DEF Plain
<1>5. HandsInv
  BY <1>3, <1>4 DEF HandsInv, HandsApart, OneHolder, HeldRows, DownIsBare, Apart, Holds
<1>6. AskedRows /\ LockIsActive
  BY <1>1, <1>2, SchedulerAssumption DEF AskedRows, LockIsActive
<1>7. SlurmVerdict  BY <1>2 DEF SlurmVerdict, NoRun
<1> QED  BY <1>5, <1>6, <1>7, TypeInit DEF WorkInv

(* Requests and tasks have rows of their own, at most one process works on *)
(* a row, and only the process with the lock has loops, for any number of  *)
(* processes: the invariant behind the theorems that follow.               *)
THEOREM WorkInvariant == Spec => []WorkInv
<1>1. WorkInv /\ [Next]_vars => WorkInv'  BY WorkStep
<1> QED  BY <1>1, WorkInit, PTL DEF Spec

(* A request or a task of a single process works on an open row, which no  *)
(* other request or task works on, whatever restarts there are.            *)
THEOREM WorkStaysOpen == ASSUME Alone PROVE Spec => []WorkIsOpen
<1>1. WorkInv => WorkIsOpen
  BY DEF WorkInv, HandsInv, HandsApart, HeldRows, HeldStatus, Apart, Plain, Holds, WorkIsOpen
<1> QED  BY <1>1, WorkInvariant, PTL

(* With a single process a final status, an abandoned run's included, is   *)
(* never written over.                                                     *)
THEOREM FinalsStay == ASSUME Alone PROVE Spec => FinalIsFinal
<1>1. WorkInv /\ [Next]_vars
        => [\A k \in Keys : runs[k].status \in FinalStatus => runs'[k].status = runs[k].status]_vars
  BY WorkStep DEF SettledStay, Settled, FinalStatus
<1> QED  BY <1>1, WorkInvariant, PTL DEF Spec, FinalIsFinal

(* What a run came to, other than that it was abandoned, is not taken back. *)
OutcomesAreFinal ==
  [][\A k \in Keys : runs[k].status \in Outcomes => runs'[k].status = runs[k].status]_vars

(* With any number of processes, a run that succeeded or failed keeps that *)
(* outcome: only 'abandoned' is ever written over.                         *)
THEOREM OutcomesStay == Spec => OutcomesAreFinal
<1>1. WorkInv /\ [Next]_vars
        => [\A k \in Keys : runs[k].status \in Outcomes => runs'[k].status = runs[k].status]_vars
  BY WorkStep DEF SettledStay, Settled
<1> QED  BY <1>1, WorkInvariant, PTL DEF Spec, OutcomesAreFinal

(* A followed SLURM run has the final status that the cluster gave it.     *)
THEOREM VerdictsAreTrue == Spec => []SlurmVerdict
<1>1. WorkInv /\ SlurmVerdict /\ [Next]_vars => SlurmVerdict'  BY WorkStep
<1> QED  BY <1>1, WorkInit, WorkInvariant, PTL DEF Spec
-----------------------------------------------------------------------------
(* While a scheduler runs, somebody works on every open subprocess run.    *)

Readable  == Yamls \ {Refused}
Listed    == \A y \in Readable : \A j \in Jobs : y[j] # NoConfig
KindsStay == \A y, z \in Readable : \A j \in Jobs :
               y[j].kind \in SubprocessKinds => z[j].kind # "slurm"
OnlyTicks == Attended = {} /\ MaxChainDepth = 0
Roomy     == \A p \in Procs : Len(queue[p]) < QueueCap

OpenSubprocess(k) == runs[k].status = "running" /\ runs[k].kind \in SubprocessKinds

LockHolds    == lock # NoProc => \A k \in Keys : OpenSubprocess(k) => Holds(lock, k)
ConfigsRead  == \A p \in Procs : configs[p] \in Readable \cup {Empty}
HeldRead     == \A p \in Procs, k \in Keys : Holds(p, k) => configs[p] \in Readable
RowKinds     == \A k \in Keys : runs[k].status # "none"
                                  => \E y \in Readable : runs[k].kind = y[k.job].kind
TaskKinds    == \A p \in Procs, k \in Keys : tasks[p][k].pc = "sbatch"
                                  => \E y \in Readable : y[k.job].kind = "slurm"
ReadInv == ConfigsRead /\ HeldRead /\ RowKinds /\ TaskKinds
OwnInv  == LockHolds /\ ReadInv

LEMMA KeyJob == \A k \in Keys : k.job \in Jobs
BY DEF Keys

LEMMA OpenedRead ==
  ASSUME ReadInv, NEW p \in Procs, NEW k \in Keys, Opened(p, k)
  PROVE  configs[p] \in Readable /\ \E y \in Readable : runs'[k].kind = y[k.job].kind
<1>1. configs[p] # Empty  BY KeyJob DEF Opened, Empty
<1>2. configs[p] \in Readable  BY <1>1 DEF ReadInv, ConfigsRead
<1> QED  BY <1>2 DEF Opened

(* Only a task that starts may come to submit a SLURM job.                 *)
LEMMA SbatchStarts ==
  ASSUME TypeOK, [Next]_vars, NEW p \in Procs, NEW k \in Keys, tasks'[p][k].pc = "sbatch"
  PROVE  tasks[p][k].pc = "sbatch" \/ TaskStart(p, k)
<1>0. tasks \in [Procs -> [Keys -> Task]]  BY DEF TypeOK
<1>1. CASE UNCHANGED tasks  BY <1>1
<1>2. ASSUME NEW q \in Procs, NEW i \in Keys, TaskStep(q, i)
      PROVE  tasks[p][k].pc = "sbatch" \/ TaskStart(p, k)
  <2>1. CASE q = p /\ i = k
    <3>1. CASE tasks' = [tasks EXCEPT ![p][k] = NoTask]  BY <1>0, <3>1 DEF NoTask
    <3>2. CASE tasks' = [tasks EXCEPT ![p][k].pc = "exec"]  BY <1>0, <3>2
    <3> QED
      BY <1>2, <2>1, <3>1, <3>2 DEF TaskStep, Acquire, ExecEnds, UnknownKind, SbatchReturns,
         SbatchFails, Finish
  <2>2. CASE ~(q = p /\ i = k)
    <3>1. tasks'[p][k] = tasks[p][k]
      BY <1>0, <1>2, <2>2 DEF TaskStep, TaskStart, Acquire, ExecEnds, UnknownKind, SbatchReturns,
         SbatchFails, Finish
    <3> QED  BY <3>1
  <2> QED  BY <2>1, <2>2
<1>3. ASSUME NEW q \in Procs, Dispatch(q) PROVE tasks[p][k].pc = "sbatch"
  <2>1. PICK i, d : tasks' = [tasks EXCEPT ![q][i] = [pc |-> "new", cfg |-> NoConfig, depth |-> d]]
    BY <1>3 DEF Dispatch
  <2>2. ~(q = p /\ i = k)  BY <1>0, <2>1
  <2> QED  BY <1>0, <2>1, <2>2
<1>4. ASSUME NEW q \in Procs, Die(q) PROVE tasks[p][k].pc = "sbatch"
  <2>1. tasks' = [tasks EXCEPT ![q] = [i \in Keys |-> NoTask]]  BY <1>4 DEF Die
  <2>2. q # p  BY <1>0, <2>1 DEF NoTask
  <2> QED  BY <1>0, <2>1, <2>2
<1> QED
  BY <1>1, <1>2, <1>3, <1>4 DEF Next, Tock, EditYaml, OrphanExits, SlurmEnds, SlurmAccepts,
     StartWins, StartLoses, Stop, ReloadYaml, Tick, AskSacct, SacctFails, SacctAnswers, Manual,
     RunNow, Pause, Resume, mem, vars

LEMMA KindsFollow ==
  ASSUME WorkInv, ReadInv, [Next]_vars
  PROVE  TaskKinds'
<1> SUFFICES ASSUME NEW p \in Procs, NEW k \in Keys, tasks'[p][k].pc = "sbatch"
             PROVE  \E y \in Readable : y[k.job].kind = "slurm"
  BY DEF TaskKinds
<1>1. CASE tasks[p][k].pc = "sbatch"  BY <1>1 DEF ReadInv, TaskKinds
<1>2. CASE TaskStart(p, k)
  <2>1. configs[p] \in Readable
    BY <1>2 DEF TaskStart, Holds, Working, ReadInv, HeldRead
  <2>2. configs[p][k.job].kind = "slurm"
    <3>1. tasks \in [Procs -> [Keys -> Task]]  BY DEF WorkInv, TypeOK
    <3>2. tasks'[p][k].pc = IF configs[p][k.job] = NoConfig THEN "none"
                            ELSE FirstPc(configs[p][k.job].kind)
      BY <1>2, <3>1 DEF TaskStart, NoTask
    <3> QED  BY <3>2 DEF FirstPc
  <2> QED  BY <2>1, <2>2
<1> QED  BY <1>1, <1>2, SbatchStarts DEF WorkInv

(* A move loses no run if what it drops is over and what it opens is held. *)
Careful(p, drop, new, add) ==
  /\ \A k \in new \ add : runs'[k].status = "failure"
  /\ \A k \in drop \cap Keys : ~OpenSubprocess(k)'
  /\ add # {} => lock \in {p, NoProc}

LEMMA HandOwns ==
  ASSUME WorkInv, OwnInv, TaskKinds', UNCHANGED <<lock, configs>>,
         NEW p \in Procs, NEW drop, NEW new, NEW add, Hand(p, drop, new, add),
         Careful(p, drop, new, add)
  PROVE  OwnInv'
<1>1. ReadInv /\ LockHolds  BY DEF OwnInv
<1>2. /\ add \subseteq new /\ new \subseteq Keys
      /\ \A k \in new : Opened(p, k)
      /\ \A k \in drop \cap Keys : runs'[k].kind = runs[k].kind /\ Holds(p, k)
      /\ \A k \in Keys \ (new \cup drop) : runs'[k] = runs[k]
  BY DEF Hand, Rows, Closed
<1>3. \A q \in Procs, k \in Keys :
        Holds(q, k)' <=> \/ Holds(q, k) /\ ~(q = p /\ k \in drop)
                         \/ q = p /\ k \in add
  BY DEF Hand, Moves, Holds, Queued
<1>4. LockHolds'
  <2> SUFFICES ASSUME lock # NoProc, NEW k \in Keys, OpenSubprocess(k)'
               PROVE  Holds(lock, k)'
    BY DEF LockHolds, Holds, Queued, Working
  <2>1. lock \in Procs /\ k \notin drop  BY DEF Careful, WorkInv, TypeOK
  <2>2. CASE k \in new
    <3>1. k \in add  BY <2>2 DEF Careful, OpenSubprocess
    <3>2. lock = p  BY <3>1 DEF Careful
    <3> QED  BY <1>3, <2>1, <3>1, <3>2 DEF Holds, Queued, Working
  <2>3. CASE k \notin new
    <3>1. OpenSubprocess(k)  BY <1>2, <2>1, <2>3 DEF OpenSubprocess
    <3>2. Holds(lock, k)  BY <1>1, <3>1 DEF LockHolds
    <3> QED  BY <1>3, <2>1, <3>2 DEF Holds, Queued, Working
  <2> QED  BY <2>2, <2>3
<1>5. ConfigsRead'  BY <1>1 DEF ReadInv, ConfigsRead
<1>6. HeldRead'
  <2> SUFFICES ASSUME NEW q \in Procs, NEW k \in Keys, Holds(q, k)'
               PROVE  configs[q] \in Readable
    BY DEF HeldRead
  <2>1. CASE Holds(q, k)  BY <1>1, <2>1 DEF ReadInv, HeldRead
  <2>2. CASE q = p /\ k \in add  BY <1>1, <1>2, <2>2, OpenedRead
  <2> QED  BY <1>3, <2>1, <2>2
<1>7. RowKinds'
  <2> SUFFICES ASSUME NEW k \in Keys, runs'[k].status # "none"
               PROVE  \E y \in Readable : runs'[k].kind = y[k.job].kind
    BY DEF RowKinds
  <2>1. CASE k \in new  BY <1>1, <1>2, <2>1, OpenedRead
  <2>2. CASE k \notin new /\ k \in drop
    <3>1. runs'[k].kind = runs[k].kind /\ runs[k].status # "none"
      BY <1>2, <2>2 DEF WorkInv, HandsInv, HeldRows, HeldStatus
    <3> QED  BY <1>1, <3>1 DEF ReadInv, RowKinds
  <2>3. CASE k \notin new /\ k \notin drop
    BY <1>1, <1>2, <2>3 DEF ReadInv, RowKinds
  <2> QED  BY <2>1, <2>2, <2>3
<1> QED  BY <1>4, <1>5, <1>6, <1>7 DEF OwnInv, ReadInv

(* When nothing is lost: only the tick loop opens rows, and it fails those *)
(* it cannot queue; or the queue of the one process never fills up.        *)
NothingLost == OnlyTicks \/ (Alone /\ Roomy /\ Roomy')

LEMMA AloneLock ==
  ASSUME WorkInv, Alone, NEW p \in Procs  PROVE lock \in {p, NoProc}
BY DEF Alone, WorkInv, TypeOK

LEMMA QueueOwns ==
  ASSUME WorkInv, OwnInv, TaskKinds', NothingLost, NEW p \in Procs,
         Tick(p) \/ Dispatch(p) \/ \E j \in Attended : RunNow(p, j)
  PROVE  OwnInv'
<1>1. UNCHANGED <<lock, configs>>  BY DEF Tick, Dispatch, RunNow, life
<1>2. CASE Tick(p)
  <2>1. PICK new, add : Hand(p, {}, new, add) /\ \A k \in new \ add : runs'[k].status = "failure"
    BY <1>2, TickHand
  <2>2. lock = p  BY <1>2 DEF Tick, WorkInv, LockIsActive
  <2>3. Careful(p, {}, new, add)  BY <2>1, <2>2 DEF Careful
  <2> QED  BY <1>1, <2>1, <2>3, HandOwns
<1>3. CASE Dispatch(p)
  <2>1. Careful(p, {}, {}, {})  BY DEF Careful
  <2> QED  BY <1>1, <1>3, <2>1, DispatchHand, HandOwns
<1>4. CASE \E j \in Attended : RunNow(p, j)
  <2>1. Alone /\ Roomy /\ Roomy'  BY <1>4 DEF NothingLost, OnlyTicks
  <2>2. PICK new, add : /\ Hand(p, {}, new, add)
                        /\ Len(queue[p]) < QueueCap /\ Len(queue'[p]) < QueueCap => add = new
    BY <1>4, RunHand
  <2>3. add = new  BY <2>1, <2>2 DEF Roomy
  <2>4. Careful(p, {}, new, add)  BY <2>1, <2>3, AloneLock DEF Careful
  <2> QED  BY <1>1, <2>2, <2>4, HandOwns
<1> QED  BY <1>2, <1>3, <1>4

LEMMA TaskOwns ==
  ASSUME Listed, KindsStay, WorkInv, OwnInv, TaskKinds', NothingLost,
         NEW p \in Procs, NEW k \in Keys, TaskStep(p, k)
  PROVE  OwnInv'
<1>1. UNCHANGED <<lock, configs>>
  BY DEF TaskStep, TaskStart, Acquire, ExecEnds, UnknownKind, SbatchReturns, SbatchFails,
         Finish, life
<1>2. CASE TaskStart(p, k)
  <2>1. configs[p][k.job] # NoConfig
    <3>1. configs[p] \in Readable
      BY <1>2 DEF TaskStart, Holds, Working, OwnInv, ReadInv, HeldRead
    <3> QED  BY <3>1, KeyJob DEF Listed
  <2>2. Hand(p, {}, {}, {})  BY <1>2, <2>1, StartHand
  <2>3. Careful(p, {}, {}, {})  BY DEF Careful
  <2> QED  BY <1>1, <2>2, <2>3, HandOwns
<1>3. CASE Acquire(p, k)
  <2>1. Careful(p, {}, {}, {})  BY DEF Careful
  <2> QED  BY <1>1, <1>3, <2>1, AcquireHand, HandOwns
<1>4. CASE SbatchReturns(p, k)
  <2>1. Hand(p, {k}, {}, {})  BY <1>4, SbatchHand
  <2>2. Holds(p, k) /\ runs'[k].kind = runs[k].kind  BY <2>1 DEF Hand, Rows, Closed
  <2>3. PICK y \in Readable : y[k.job].kind = "slurm"
    BY <1>4 DEF SbatchReturns, OwnInv, ReadInv, TaskKinds
  <2>4. PICK z \in Readable : runs[k].kind = z[k.job].kind
    BY <2>2 DEF OwnInv, ReadInv, RowKinds, WorkInv, HandsInv, HeldRows, HeldStatus
  <2>5. runs'[k].kind \notin SubprocessKinds
    BY <2>2, <2>3, <2>4, KeyJob DEF KindsStay
  <2>6. Careful(p, {k}, {}, {})  BY <2>5 DEF Careful, OpenSubprocess
  <2> QED  BY <1>1, <2>1, <2>6, HandOwns
<1>5. ASSUME NEW st \in Outcomes, Finish(p, k, st), tasks[p][k].pc \notin {"none", "new"}
      PROVE  OwnInv'
  <2>1. PICK new, add :
          /\ Hand(p, {k}, new, add) /\ runs'[k].status = st
          /\ new # {} => MaxChainDepth > 0
          /\ Len(queue[p]) < QueueCap /\ Len(queue'[p]) < QueueCap => add = new
    BY <1>5, FinishHand
  <2>2. ~OpenSubprocess(k)'  BY <2>1 DEF OpenSubprocess, Outcomes
  <2>3. Careful(p, {k}, new, add)
    <3>1. CASE OnlyTicks
      <4>1. new = {}  BY <2>1, <3>1 DEF OnlyTicks
      <4>2. add = {}  BY <2>1, <4>1 DEF Hand, Rows
      <4> QED  BY <2>2, <4>1, <4>2 DEF Careful
    <3>2. CASE Alone /\ Roomy /\ Roomy'
      <4>1. add = new  BY <2>1, <3>2 DEF Roomy
      <4> QED  BY <2>2, <3>2, <4>1, AloneLock DEF Careful
    <3> QED  BY <3>1, <3>2 DEF NothingLost
  <2> QED  BY <1>1, <2>1, <2>3, HandOwns
<1>6. CASE \/ \E st \in Outcomes : ExecEnds(p, k, st)
           \/ UnknownKind(p, k) \/ SbatchFails(p, k)
  BY <1>5, <1>6 DEF ExecEnds, UnknownKind, SbatchFails, Outcomes
<1> QED  BY <1>2, <1>3, <1>4, <1>6 DEF TaskStep

LEMMA LifeOwns ==
  ASSUME WorkInv, OwnInv, TaskKinds', NEW p \in Procs,
         StartWins(p) \/ StartLoses(p) \/ Stop(p) \/ Die(p) \/ ReloadYaml(p)
  PROVE  OwnInv'
<1>1. /\ \A q \in Procs : Apart(q)
      /\ configs \in [Procs -> [Jobs -> Configs \cup {NoConfig}]]
      /\ yaml \in Yamls /\ runs \in [Keys -> RunRow]
  BY DEF WorkInv, HandsInv, HandsApart, TypeOK
<1>2. \A q \in Procs, k \in Keys :
        Holds(q, k)' <=> Holds(q, k) /\ ~(q = p /\ Die(p))
  <2>1. CASE UNCHANGED <<queue, tasks>> /\ ~Die(p)
    BY <2>1 DEF Holds, Queued, Working
  <2>2. CASE Die(p)
    <3>1. Moves(p, Keys, {})  BY <2>2, MoveAll DEF WorkInv
    <3> QED  BY <2>2, <3>1 DEF Moves, Holds, Queued
  <2> QED  BY <2>1, <2>2 DEF StartWins, StartLoses, Stop, ReloadYaml, mem
<1>3. \A k \in Keys : /\ runs'[k].kind = runs[k].kind
                      /\ runs'[k].status # "none" => runs[k].status # "none"
                      /\ OpenSubprocess(k)' => OpenSubprocess(k) /\ ~StartWins(p)
  <2>1. CASE StartWins(p)
    <3>1. \A k \in Keys : runs'[k] = AfterRestart(k)  BY <2>1 DEF StartWins
    <3>2. ASSUME NEW k \in Keys, k \in Stale
          PROVE  runs'[k].kind = runs[k].kind /\ runs'[k].status = "abandoned"
      BY <1>1, <3>1, <3>2 DEF AfterRestart, RunRow
    <3> QED  BY <3>1, <3>2 DEF AfterRestart, Stale, OpenSubprocess
  <2>2. CASE UNCHANGED runs /\ ~StartWins(p)  BY <2>2 DEF OpenSubprocess
  <2> QED  BY <2>1, <2>2 DEF StartLoses, Stop, Die, ReloadYaml, db, StartWins
<1>4. LockHolds'
  <2> SUFFICES ASSUME lock' # NoProc, NEW k \in Keys, OpenSubprocess(k)'
               PROVE  Holds(lock, k)'
    BY DEF LockHolds, Holds, Queued, Working
  <2>1. OpenSubprocess(k) /\ ~StartWins(p)  BY <1>3
  <2>2. lock' = lock /\ ~(lock = p /\ Die(p))
    BY <2>1 DEF StartLoses, Stop, Die, ReloadYaml, life
  <2>3. lock \in Procs /\ Holds(lock, k)
    BY <2>1, <2>2 DEF OwnInv, LockHolds, WorkInv, TypeOK
  <2> QED  BY <1>2, <2>2, <2>3 DEF Holds, Queued, Working
<1>5. \A q \in Procs : \/ configs'[q] = configs[q]
                       \/ configs'[q] \in Readable
                       \/ configs'[q] = Empty /\ \A k \in Keys : ~Holds(q, k)'
  <2>1. CASE StartWins(p)
    <3>1. \A k \in Keys : ~Holds(p, k)'
      BY <1>2, <2>1 DEF StartWins, WorkInv, HandsInv, DownIsBare
    <3>2. configs' = [configs EXCEPT ![p] = IF yaml = Refused THEN Empty ELSE yaml]
      BY <2>1 DEF StartWins
    <3> QED  BY <1>1, <3>1, <3>2 DEF Readable
  <2>2. CASE Die(p)
    <3>1. \A k \in Keys : ~Holds(p, k)'  BY <1>2, <2>2
    <3>2. configs' = [configs EXCEPT ![p] = Empty]  BY <2>2 DEF Die
    <3> QED  BY <1>1, <3>1, <3>2
  <2>3. CASE ReloadYaml(p)
    <3>1. yaml \in Readable /\ configs' = [configs EXCEPT ![p] = yaml]
      BY <1>1, <2>3 DEF ReloadYaml, Readable
    <3> QED  BY <1>1, <3>1
  <2> QED  BY <2>1, <2>2, <2>3 DEF StartLoses, Stop, mem
<1>6. ConfigsRead'  BY <1>5 DEF OwnInv, ReadInv, ConfigsRead
<1>7. HeldRead'
  <2>1. ASSUME NEW q \in Procs, NEW k \in Keys, Holds(q, k)'
        PROVE  configs'[q] \in Readable
    BY <1>2, <1>5, <2>1 DEF OwnInv, ReadInv, HeldRead
  <2> QED  BY <2>1 DEF HeldRead
<1>8. RowKinds'  BY <1>3 DEF OwnInv, ReadInv, RowKinds
<1> QED  BY <1>4, <1>6, <1>7, <1>8 DEF OwnInv, ReadInv

LEMMA AsideOwns ==
  ASSUME OwnInv, TaskKinds', UNCHANGED <<queue, tasks, lock, configs>>,
         \A k \in Keys : /\ runs'[k].kind = runs[k].kind
                         /\ runs'[k].status # "none" => runs[k].status # "none"
                         /\ runs'[k].status = "running" => runs[k].status = "running"
  PROVE  OwnInv'
BY DEF OwnInv, ReadInv, LockHolds, OpenSubprocess, ConfigsRead, HeldRead, RowKinds, Holds,
       Queued, Working

LEMMA SacctRows ==
  ASSUME WorkInv, NEW p \in Procs, SacctAnswers(p), NEW k \in Keys
  PROVE  /\ runs'[k].kind = runs[k].kind
         /\ runs'[k].status # "none" => runs[k].status # "none"
         /\ runs'[k].status = "running" => runs[k].status = "running"
<1>1. runs[k] \in RunRow /\ asked[p] \subseteq RunningSlurm
  BY DEF WorkInv, TypeOK, AskedRows
<1>2. \/ runs'[k] = runs[k]
      \/ k \in asked[p] /\ runs'[k] = [runs[k] EXCEPT !.status = Verdict(k)]
  BY DEF SacctAnswers
<1> QED  BY <1>1, <1>2 DEF RunningSlurm, RunRow

LEMMA OwnStep ==
  ASSUME Listed, KindsStay, WorkInv, OwnInv, NothingLost, [Next]_vars
  PROVE  OwnInv'
<1>1. TaskKinds'  BY KindsFollow DEF OwnInv
<1>2. ASSUME NEW p \in Procs, SacctAnswers(p) PROVE OwnInv'
  <2>1. UNCHANGED <<queue, tasks, lock, configs>>  BY <1>2 DEF SacctAnswers, life
  <2> QED  BY <1>1, <1>2, <2>1, SacctRows, AsideOwns
<1>3. CASE UNCHANGED <<queue, tasks, lock, configs, runs>>
  BY <1>1, <1>3, AsideOwns
<1>4. ASSUME NEW p \in Procs, StartWins(p) \/ StartLoses(p) \/ Stop(p) \/ Die(p) \/ ReloadYaml(p)
      PROVE  OwnInv'
  BY <1>1, <1>4, LifeOwns
<1>5. ASSUME NEW p \in Procs, Tick(p) \/ Dispatch(p) \/ \E j \in Attended : RunNow(p, j)
      PROVE  OwnInv'
  BY <1>1, <1>5, QueueOwns
<1>6. ASSUME NEW p \in Procs, NEW k \in Keys, TaskStep(p, k) PROVE OwnInv'
  BY <1>1, <1>6, TaskOwns
<1>7. CASE \/ Tock \/ \E y \in Yamls : EditYaml(y)
           \/ \E k \in Keys : OrphanExits(k)
           \/ \E k \in Keys, st \in SlurmFinal : SlurmEnds(k, st)
           \/ \E p \in Procs, k \in Keys : SlurmAccepts(p, k)
           \/ \E p \in Procs : AskSacct(p) \/ SacctFails(p)
           \/ \E p \in Procs : \E j \in Attended : Pause(p, j) \/ Resume(p, j)
           \/ UNCHANGED vars
  BY <1>3, <1>7 DEF Tock, EditYaml, OrphanExits, SlurmEnds, SlurmAccepts, AskSacct, SacctFails,
     Pause, Resume, life, mem, db, vars
<1> QED  BY <1>2, <1>4, <1>5, <1>6, <1>7 DEF Next, Manual

LEMMA OwnInit == Init => OwnInv
<1> SUFFICES ASSUME Init PROVE OwnInv  OBVIOUS
<1>1. \A p \in Procs, k \in Keys : ~Holds(p, k) /\ tasks[p][k].pc = "none"
  BY DEF Init, NoTask, Holds, Queued, Working
<1>2. lock = NoProc /\ \A k \in Keys : runs[k].status = "none"  BY DEF Init, NoRun
<1>3. \A p \in Procs : configs[p] = Empty  BY DEF Init
<1> QED
  BY <1>1, <1>2, <1>3 DEF OwnInv, LockHolds, ReadInv, ConfigsRead, HeldRead, RowKinds, TaskKinds

LEMMA OwnedRuns == WorkInv /\ OwnInv => RunsAreOwned
BY DEF WorkInv, TypeOK, OwnInv, LockHolds, OpenSubprocess, Holds, RunsAreOwned

(* A single process whose queue never fills up, and whose jobs.yaml drops  *)
(* no job and turns none from a subprocess into a SLURM job, leaves no     *)
(* subprocess run open that is neither queued nor worked on.               *)
THEOREM RunsStayOwned ==
  ASSUME Alone, Listed, KindsStay  PROVE Spec /\ []Roomy => []RunsAreOwned
<1>1. WorkInv /\ OwnInv /\ Roomy /\ Roomy' /\ [Next]_vars => OwnInv'
  BY OwnStep DEF NothingLost
<1> QED  BY <1>1, OwnInit, OwnedRuns, WorkInvariant, PTL DEF Spec

(* Neither do any number of processes, whatever the room in their queues,  *)
(* as long as only the tick loop starts runs.                              *)
THEOREM TickRunsStayOwned ==
  ASSUME OnlyTicks, Listed, KindsStay  PROVE Spec => []RunsAreOwned
<1>1. WorkInv /\ OwnInv /\ [Next]_vars => OwnInv'  BY OwnStep DEF NothingLost
<1> QED  BY <1>1, OwnInit, OwnedRuns, WorkInvariant, PTL DEF Spec
-----------------------------------------------------------------------------
(* A job that failed too often is disabled.                                *)

NoSlurm == \A y \in Readable : \A j \in Jobs : y[j] # NoConfig => y[j].kind # "slurm"

NoSlurmInv ==
  /\ \A p \in Procs, j \in Jobs : configs[p][j] # NoConfig => configs[p][j].kind # "slurm"
  /\ \A p \in Procs, k \in Keys : tasks[p][k].pc # "sbatch"
  /\ \A k \in Keys : ~runs[k].slurm
  /\ \A p \in Procs : asked[p] = {}

(* The jobs of a process are those of a readable file, or none: when it    *)
(* starts with a refused file, and after its end.                          *)
Emptied(p) == Die(p) \/ (StartWins(p) /\ yaml = Refused)

LEMMA ConfigsFollow ==
  ASSUME TypeOK, [Next]_vars, NEW p \in Procs
  PROVE  \/ configs'[p] \in {configs[p]} \cup Readable
         \/ configs'[p] = Empty /\ Emptied(p)
<1>1. yaml \in Yamls /\ configs \in [Procs -> [Jobs -> Configs \cup {NoConfig}]]  BY DEF TypeOK
<1>2. CASE UNCHANGED configs  BY <1>2
<1>3. ASSUME NEW q \in Procs, StartWins(q) \/ Die(q) \/ ReloadYaml(q)
      PROVE  \/ configs'[p] \in {configs[p]} \cup Readable
             \/ configs'[p] = Empty /\ Emptied(p)
  <2>1. ASSUME q # p  PROVE configs'[p] = configs[p]
    BY <1>1, <1>3, <2>1 DEF StartWins, Die, ReloadYaml
  <2>2. CASE StartWins(q) /\ q = p
    BY <1>1, <2>2 DEF StartWins, Readable, Emptied
  <2>3. CASE Die(q) /\ q = p  BY <1>1, <2>3 DEF Die, Emptied
  <2>4. CASE ReloadYaml(q) /\ q = p  BY <1>1, <2>4 DEF ReloadYaml, Readable
  <2> QED  BY <1>3, <2>1, <2>2, <2>3, <2>4
<1>4. ASSUME NEW q \in Procs, NEW k \in Keys, TaskStep(q, k)  PROVE UNCHANGED configs
  BY <1>4 DEF TaskStep, TaskStart, Acquire, ExecEnds, UnknownKind, SbatchReturns, SbatchFails,
     Finish
<1> QED
  BY <1>2, <1>3, <1>4 DEF Next, Tock, EditYaml, OrphanExits, SlurmEnds, SlurmAccepts,
     StartLoses, Stop, Tick, Dispatch, AskSacct, SacctFails, SacctAnswers, Manual,
     RunNow, Pause, Resume, mem, vars

(* Only the answer of sbatch makes a row a followed one.                   *)
LEMMA SlurmRows ==
  ASSUME TypeOK, [Next]_vars, NEW k \in Keys, runs'[k].slurm
  PROVE  runs[k].slurm \/ \E p \in Procs : SbatchReturns(p, k)
<1>0. runs \in [Keys -> RunRow] /\ runs[k] \in RunRow  BY DEF TypeOK
<1>1. CASE runs'[k] = runs[k]  BY <1>1
<1>2. ASSUME NEW st, runs'[k] = [runs[k] EXCEPT !.status = st]  PROVE runs[k].slurm
  BY <1>0, <1>2 DEF RunRow
<1>3. ASSUME NEW kind, runs'[k] \in {NewRun(kind), [NewRun(kind) EXCEPT !.status = "failure"]}
      PROVE  FALSE
  BY <1>3 DEF NewRun
<1>4. ASSUME NEW p \in Procs, Tick(p) PROVE runs[k].slurm
  <2> DEFINE new == {DueKey(j) : j \in Fires(p)}
  <2>0. PICK rs : runs' = [i \in Keys |->
          IF i \in new THEN TickedRow(p, i, {r.key : r \in Range(Fits(p, rs))}) ELSE runs[i]]
    BY <1>4 DEF Tick, DueKey
  <2> HIDE DEF new
  <2>1. \/ runs'[k] = runs[k]
        \/ runs'[k] = TickedRow(p, k, {r.key : r \in Range(Fits(p, rs))})
    BY <2>0
  <2>2. \A queued : ~TickedRow(p, k, queued).slurm  BY DEF TickedRow, NewRun
  <2> QED  BY <1>1, <2>1, <2>2
<1>5. ASSUME NEW p \in Procs, NEW i \in Keys, NEW st, Finish(p, i, st) PROVE runs[k].slurm
  <2>1. PICK new : runs' = AfterFinish(p, i, st, new)  BY <1>5 DEF Finish
  <2>2. \/ runs'[k] = [runs[k] EXCEPT !.status = st]
        \/ runs'[k] = NewRun(configs[p][k.job].kind)
        \/ runs'[k] = runs[k]
    BY <2>1 DEF AfterFinish
  <2> QED  BY <1>1, <1>2, <1>3, <2>2
<1>6. ASSUME NEW p \in Procs, NEW i \in Keys, TaskStep(p, i)
      PROVE  runs[k].slurm \/ SbatchReturns(p, k)
  <2>1. CASE SbatchReturns(p, i) /\ i # k
    <3>1. runs'[k] = runs[k]  BY <1>0, <2>1 DEF SbatchReturns
    <3> QED  BY <1>1, <3>1
  <2>2. CASE UNCHANGED runs  BY <1>1, <2>2
  <2> QED  BY <1>5, <1>6, <2>1, <2>2 DEF TaskStep, TaskStart, Acquire, ExecEnds, UnknownKind,
              SbatchFails, db
<1>7. ASSUME NEW p \in Procs, StartWins(p) PROVE runs[k].slurm
  <2>1. runs'[k] = AfterRestart(k)  BY <1>7 DEF StartWins
  <2> QED  BY <1>1, <1>2, <2>1 DEF AfterRestart
<1>8. ASSUME NEW p \in Procs, SacctAnswers(p) PROVE runs[k].slurm
  <2>1. runs'[k] = runs[k] \/ runs'[k] = [runs[k] EXCEPT !.status = Verdict(k)]
    BY <1>8 DEF SacctAnswers
  <2> QED  BY <1>1, <1>2, <2>1
<1>9. ASSUME NEW p \in Procs, NEW j \in Attended, RunNow(p, j) PROVE runs[k].slurm
  <2>1. runs'[k] = runs[k] \/ runs'[k] = NewRun(configs[p][j].kind)
    BY <1>0, <1>9 DEF RunNow
  <2> QED  BY <1>1, <1>3, <2>1
<1> QED
  BY <1>1, <1>4, <1>6, <1>7, <1>8, <1>9 DEF Next, Tock, EditYaml, OrphanExits, SlurmEnds,
     SlurmAccepts, StartLoses, Stop, Die, ReloadYaml, Dispatch, AskSacct, SacctFails, Manual,
     Pause, Resume, db, vars

(* Only a process that polls sacct has rows it was asked about.            *)
LEMMA AskedFrom ==
  ASSUME TypeOK, [Next]_vars, NEW p \in Procs
  PROVE  asked'[p] \in {{}, asked[p], RunningSlurm}
<1>1. asked \in [Procs -> SUBSET Keys]  BY DEF TypeOK
<1>2. CASE UNCHANGED asked  BY <1>2
<1>3. ASSUME NEW q \in Procs, NEW s \in {{}, RunningSlurm}, asked' = [asked EXCEPT ![q] = s]
      PROVE  asked'[p] \in {{}, asked[p], RunningSlurm}
  BY <1>1, <1>3
<1>4. ASSUME NEW q \in Procs, NEW k \in Keys, TaskStep(q, k)  PROVE UNCHANGED asked
  BY <1>4 DEF TaskStep, TaskStart, Acquire, ExecEnds, UnknownKind, SbatchReturns, SbatchFails,
     Finish
<1>5. ASSUME NEW q \in Procs, Stop(q) \/ Die(q) \/ AskSacct(q) \/ SacctFails(q) \/ SacctAnswers(q)
      PROVE  \E s \in {{}, RunningSlurm} : asked' = [asked EXCEPT ![q] = s]
  BY <1>5 DEF Stop, Die, AskSacct, SacctFails, SacctAnswers
<1> QED
  BY <1>2, <1>3, <1>4, <1>5 DEF Next, Tock, EditYaml, OrphanExits, SlurmEnds, SlurmAccepts,
     StartWins, StartLoses, ReloadYaml, Tick, Dispatch, Manual, RunNow, Pause, Resume, mem, vars

LEMMA NoSlurmStep ==
  ASSUME NoSlurm, TypeOK, NoSlurmInv, [Next]_vars
  PROVE  NoSlurmInv'
<1>1. ASSUME NEW p \in Procs, NEW j \in Jobs, configs'[p][j] # NoConfig
      PROVE  configs'[p][j].kind # "slurm"
  <2>1. configs'[p] \in {configs[p]} \cup Readable \/ configs'[p] = Empty  BY ConfigsFollow
  <2> QED  BY <1>1, <2>1 DEF NoSlurmInv, NoSlurm, Empty
<1>2. ASSUME NEW p \in Procs, NEW k \in Keys PROVE tasks'[p][k].pc # "sbatch"
  <2> SUFFICES ASSUME tasks'[p][k].pc = "sbatch" PROVE FALSE  OBVIOUS
  <2>1. TaskStart(p, k)  BY SbatchStarts DEF NoSlurmInv
  <2>2. tasks \in [Procs -> [Keys -> Task]]  BY DEF TypeOK
  <2>3. tasks'[p][k].pc = IF configs[p][k.job] = NoConfig THEN "none"
                          ELSE FirstPc(configs[p][k.job].kind)
    BY <2>1, <2>2 DEF TaskStart, NoTask
  <2>4. configs[p][k.job] # NoConfig /\ configs[p][k.job].kind = "slurm"
    BY <2>3 DEF FirstPc
  <2> QED  BY <2>4, KeyJob DEF NoSlurmInv
<1>3. ASSUME NEW k \in Keys PROVE ~runs'[k].slurm
  BY SlurmRows DEF NoSlurmInv, SbatchReturns
<1>4. ASSUME NEW p \in Procs PROVE asked'[p] = {}
  <2>1. RunningSlurm = {}  BY DEF NoSlurmInv, RunningSlurm
  <2> QED  BY <2>1, AskedFrom DEF NoSlurmInv
<1> QED  BY <1>1, <1>2, <1>3, <1>4 DEF NoSlurmInv

(* Rows that a finished run leaves enabled have not failed too often.      *)
Fit(row) == row.enabled => row.failures < MaxFailures

LEMMA FitRows ==
  ASSUME NEW row \in JobRow, NEW due, NEW cfg, NEW st
  PROVE  /\ Fit(row) => Fit(Upserted(row, cfg, due)) /\ Fit([row EXCEPT !.due = due])
         /\ Fit(AutoDisabled(Finished(row, st, due), st))
         /\ Fit([row EXCEPT !.enabled = FALSE])
         /\ Fit([row EXCEPT !.enabled = TRUE, !.failures = 0])
<1>1. MaxFailures \in Nat \ {0} /\ row.failures \in Nat
  BY SchedulerAssumption DEF JobRow
<1>2. Fit(row) => Fit(Upserted(row, cfg, due)) /\ Fit([row EXCEPT !.due = due])
  BY DEF Fit, Upserted, JobRow
<1>3. Fit([row EXCEPT !.enabled = FALSE]) /\ Fit([row EXCEPT !.enabled = TRUE, !.failures = 0])
  BY <1>1 DEF Fit, JobRow
<1>4. Fit(AutoDisabled(Finished(row, st, due), st))
  <2> DEFINE f == IF st = "success" THEN 0 ELSE row.failures + 1
             r == Finished(row, st, due)
  <2>1. r.failures = f /\ f \in Nat  BY <1>1 DEF Finished, JobRow
  <2>2. st = "success" => f < MaxFailures  BY <1>1
  <2>3. /\ DOMAIN r = {"hash", "enabled", "failures", "due"}
        /\ AutoDisabled(r, st) = [r EXCEPT !.enabled = r.enabled /\ ~(st # "success" /\ f >= MaxFailures)]
    BY <2>1 DEF AutoDisabled, Finished, JobRow
  <2> HIDE DEF r, f
  <2>4. AutoDisabled(r, st).failures = f  BY <2>1, <2>3
  <2>5. AutoDisabled(r, st).enabled => ~(st # "success" /\ f >= MaxFailures)
    <3>1. AutoDisabled(r, st).enabled = (r.enabled /\ ~(st # "success" /\ f >= MaxFailures))
      BY <2>3
    <3> QED  BY <3>1
  <2>6. ~(st # "success" /\ f >= MaxFailures) => f < MaxFailures  BY <1>1, <2>1, <2>2
  <2> QED  BY <2>4, <2>5, <2>6 DEF Fit, r
<1> QED  BY <1>2, <1>3, <1>4

LEMMA FitReloaded ==
  ASSUME TypeOK, AutoDisable, NEW y, NEW nxt, NEW j \in Jobs
  PROVE  Fit(jobs[j]) /\ Fit(ReloadedJobs(y, nxt)[j])
<1>1. jobs[j] \in JobRow /\ Fit(jobs[j])  BY DEF TypeOK, AutoDisable, Fit
<1> QED  BY <1>1, FitRows DEF ReloadedJobs

LEMMA TickFits ==
  ASSUME TypeOK, Roomy, Roomy', NEW p \in Procs, Tick(p)
  PROVE  \E nxt \in [Jobs -> NextDues] :
           jobs' = [j \in Jobs |-> IF j \in Fires(p) THEN Upserted(jobs[j], configs[p][j], nxt[j])
                                   ELSE jobs[j]]
<1> DEFINE queued(rs) == {r.key : r \in Range(Fits(p, rs))}
           Up(j, nxt) == Upserted(jobs[j], configs[p][j], nxt[j])
           Key(j) == TickKey(j, jobs[j].due)
           reqs(order) == [i \in 1 .. Len(order) |-> TickRequest(order[i])]
<1>0. PICK order \in SetToSeqs(Fires(p)), nxt \in [Jobs -> NextDues] :
        /\ Enqueue(p, reqs(order))
        /\ jobs' = [j \in Jobs |->
              IF j \in Fires(p) /\ Key(j) \notin queued(reqs(order))
              THEN Finished(Up(j, nxt), "failure", nxt[j])
              ELSE IF j \in Fires(p) THEN Up(j, nxt) ELSE jobs[j]]
  BY DEF Tick
<1> DEFINE rs == TickRequests(order)
<1>1. /\ rs = TickRequests(order) /\ Enqueue(p, rs)
      /\ jobs' = [j \in Jobs |->
            IF j \in Fires(p) /\ DueKey(j) \notin queued(rs)
            THEN Finished(Up(j, nxt), "failure", nxt[j])
            ELSE IF j \in Fires(p) THEN Up(j, nxt) ELSE jobs[j]]
  BY <1>0, Zenon DEF TickRequests, DueKey
<1> HIDE DEF rs
<1>2. /\ rs \in Seq(Request) /\ Plain(rs) /\ KeysOf(rs) = {DueKey(j) : j \in Fires(p)}
      /\ queued(rs) = KeysOf(Fits(p, rs))
  BY <1>1, TickQueue
<1>3. Fits(p, rs) = rs  BY <1>1, <1>2, FitsPlain DEF Roomy
<1>4. \A j \in Fires(p) : DueKey(j) \in queued(rs)  BY <1>2, <1>3
<1> HIDE DEF queued, Up
<1>5. jobs' = [j \in Jobs |-> IF j \in Fires(p) THEN Up(j, nxt) ELSE jobs[j]]
  BY <1>1, <1>4
<1> QED  BY <1>5 DEF Up

(* What a step may do to the row of a job.                                 *)
Reset(row) == [row EXCEPT !.enabled = TRUE, !.failures = 0]
JobMoves(j) ==
  \/ jobs'[j] = jobs[j] \/ jobs'[j] = [jobs[j] EXCEPT !.enabled = FALSE]
  \/ jobs'[j] = Reset(jobs[j])
  \/ \E cfg \in Configs, due \in Times :
       jobs'[j] \in {Upserted(jobs[j], cfg, due), Upserted(Reset(jobs[j]), cfg, due)}
  \/ \E due \in Times, st \in Outcomes :
       jobs'[j] = AutoDisabled(Finished(jobs[j], st, due), st)
  \/ \E p \in Procs, due \in Times : \E row :
       /\ StartWins(p)
       /\ row = jobs[j] \/ \E cfg \in Configs : row = Upserted(jobs[j], cfg, due)
       /\ \/ jobs'[j] = [row EXCEPT !.due = due]
          \/ jobs'[j] = [row EXCEPT !.due = NoDue] /\ (yaml = Refused \/ yaml[j] = NoConfig)
  \/ \E p \in Procs, cfg \in Configs, due \in Times :
       /\ Tick(p)
       /\ jobs'[j] = Finished(Upserted(jobs[j], cfg, due), "failure", due)
  \/ \E p \in Procs, due \in Times : \E n :
       /\ SacctAnswers(p)
       /\ \/ jobs'[j] = [jobs[j] EXCEPT !.failures = n, !.due = due]
          \/ /\ jobs'[j] = [jobs[j] EXCEPT !.failures = n, !.due = NoDue]
             /\ configs[p][j] = NoConfig

LEMMA ReloadedRow ==
  ASSUME TypeOK, yaml # Refused, NEW nxt \in [Jobs -> NextDues], NEW j \in Jobs
  PROVE  /\ nxt[j] \in Times
         /\ \/ ReloadedJobs(yaml, nxt)[j] = jobs[j]
            \/ /\ yaml[j] \in Configs
               /\ ReloadedJobs(yaml, nxt)[j] = Upserted(jobs[j], yaml[j], nxt[j])
<1>1. yaml \in [Jobs -> Configs \cup {NoConfig}]  BY YamlType
<1>2. nxt[j] \in Times  BY NextDuesType
<1> QED  BY <1>1, <1>2 DEF ReloadedJobs

LEMMA TickMovesJobs ==
  ASSUME TypeOK, NEW p \in Procs, Tick(p), NEW j \in Jobs
  PROVE  JobMoves(j)
<1>1. PICK nxt \in [Jobs -> NextDues] :
        jobs'[j] \in {jobs[j], Upserted(jobs[j], configs[p][j], nxt[j]),
                      Finished(Upserted(jobs[j], configs[p][j], nxt[j]), "failure", nxt[j])}
        /\ (jobs'[j] # jobs[j] => j \in Fires(p))
  <2> DEFINE Up(i, nxt) == Upserted(jobs[i], configs[p][i], nxt[i])
  <2>1. PICK nxt \in [Jobs -> NextDues], late \in SUBSET Jobs :
          jobs' = [i \in Jobs |-> IF i \in Fires(p) /\ i \in late
                                  THEN Finished(Up(i, nxt), "failure", nxt[i])
                                  ELSE IF i \in Fires(p) THEN Up(i, nxt) ELSE jobs[i]]
    <3> DEFINE reqs(order) == [i \in 1 .. Len(order) |-> TickRequest(order[i])]
               queued(order) == {r.key : r \in Range(Fits(p, reqs(order)))}
    <3>1. PICK order \in SetToSeqs(Fires(p)), nxt \in [Jobs -> NextDues] :
            jobs' = [i \in Jobs |->
                       IF i \in Fires(p) /\ TickKey(i, jobs[i].due) \notin queued(order)
                       THEN Finished(Up(i, nxt), "failure", nxt[i])
                       ELSE IF i \in Fires(p) THEN Up(i, nxt) ELSE jobs[i]]
      BY DEF Tick
    <3> HIDE DEF queued, Up
    <3> DEFINE late == {i \in Jobs : TickKey(i, jobs[i].due) \notin queued(order)}
    <3>2. jobs' = [i \in Jobs |-> IF i \in Fires(p) /\ i \in late
                                  THEN Finished(Up(i, nxt), "failure", nxt[i])
                                  ELSE IF i \in Fires(p) THEN Up(i, nxt) ELSE jobs[i]]
      BY <3>1
    <3> QED  BY <3>2 DEF Up
  <2> QED  BY <2>1
<1>2. CASE jobs'[j] = jobs[j]  BY <1>2 DEF JobMoves
<1>3. CASE j \in Fires(p)
  <2>1. configs[p][j] \in Configs  BY <1>3 DEF Fires, TypeOK
  <2>2. nxt[j] \in Times  BY NextDuesType
  <2> QED  BY <1>1, <1>2, <2>1, <2>2 DEF JobMoves
<1> QED  BY <1>1, <1>2, <1>3

LEMMA StartMovesJobs ==
  ASSUME TypeOK, NEW p \in Procs, StartWins(p), NEW j \in Jobs
  PROVE  JobMoves(j)
<1> DEFINE cfgs == IF yaml = Refused THEN Empty ELSE yaml
           rows(nxt) == IF yaml = Refused THEN jobs ELSE ReloadedJobs(yaml, nxt)
<1>1. PICK nxt \in [Jobs -> NextDues] : jobs' = Recovered(cfgs, rows(nxt), nxt)
  BY DEF StartWins
<1>2. cfgs[j] = NoConfig <=> yaml = Refused \/ yaml[j] = NoConfig  BY DEF Empty
<1>3. /\ nxt[j] \in Times
      /\ \/ rows(nxt)[j] = jobs[j]
         \/ \E cfg \in Configs : rows(nxt)[j] = Upserted(jobs[j], cfg, nxt[j])
  <2>1. CASE yaml = Refused  BY <2>1, NextDuesType
  <2>2. CASE yaml # Refused  BY <2>2, ReloadedRow
  <2> QED  BY <2>1, <2>2
<1> HIDE DEF cfgs, rows
<1>4. \/ jobs'[j] = rows(nxt)[j]
      \/ jobs'[j] = [rows(nxt)[j] EXCEPT !.due = nxt[j]]
      \/ jobs'[j] = [rows(nxt)[j] EXCEPT !.due = NoDue] /\ cfgs[j] = NoConfig
  BY <1>1 DEF Recovered
<1> QED  BY <1>2, <1>3, <1>4 DEF JobMoves

LEMMA SacctMovesJobs ==
  ASSUME TypeOK, NEW p \in Procs, SacctAnswers(p), NEW j \in Jobs
  PROVE  JobMoves(j)
<1> DEFINE ended == {k \in asked[p] : cluster[k] \in {"COMPLETED", "FAILED"}}
<1>1. PICK order \in SetToSeqs(ended), nxt \in [Jobs -> NextDues] :
        jobs' = [i \in Jobs |->
             IF \E k \in ended : k.job = i
             THEN [jobs[i] EXCEPT !.failures = Recount(i, order),
                                  !.due = IF configs[p][i] # NoConfig THEN nxt[i] ELSE NoDue]
             ELSE jobs[i]]
  BY DEF SacctAnswers
<1> HIDE DEF ended
<1>2. nxt[j] \in Times  BY NextDuesType
<1>3. \/ jobs'[j] = jobs[j]
      \/ jobs'[j] = [jobs[j] EXCEPT !.failures = Recount(j, order), !.due = nxt[j]]
      \/ /\ jobs'[j] = [jobs[j] EXCEPT !.failures = Recount(j, order), !.due = NoDue]
         /\ configs[p][j] = NoConfig
  BY <1>1
<1> QED  BY <1>2, <1>3 DEF JobMoves

LEMMA JobsMove ==
  ASSUME TypeOK, [Next]_vars, NEW j \in Jobs
  PROVE  JobMoves(j)
<1>0. jobs \in [Jobs -> JobRow]  BY DEF TypeOK
<1>1. CASE UNCHANGED jobs  BY <1>1 DEF JobMoves
<1>2. ASSUME NEW p \in Procs, ReloadYaml(p) PROVE JobMoves(j)
  <2>1. PICK nxt \in [Jobs -> NextDues] : jobs' = ReloadedJobs(yaml, nxt) /\ yaml # Refused
    BY <1>2 DEF ReloadYaml
  <2> QED  BY <2>1, ReloadedRow DEF JobMoves
<1>3. ASSUME NEW p \in Procs, NEW k \in Keys, NEW st \in Outcomes, Finish(p, k, st)
      PROVE  JobMoves(j)
  <2>1. PICK nxt \in NextDues :
          jobs' = [jobs EXCEPT ![k.job] = AutoDisabled(Finished(jobs[k.job], st, nxt), st)]
    BY <1>3 DEF Finish
  <2>2. \/ jobs'[j] = jobs[j]
        \/ jobs'[j] = AutoDisabled(Finished(jobs[j], st, nxt), st)
    BY <1>0, <2>1
  <2> QED  BY <2>2, NextDuesType DEF JobMoves
<1>4. ASSUME NEW p \in Procs, NEW k \in Keys, TaskStep(p, k) PROVE JobMoves(j)
  <2>1. UNCHANGED jobs \/ \E st \in Outcomes : Finish(p, k, st)
    BY <1>4 DEF TaskStep, TaskStart, Acquire, ExecEnds, UnknownKind, SbatchReturns, SbatchFails,
       Outcomes, db
  <2> QED  BY <1>1, <1>3, <2>1
<1>5. ASSUME NEW p \in Procs, NEW i \in Attended, Pause(p, i) PROVE JobMoves(j)
  <2>1. jobs'[j] \in {jobs[j], [jobs[j] EXCEPT !.enabled = FALSE]}
    BY <1>0, <1>5 DEF Pause
  <2> QED  BY <2>1 DEF JobMoves
<1>6. ASSUME NEW p \in Procs, NEW i \in Attended, Resume(p, i) PROVE JobMoves(j)
  <2>1. PICK nxt \in NextDues :
          jobs' = [jobs EXCEPT ![i] = IF configs[p][i] # NoConfig
                                      THEN Upserted(Reset(jobs[i]), configs[p][i], nxt)
                                      ELSE Reset(jobs[i])]
    BY <1>6 DEF Resume, Reset
  <2>2. \/ jobs'[j] \in {jobs[j], Reset(jobs[j])}
        \/ configs[p][j] # NoConfig /\ jobs'[j] = Upserted(Reset(jobs[j]), configs[p][j], nxt)
    BY <1>0, <2>1
  <2>3. nxt \in Times /\ configs[p][j] \in Configs \cup {NoConfig}
    BY NextDuesType DEF TypeOK
  <2> QED  BY <2>2, <2>3 DEF JobMoves
<1> QED
  BY <1>1, <1>2, <1>4, <1>5, <1>6, TickMovesJobs, StartMovesJobs, SacctMovesJobs
     DEF Next, Tock, EditYaml, OrphanExits, SlurmEnds, SlurmAccepts,
     StartLoses, Stop, Die, Dispatch, AskSacct, SacctFails, Manual, RunNow, db, vars

LEMMA DisableStep ==
  ASSUME TypeOK, AutoDisable, NoSlurmInv, Roomy, Roomy', [Next]_vars
  PROVE  AutoDisable'
<1> SUFFICES ASSUME NEW j \in Jobs PROVE Fit(jobs'[j])  BY DEF AutoDisable, Fit
<1>1. jobs[j] \in JobRow /\ Fit(jobs[j])  BY DEF TypeOK, AutoDisable, Fit
<1>2. Reset(jobs[j]) \in JobRow /\ Fit(Reset(jobs[j]))
  BY <1>1, FitRows, SchedulerAssumption DEF Reset, JobRow
<1>3. ASSUME NEW cfg \in Configs, NEW due \in Times
      PROVE  /\ Upserted(jobs[j], cfg, due) \in JobRow /\ Fit(Upserted(jobs[j], cfg, due))
             /\ Fit(Upserted(Reset(jobs[j]), cfg, due))
  BY <1>1, <1>2, FitRows, DueTypes
<1>4. ~\E p \in Procs : SacctAnswers(p)  BY DEF NoSlurmInv, SacctAnswers
<1>5. CASE \E p \in Procs : Tick(p)
  <2>1. PICK p \in Procs : Tick(p)  BY <1>5
  <2>2. PICK nxt \in [Jobs -> NextDues] :
          jobs' = [i \in Jobs |-> IF i \in Fires(p) THEN Upserted(jobs[i], configs[p][i], nxt[i])
                                  ELSE jobs[i]]
    BY <2>1, TickFits
  <2>3. jobs'[j] = jobs[j] \/ jobs'[j] = Upserted(jobs[j], configs[p][j], nxt[j])  BY <2>2
  <2> QED  BY <1>1, <2>3, FitRows
<1>6. ASSUME NEW row, NEW due \in Times,
             row = jobs[j] \/ \E cfg \in Configs : row = Upserted(jobs[j], cfg, due)
      PROVE  Fit([row EXCEPT !.due = due]) /\ Fit([row EXCEPT !.due = NoDue])
  <2>1. row \in JobRow /\ Fit(row)  BY <1>1, <1>3, <1>6
  <2> QED  BY <2>1, FitRows
<1>7. /\ Fit([jobs[j] EXCEPT !.enabled = FALSE])
      /\ \A due, st : Fit(AutoDisabled(Finished(jobs[j], st, due), st))
  BY <1>1, FitRows
<1>8. CASE \/ jobs'[j] = jobs[j] \/ jobs'[j] = [jobs[j] EXCEPT !.enabled = FALSE]
           \/ jobs'[j] = Reset(jobs[j])
  BY <1>1, <1>2, <1>7, <1>8
<1>9. CASE \E cfg \in Configs, due \in Times :
             jobs'[j] \in {Upserted(jobs[j], cfg, due), Upserted(Reset(jobs[j]), cfg, due)}
  BY <1>3, <1>9
<1>10. CASE \E due \in Times, st \in Outcomes :
              jobs'[j] = AutoDisabled(Finished(jobs[j], st, due), st)
  BY <1>7, <1>10
<1>11. CASE \E due \in Times : \E row :
              /\ row = jobs[j] \/ \E cfg \in Configs : row = Upserted(jobs[j], cfg, due)
              /\ \/ jobs'[j] = [row EXCEPT !.due = due]
                 \/ jobs'[j] = [row EXCEPT !.due = NoDue]
  BY <1>6, <1>11
<1>12. JobMoves(j)  BY JobsMove
<1> QED  BY <1>4, <1>5, <1>8, <1>9, <1>10, <1>11, <1>12 DEF JobMoves

(* A job that failed as often as the limit allows is disabled until it is  *)
(* resumed, in any number of processes whose queues never fill up and as   *)
(* long as no job is a SLURM job: the row of a run that finds no room, and *)
(* the verdict of sacct, count a failure without disabling the job.        *)
THEOREM FailingJobsStop == ASSUME NoSlurm PROVE Spec /\ []Roomy => []AutoDisable
<1>1. Init => AutoDisable /\ NoSlurmInv
  BY SchedulerAssumption DEF Init, AutoDisable, NoJob, NoSlurmInv, Empty, NoTask, NoRun
<1>2. TypeOK /\ NoSlurmInv /\ [Next]_vars => NoSlurmInv'  BY NoSlurmStep
<1>3. TypeOK /\ AutoDisable /\ NoSlurmInv /\ Roomy /\ Roomy' /\ [Next]_vars => AutoDisable'
  BY DisableStep
<1> QED  BY <1>1, <1>2, <1>3, TypeCorrect, PTL DEF Spec
-----------------------------------------------------------------------------
(* A configured job keeps a next_due.                                      *)

EveryJobListed == Refused \notin Yamls /\ Listed

Dated(row) == row.hash # NoConfig => row.due # NoDue
DatedInv ==
  /\ \A j \in Jobs : Dated(jobs[j])
  /\ \A p \in Procs : mode[p] = "active" =>
       \A j \in Jobs : configs[p][j] # NoConfig /\ jobs[j].hash # NoConfig

LEMMA DatedUpsert ==
  ASSUME NEW row \in JobRow, NEW cfg \in Configs, NEW due \in Times
  PROVE  /\ Dated(row) => Dated(Upserted(row, cfg, due))
         /\ Upserted(row, cfg, due).hash # NoConfig
<1>1. due # NoDue /\ cfg # NoConfig  BY SchedulerAssumption DEF Times, NoDue
<1> QED  BY <1>1 DEF Dated, Upserted, JobRow

LEMMA DatedDue ==
  ASSUME NEW row \in JobRow, NEW due \in Times
  PROVE  Dated([row EXCEPT !.due = due]) /\ [row EXCEPT !.due = due].hash = row.hash
<1>1. due # NoDue  BY SchedulerAssumption DEF Times, NoDue
<1> QED  BY <1>1 DEF Dated, JobRow

LEMMA DatedCount ==
  ASSUME NEW row \in JobRow, NEW due \in Times, NEW n
  PROVE  /\ Dated([row EXCEPT !.failures = n, !.due = due])
         /\ [row EXCEPT !.failures = n, !.due = due].hash = row.hash
<1>1. due # NoDue  BY SchedulerAssumption DEF Times, NoDue
<1> QED  BY <1>1 DEF Dated, JobRow

LEMMA DatedFinish ==
  ASSUME NEW row \in JobRow, NEW due \in Times, NEW st, NEW r, r = Finished(row, st, due)
  PROVE  /\ Dated(r) /\ r.hash = row.hash
         /\ Dated(AutoDisabled(r, st)) /\ AutoDisabled(r, st).hash = row.hash
<1>1. due # NoDue  BY SchedulerAssumption DEF Times, NoDue
<1>2. /\ r.hash = row.hash /\ r.due = due
      /\ AutoDisabled(r, st).hash = r.hash /\ AutoDisabled(r, st).due = r.due
  BY DEF Finished, AutoDisabled, JobRow
<1> QED  BY <1>1, <1>2 DEF Dated

LEMMA DatedJobs ==
  ASSUME EveryJobListed, WorkInv, DatedInv, [Next]_vars, NEW j \in Jobs
  PROVE  Dated(jobs'[j]) /\ (jobs[j].hash # NoConfig => jobs'[j].hash # NoConfig)
<1>1. jobs[j] \in JobRow /\ Dated(jobs[j])  BY DEF WorkInv, TypeOK, DatedInv
<1>2. /\ Reset(jobs[j]) \in JobRow /\ Dated(Reset(jobs[j])) /\ Reset(jobs[j]).hash = jobs[j].hash
      /\ Dated([jobs[j] EXCEPT !.enabled = FALSE])
      /\ [jobs[j] EXCEPT !.enabled = FALSE].hash = jobs[j].hash
  BY <1>1 DEF Reset, JobRow, Dated
<1>3. ASSUME NEW cfg \in Configs, NEW due \in Times
      PROVE  /\ Upserted(jobs[j], cfg, due) \in JobRow
             /\ Dated(Upserted(jobs[j], cfg, due)) /\ Upserted(jobs[j], cfg, due).hash # NoConfig
             /\ Dated(Upserted(Reset(jobs[j]), cfg, due))
             /\ Upserted(Reset(jobs[j]), cfg, due).hash # NoConfig
  BY <1>1, <1>2, DatedUpsert, DueTypes
<1>4. yaml # Refused /\ yaml[j] # NoConfig
  BY DEF EveryJobListed, Listed, Readable, WorkInv, TypeOK
<1>5. ASSUME NEW p \in Procs, SacctAnswers(p)  PROVE configs[p][j] # NoConfig
  BY <1>5 DEF SacctAnswers, WorkInv, AskedRows, DatedInv
<1>6. ASSUME NEW due \in Times, NEW st
      PROVE  /\ Dated(AutoDisabled(Finished(jobs[j], st, due), st))
             /\ AutoDisabled(Finished(jobs[j], st, due), st).hash = jobs[j].hash
  BY <1>1, DatedFinish
<1>7. ASSUME NEW due \in Times, NEW n
      PROVE  /\ Dated([jobs[j] EXCEPT !.failures = n, !.due = due])
             /\ [jobs[j] EXCEPT !.failures = n, !.due = due].hash = jobs[j].hash
  BY <1>1, DatedCount
<1>8. ASSUME NEW row, NEW due \in Times,
             row = jobs[j] \/ \E cfg \in Configs : row = Upserted(jobs[j], cfg, due)
      PROVE  /\ Dated([row EXCEPT !.due = due])
             /\ jobs[j].hash # NoConfig => [row EXCEPT !.due = due].hash # NoConfig
  <2>1. row \in JobRow /\ (jobs[j].hash # NoConfig => row.hash # NoConfig)
    BY <1>1, <1>3, <1>8
  <2> QED  BY <2>1, DatedDue
<1>9. ASSUME NEW cfg \in Configs, NEW due \in Times
       PROVE  /\ Dated(Finished(Upserted(jobs[j], cfg, due), "failure", due))
              /\ Finished(Upserted(jobs[j], cfg, due), "failure", due).hash # NoConfig
  BY <1>3, DatedFinish
<1>10. CASE \/ jobs'[j] = jobs[j] \/ jobs'[j] = [jobs[j] EXCEPT !.enabled = FALSE]
            \/ jobs'[j] = Reset(jobs[j])
  BY <1>1, <1>2, <1>10
<1>11. CASE \E cfg \in Configs, due \in Times :
              jobs'[j] \in {Upserted(jobs[j], cfg, due), Upserted(Reset(jobs[j]), cfg, due)}
  BY <1>3, <1>11
<1>12. CASE \E due \in Times, st \in Outcomes :
              jobs'[j] = AutoDisabled(Finished(jobs[j], st, due), st)
  BY <1>6, <1>12
<1>13. CASE \E due \in Times : \E row :
              /\ row = jobs[j] \/ \E cfg \in Configs : row = Upserted(jobs[j], cfg, due)
              /\ jobs'[j] = [row EXCEPT !.due = due]
  BY <1>8, <1>13
<1>14. CASE \E cfg \in Configs, due \in Times :
              jobs'[j] = Finished(Upserted(jobs[j], cfg, due), "failure", due)
  BY <1>9, <1>14
<1>15. CASE \E due \in Times : \E n : jobs'[j] = [jobs[j] EXCEPT !.failures = n, !.due = due]
  BY <1>7, <1>15
<1>16. JobMoves(j)  BY JobsMove DEF WorkInv
<1> QED
  BY <1>4, <1>5, <1>10, <1>11, <1>12, <1>13, <1>14, <1>15, <1>16 DEF JobMoves

LEMMA DatedStep ==
  ASSUME EveryJobListed, WorkInv, DatedInv, [Next]_vars
  PROVE  DatedInv'
<1>1. \A j \in Jobs : Dated(jobs'[j]) /\ (jobs[j].hash # NoConfig => jobs'[j].hash # NoConfig)
  BY DatedJobs
<1>2. ASSUME NEW p \in Procs, mode'[p] = "active"
      PROVE  \A j \in Jobs : configs'[p][j] # NoConfig /\ jobs'[j].hash # NoConfig
  <2>1. CASE StartWins(p)
    <3>1. PICK nxt \in [Jobs -> NextDues] :
            /\ jobs' = Recovered(yaml, ReloadedJobs(yaml, nxt), nxt)
            /\ configs' = [configs EXCEPT ![p] = yaml]
      BY <2>1 DEF StartWins, EveryJobListed, WorkInv, TypeOK
    <3>2. yaml \in Readable /\ configs'[p] = yaml
      BY <3>1 DEF EveryJobListed, Readable, WorkInv, TypeOK
    <3> SUFFICES ASSUME NEW j \in Jobs PROVE configs'[p][j] # NoConfig /\ jobs'[j].hash # NoConfig
      OBVIOUS
    <3>3. yaml[j] # NoConfig /\ yaml[j] \in Configs /\ nxt[j] \in Times /\ jobs[j] \in JobRow
      BY <3>2, YamlType, NextDuesType DEF EveryJobListed, Listed, Readable, WorkInv, TypeOK
    <3> DEFINE row == Upserted(jobs[j], yaml[j], nxt[j])
    <3>4. row \in JobRow /\ row.hash # NoConfig  BY <3>3, DatedUpsert, DueTypes
    <3>5. ReloadedJobs(yaml, nxt)[j] = row  BY <3>3 DEF ReloadedJobs
    <3>6. \/ jobs'[j] = row \/ jobs'[j] = [row EXCEPT !.due = nxt[j]]
      BY <3>1, <3>3, <3>5 DEF Recovered
    <3> HIDE DEF row
    <3>7. jobs'[j].hash # NoConfig  BY <3>3, <3>4, <3>6, DatedDue
    <3> QED  BY <3>2, <3>3, <3>7
  <2>2. CASE ~StartWins(p)
    <3>1. mode[p] = "active"
      <4>1. UNCHANGED mode \/ \E q \in Procs : StartWins(q) \/ StartLoses(q) \/ Stop(q) \/ Die(q)
        <5>1. ASSUME NEW q \in Procs, NEW k \in Keys, TaskStep(q, k)  PROVE UNCHANGED mode
          BY <5>1 DEF TaskStep, TaskStart, Acquire, ExecEnds, UnknownKind, SbatchReturns,
             SbatchFails, Finish, life
        <5>2. ASSUME NEW q \in Procs, NEW j \in Attended, Manual(q, j)  PROVE UNCHANGED mode
          BY <5>2 DEF Manual, RunNow, Pause, Resume, life
        <5>3. CASE Tock \/ UNCHANGED vars  BY <5>3 DEF Tock, life, vars
        <5> QED
          BY <5>1, <5>2, <5>3 DEF Next, EditYaml, OrphanExits, SlurmEnds, SlurmAccepts,
             ReloadYaml, Tick, Dispatch, AskSacct, SacctFails, SacctAnswers, life
      <4>2. mode \in [Procs -> {"down", "active", "loser", "stopped"}]  BY DEF WorkInv, TypeOK
      <4>3. ASSUME NEW q \in Procs, NEW m \in {"active", "loser", "stopped", "down"},
                   mode' = [mode EXCEPT ![q] = m], m = "active" => q # p
            PROVE  mode[p] = "active"
        BY <1>2, <4>2, <4>3
      <4> QED  BY <1>2, <2>2, <4>1, <4>3 DEF StartWins, StartLoses, Stop, Die
    <3>2. configs'[p] \in {configs[p]} \cup Readable
      <4>1. ~Emptied(p)
        BY <1>2, <2>2 DEF Emptied, Die, WorkInv, TypeOK
      <4> QED  BY <4>1, ConfigsFollow DEF WorkInv
    <3> QED  BY <1>1, <3>1, <3>2 DEF DatedInv, EveryJobListed, Listed
  <2> QED  BY <2>1, <2>2
<1> QED  BY <1>1, <1>2 DEF DatedInv

(* An active scheduler's configured jobs have a next_due, so none of them  *)
(* silently stops being scheduled, provided every state of jobs.yaml can   *)
(* be read and lists every job: the recovery of a job that jobs.yaml does  *)
(* not list at that moment clears its next_due.                            *)
THEOREM JobsStayScheduled == ASSUME EveryJobListed PROVE Spec => []StaysScheduled
<1>1. Init => DatedInv
  BY DEF Init, DatedInv, Dated, NoJob
<1>2. WorkInv /\ DatedInv /\ [Next]_vars => DatedInv'  BY DatedStep
<1>3. DatedInv => StaysScheduled  BY DEF DatedInv, Dated, StaysScheduled
<1> QED  BY <1>1, <1>2, <1>3, WorkInvariant, PTL DEF Spec
=============================================================================
