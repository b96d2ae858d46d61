--------------------------- MODULE SessionsProofs ---------------------------
(* Proofs about the parts of MCServices that keep conversations: the rescue *)
(* jobs, the codex sessions and the local sessions.                         *)
EXTENDS MCServices, FiniteSetTheorems, SequenceTheorems, WellFoundedInduction, TLAPS

(* A step of the services is a step of the component or leaves it alone.   *)
LEMMA SessionSteps ==
  [Next]_vars => [Rescue!Next]_rescueVars /\ [Codex!Next]_codexVars /\ [Local!Next]_localVars
BY DEF Next, vars, rescueVars, codexVars, localVars, RescueRuns, CodexRuns, LocalRuns,
       HttpRuns, GpuRuns, PeerRuns, EditsRuns

(* A finite set of numbers has a largest one: of the sets of those larger  *)
(* than a given one, one is minimal, and it is empty.                      *)
LEMMA LargestOfFinite ==
  ASSUME NEW S, IsFiniteSet(S), S \subseteq Nat, S # {}
  PROVE  \E n \in S : \A m \in S : m <= n
<1> DEFINE Above(n) == {m \in S : m > n}
           T == {Above(n) : n \in S}
<1>1. IsWellFoundedOn(StrictSubsetOrdering(S), FiniteSubsetsOf(S))
  BY FS_StrictSubsetOrderingWellFounded
<1>2. T \subseteq FiniteSubsetsOf(S) /\ T # {}
  <2>1. ASSUME NEW n \in S PROVE Above(n) \in FiniteSubsetsOf(S)
    <3>1. Above(n) \subseteq S  OBVIOUS
    <3> HIDE DEF Above
    <3>2. IsFiniteSet(Above(n))  BY <3>1, FS_Subset
    <3> QED  BY <3>1, <3>2 DEF FiniteSubsetsOf
  <2> HIDE DEF Above
  <2> QED  BY <2>1
<1>3. PICK x \in T : \A y \in T : <<y, x>> \notin StrictSubsetOrdering(S)
  <2> HIDE DEF T
  <2> QED  BY <1>1, <1>2, WFMin
<1>4. PICK n \in S : x = Above(n)  BY <1>3
<1>5. ASSUME NEW m \in S, m > n PROVE FALSE
  <2>1. Above(m) \subseteq Above(n) /\ Above(m) # Above(n)
    <3>1. m \in Above(n) /\ m \notin Above(m)  BY <1>5
    <3>2. ASSUME NEW k \in S, k > m PROVE k > n
      <4>1. k \in Nat /\ m \in Nat /\ n \in Nat  OBVIOUS
      <4> QED  BY <1>5, <3>2, <4>1
    <3>3. Above(m) \subseteq Above(n)  BY <3>2
    <3> QED  BY <3>1, <3>3
  <2>2. <<Above(m), x>> \in StrictSubsetOrdering(S)
    BY <1>4, <2>1 DEF StrictSubsetOrdering
  <2> QED  BY <1>3, <2>2
<1> QED  BY <1>5

-----------------------------------------------------------------------------
(* Rescue jobs.                                                            *)

(* A job that was not launched has left no trace; a record is behind every *)
(* task, and a task at work behind every process; a bridge that is down    *)
(* remembers nothing.                                                      *)
JobsAreLaunched ==
  \A j \in Jobs :
    /\ dir[j] = None => /\ jobs[j] = None /\ jobFile[j] = None
                        /\ task[j] = "none" /\ child[j] = "no"
    /\ jobs[j] = None => task[j] = "none"
    /\ ~alive => jobs[j] = None
TasksAreRunning ==
  \A j \in Jobs :
    /\ Rescue!Busy(j) => jobs[j].status = "running"
    /\ child[j] \in {"runs", "ok", "bad"} => task[j] \in {"runs", "cancelling"}
    /\ jobs[j] # None /\ jobs[j].status = "running" =>
         Rescue!Busy(j) \/ task[j] = "dead" \/ jobFile[j] = None

(* Ids are drawn in order.                                                 *)
JobsAreNumbered == \E n \in Nat : {j \in Jobs : dir[j] # None} = 1 .. n

(* What a record says, in memory or on disk: a job that runs has no end,   *)
(* its thread is the one it resumed or its own, and what it resumed        *)
(* without being told to is of its directory.                              *)
Credible(j, record) ==
  /\ record.status = "running" => record.finished = 0
  /\ record.thread \in {None, j, record.resume}
  /\ record.resume \notin moved \cup {None} => dir[record.resume] = dir[j]
RecordsAreCredible ==
  \A j \in Jobs : /\ jobs[j] # None => Credible(j, jobs[j])
                  /\ jobFile[j] # None => Credible(j, jobFile[j])

RescueInv ==
  Rescue!TypeOK /\ JobsAreLaunched /\ TasksAreRunning /\ JobsAreNumbered /\ RecordsAreCredible

LEMMA RescueCounts ==
  /\ \A S : Rescue!Cardinality(S) = Cardinality(S)
  /\ IsFiniteSet(Jobs) /\ Cardinality(Jobs) \in Nat
  /\ \A S \in SUBSET Jobs : /\ IsFiniteSet(S) /\ Cardinality(S) \in Nat
                            /\ Cardinality(S) <= Cardinality(Jobs)
                            /\ S # Jobs => Cardinality(S) < Cardinality(Jobs)
<1>1. ASSUME NEW S PROVE Rescue!Cardinality(S) = Cardinality(S)
  BY Zenon DEF Rescue!Cardinality, Cardinality
<1>2. IsFiniteSet(Jobs)  BY IdsAreFinite
<1>3. Cardinality(Jobs) \in Nat  BY <1>2, FS_CardinalityType
<1>4. ASSUME NEW S \in SUBSET Jobs
      PROVE  /\ IsFiniteSet(S) /\ Cardinality(S) \in Nat
             /\ Cardinality(S) <= Cardinality(Jobs)
             /\ S # Jobs => Cardinality(S) < Cardinality(Jobs)
  BY <1>2, FS_Subset, FS_CardinalityType
<1> QED  BY <1>1, <1>2, <1>3, <1>4

LEMMA RescueInit == Rescue!Init => RescueInv
<1> SUFFICES ASSUME Rescue!Init PROVE RescueInv  OBVIOUS
<1>1. Rescue!TypeOK
  <2>1. 0 \in 0 .. MaxCrashes /\ 0 \in 0 .. MaxFaults  BY BoundsAreNatural
  <2> QED  BY <2>1 DEF Rescue!Init, Rescue!TypeOK
<1>2. JobsAreLaunched /\ TasksAreRunning /\ RecordsAreCredible
  BY DEF Rescue!Init, JobsAreLaunched, TasksAreRunning, RecordsAreCredible, Rescue!Busy
<1>3. JobsAreNumbered
  <2>1. {j \in Jobs : dir[j] # None} = 1 .. 0  BY DEF Rescue!Init
  <2> QED  BY <2>1 DEF JobsAreNumbered
<1> QED  BY <1>1, <1>2, <1>3 DEF RescueInv

(* The place a job takes at its end is one of those there are.             *)
LEMMA StampFits ==
  ASSUME NEW j \in Jobs, jobs[j] # None, jobs[j].finished = 0, Rescue!TypeOK
  PROVE  Rescue!Stamp \in 0 .. Rescue!Cardinality(Jobs)
<1> DEFINE S == {k \in Rescue!Known : jobs[k].finished > 0}
<1>1. S \in SUBSET Jobs /\ j \notin S  BY DEF Rescue!Known
<1>2. Cardinality(S) \in Nat /\ Cardinality(S) < Cardinality(Jobs) /\ Cardinality(Jobs) \in Nat
  BY <1>1, RescueCounts
<1>3. Rescue!Cardinality(S) = Cardinality(S) /\ Rescue!Cardinality(Jobs) = Cardinality(Jobs)
  BY RescueCounts, Zenon
<1>4. Rescue!Stamp = 1 + Rescue!Cardinality(S)  BY DEF Rescue!Stamp
<1> HIDE DEF S
<1> QED  BY <1>2, <1>3, <1>4

(* The next id is of no job yet.                                           *)
LEMMA NextJob ==
  ASSUME RescueInv, NEW j \in Jobs, NEW d \in Dirs,
         j = Rescue!Cardinality({k \in Jobs : dir[k] # None}) + 1
  PROVE  /\ dir[j] = None
         /\ \E n \in Nat : {k \in Jobs : [dir EXCEPT ![j] = d][k] # None} = 1 .. n
<1> DEFINE S == {k \in Jobs : dir[k] # None}
<1>1. PICK n \in Nat : S = 1 .. n  BY DEF RescueInv, JobsAreNumbered
<1>2. Cardinality(1 .. n) = n
  <2>1. 1 \in Int /\ n \in Int /\ 1 <= n + 1  BY <1>1
  <2>2. Cardinality(1 .. n) = IF 1 > n THEN 0 ELSE n - 1 + 1  BY <1>1, FS_Interval
  <2> QED  BY <1>1, <2>2
<1>3. j = n + 1
  <2>1. Rescue!Cardinality(S) = Cardinality(S)  BY RescueCounts, Zenon
  <2> HIDE DEF S
  <2>2. j = Rescue!Cardinality(S) + 1  BY DEF S
  <2> QED  BY <1>1, <1>2, <2>1, <2>2
<1>4. dir[j] = None
  <2>1. j \notin 1 .. n  BY <1>3
  <2> QED  BY <1>1, <2>1
<1>5. {k \in Jobs : [dir EXCEPT ![j] = d][k] # None} = 1 .. (n + 1)
  <2>1. dir \in [Jobs -> Dirs \cup {None}]  BY DEF RescueInv, Rescue!TypeOK
  <2>2. d # None  BY NoneIsNoRecord
  <2>3. {k \in Jobs : [dir EXCEPT ![j] = d][k] # None} = S \cup {j}
    BY <2>1, <2>2
  <2>4. (1 .. n) \cup {n + 1} = 1 .. (n + 1)  OBVIOUS
  <2> QED  BY <1>1, <1>3, <2>3, <2>4
<1> QED  BY <1>3, <1>4, <1>5
(* A launch: the record is new, and what it resumes of its own accord is   *)
(* the thread of a job in the same directory.                              *)
LEMMA RescueLaunch ==
  ASSUME RescueInv,
         NEW d \in Dirs, NEW resume \in Jobs \cup {None}, NEW bad \in BOOLEAN, NEW ok \in BOOLEAN,
         Rescue!Launch(d, resume, bad, ok), moved' \in SUBSET Jobs, moved \subseteq moved',
         resume \notin moved' \cup {None} => dir[resume] = d
  PROVE  RescueInv'
<1> DEFINE S == {k \in Jobs : dir[k] # None}
           record == [status |-> "running", bad |-> bad, resume |-> resume,
                      thread |-> None, finished |-> 0]
<1>1. PICK new \in Jobs :
        /\ new = Rescue!Cardinality(S) + 1
        /\ alive
        /\ jobs' = [jobs EXCEPT ![new] = record] /\ dir' = [dir EXCEPT ![new] = d]
        /\ jobFile' = IF ok THEN [jobFile EXCEPT ![new] = record] ELSE jobFile
        /\ ok \/ rescueFaults < MaxFaults
        /\ rescueFaults' = IF ok THEN rescueFaults ELSE rescueFaults + 1
        /\ task' = IF ok THEN [task EXCEPT ![new] = "created"] ELSE task
        /\ UNCHANGED <<child, alive, rescueCrashes>>
  BY DEF Rescue!Launch, Rescue!Save
<1>2. dir[new] = None /\ \E n \in Nat : {k \in Jobs : [dir EXCEPT ![new] = d][k] # None} = 1 .. n
  <2>1. new = Rescue!Cardinality({k \in Jobs : dir[k] # None}) + 1  BY <1>1
  <2> HIDE DEF S
  <2> QED  BY <2>1, NextJob, Zenon
<1>3. record \in Rescue!Record
  <2>1. 0 \in 0 .. Rescue!Cardinality(Jobs)
    <3>1. Rescue!Cardinality(Jobs) = Cardinality(Jobs)  BY RescueCounts, Zenon
    <3> QED  BY <3>1, RescueCounts
  <2> QED  BY <2>1 DEF Rescue!Record
<1>4. PICK r : r = record  OBVIOUS
<1>13. r.status = "running" /\ r.finished = 0 /\ r.thread = None /\ r.resume = resume
  BY <1>4
<1>5. r # None /\ d # None  BY <1>3, <1>4, NoneIsNoRecord
<1>6. /\ jobs' = [jobs EXCEPT ![new] = r]
      /\ jobFile' = IF ok THEN [jobFile EXCEPT ![new] = r] ELSE jobFile
  BY <1>1, <1>4
<1>7. r \in Rescue!Record  BY <1>3, <1>4
<1> HIDE DEF record
<1>8. Rescue!TypeOK'
  <2>1. rescueFaults' \in 0 .. MaxFaults  BY <1>1, BoundsAreNatural DEF RescueInv, Rescue!TypeOK
  <2> QED  BY <1>1, <1>6, <1>7, <2>1 DEF RescueInv, Rescue!TypeOK
<1>9. JobsAreLaunched'
  BY <1>1, <1>2, <1>5, <1>6 DEF RescueInv, Rescue!TypeOK, JobsAreLaunched
<1>10. TasksAreRunning'
  BY <1>1, <1>2, <1>13, <1>6
  DEF RescueInv, Rescue!TypeOK, TasksAreRunning, JobsAreLaunched, Rescue!Busy
<1>11. JobsAreNumbered'  BY <1>1, <1>2 DEF JobsAreNumbered
<1>12. RecordsAreCredible'
  <2>2. Credible(new, r)'
    <3>1. resume \notin moved' \cup {None} => dir'[resume] = dir'[new]
      BY <1>1, <1>2, <1>5 DEF RescueInv, Rescue!TypeOK
    <3> QED  BY <1>13, <3>1 DEF Credible
  <2>3. ASSUME NEW j \in Jobs, j # new PROVE jobs'[j] = jobs[j] /\ jobFile'[j] = jobFile[j]
    BY <1>6, <2>3 DEF RescueInv, Rescue!TypeOK
  <2>4. ASSUME NEW j \in Jobs, j # new
        PROVE  /\ jobs'[j] # None => Credible(j, jobs[j])'
               /\ jobFile'[j] # None => Credible(j, jobFile[j])'
    <3>1. jobs[j] # None \/ jobFile[j] # None => dir[j] # None
      BY DEF RescueInv, JobsAreLaunched
    <3>2. jobs[j] # None => Credible(j, jobs[j])  BY DEF RescueInv, RecordsAreCredible
    <3>3. jobFile[j] # None => Credible(j, jobFile[j])  BY DEF RescueInv, RecordsAreCredible
    <3>4. ASSUME NEW q \in Rescue!Record, Credible(j, q), dir[j] # None
          PROVE  /\ q.status = "running" => q.finished = 0
                 /\ q.thread \in {None, j, q.resume}
                 /\ q.resume \notin moved' \cup {None} => dir'[q.resume] = dir'[j]
      BY <3>4, <2>4, <1>1, <1>2 DEF Credible, RescueInv, Rescue!TypeOK, Rescue!Record
    <3>5. jobs[j] \in Rescue!Record \cup {None} /\ jobFile[j] \in Rescue!Record \cup {None}
      BY DEF RescueInv, Rescue!TypeOK
    <3> QED  BY <2>3, <2>4, <3>1, <3>2, <3>3, <3>4, <3>5 DEF Credible
  <2>5. jobs'[new] = r /\ jobFile'[new] \in {r, None}
    BY <1>1, <1>2, <1>6 DEF RescueInv, Rescue!TypeOK, JobsAreLaunched
  <2>6. /\ jobs'[new] # None => Credible(new, jobs[new])'
        /\ jobFile'[new] # None => Credible(new, jobFile[new])'
    BY <2>2, <2>5 DEF Credible
  <2> QED  BY <2>4, <2>6 DEF RecordsAreCredible
<1> QED  BY <1>8, <1>9, <1>10, <1>11, <1>12 DEF RescueInv

(* A record that is written over by a final one.                           *)
LEMMA RescueOver ==
  ASSUME RescueInv, NEW j \in Jobs, NEW ok \in BOOLEAN, NEW status \in Rescue!Final,
         NEW thread_ \in {None, j, jobs[j].resume} \cup {jobs[j].thread},
         jobs[j] # None, jobs[j].status = "running",
         jobs' = [jobs EXCEPT ![j] = [jobs[j] EXCEPT !.status = status, !.thread = thread_,
                                                     !.finished = Rescue!Stamp]],
         Rescue!Save(j, [jobs[j] EXCEPT !.status = status, !.thread = thread_,
                                        !.finished = Rescue!Stamp], ok),
         task' \in [Jobs -> {"none", "created", "runs", "cancelling", "done", "dead"}],
         \A k \in Jobs \ {j} : task'[k] = task[k] /\ child'[k] = child[k],
         ~Rescue!Busy(j)', task[j] = "none" => task'[j] = "none",
         child' \in [Jobs -> {"no", "runs", "ok", "bad", "orphan"}],
         child'[j] \in {"no", "orphan"}, child[j] = "no" => child'[j] = "no",
         alive, UNCHANGED <<dir, alive, moved, rescueCrashes>>
  PROVE  RescueInv'
<1>1. /\ jobs \in [Jobs -> Rescue!Record \cup {None}] /\ jobs[j] \in Rescue!Record
      /\ jobFile \in [Jobs -> Rescue!Record \cup {None}]
  BY DEF RescueInv, Rescue!TypeOK
<1>2. Credible(j, jobs[j])  BY DEF RescueInv, RecordsAreCredible
<1>3. PICK r : r = [jobs[j] EXCEPT !.status = status, !.thread = thread_,
                                   !.finished = Rescue!Stamp]
  OBVIOUS
<1>4. /\ r.status = status /\ r.thread = thread_ /\ r.resume = jobs[j].resume
  BY <1>1, <1>3 DEF Rescue!Record
<1>5. thread_ \in {None, j, jobs[j].resume}  BY <1>2 DEF Credible
<1>6. r \in Rescue!Record
  <2>1. jobs[j].finished = 0  BY <1>2 DEF Credible
  <2>2. Rescue!Stamp \in 0 .. Rescue!Cardinality(Jobs)
    BY <2>1, StampFits DEF RescueInv
  <2>3. thread_ \in Jobs \cup {None}  BY <1>1, <1>5 DEF Rescue!Record
  <2> QED  BY <1>1, <1>3, <2>2, <2>3 DEF Rescue!Record, Rescue!Final
<1>7. r # None /\ r.status # "running"  BY <1>4, <1>6, NoneIsNoRecord DEF Rescue!Final
<1>8. /\ jobs' = [jobs EXCEPT ![j] = r]
      /\ jobFile' = IF ok THEN [jobFile EXCEPT ![j] = r] ELSE jobFile
      /\ ok \/ rescueFaults < MaxFaults
      /\ rescueFaults' = IF ok THEN rescueFaults ELSE rescueFaults + 1
  BY <1>3 DEF Rescue!Save
<1>9. Credible(j, r)  BY <1>2, <1>4, <1>5, <1>7 DEF Credible
<1>10. Rescue!TypeOK'
  <2>1. rescueFaults' \in 0 .. MaxFaults
    BY <1>8, BoundsAreNatural DEF RescueInv, Rescue!TypeOK
  <2> QED  BY <1>1, <1>6, <1>8, <2>1 DEF RescueInv, Rescue!TypeOK
<1>11. JobsAreLaunched'
  BY <1>1, <1>7, <1>8 DEF RescueInv, JobsAreLaunched
<1>12. TasksAreRunning'
  <2>1. ASSUME NEW k \in Jobs \ {j}
        PROVE  /\ task'[k] = task[k] /\ child'[k] = child[k]
               /\ jobs'[k] = jobs[k] /\ jobFile'[k] = jobFile[k]
    BY <1>1, <1>8
  <2>2. jobs'[j] = r  BY <1>1, <1>8
  <2> DEFINE Right(k) ==
        /\ Rescue!Busy(k) => jobs[k].status = "running"
        /\ child[k] \in {"runs", "ok", "bad"} => task[k] \in {"runs", "cancelling"}
        /\ jobs[k] # None /\ jobs[k].status = "running" =>
             Rescue!Busy(k) \/ task[k] = "dead" \/ jobFile[k] = None
  <2>3. ASSUME NEW k \in Jobs \ {j} PROVE Right(k)'
    BY <2>1 DEF RescueInv, TasksAreRunning, Rescue!Busy
  <2>4. Right(j)'  BY <1>7, <2>2
  <2>5. \A k \in Jobs : Right(k)'  BY <2>3, <2>4
  <2> QED  BY <2>5 DEF TasksAreRunning
<1>13. JobsAreNumbered'  BY DEF RescueInv, JobsAreNumbered
<1>14. RecordsAreCredible'
  <2>1. \A q : \A k \in Jobs : Credible(k, q)' <=> Credible(k, q)  BY DEF Credible
  <2>2. ASSUME NEW k \in Jobs
        PROVE  /\ jobs'[k] = IF k = j THEN r ELSE jobs[k]
               /\ jobFile'[k] \in {jobs'[k], jobFile[k]} /\ (k # j => jobFile'[k] = jobFile[k])
    BY <1>1, <1>8
  <2>3. ASSUME NEW k \in Jobs
        PROVE  /\ jobs'[k] # None => Credible(k, jobs'[k])
               /\ jobFile'[k] # None => Credible(k, jobFile'[k])
    BY <1>9, <2>2 DEF RescueInv, RecordsAreCredible
  <2>4. ASSUME NEW k \in Jobs
        PROVE  /\ jobs'[k] # None => Credible(k, jobs[k])'
               /\ jobFile'[k] # None => Credible(k, jobFile[k])'
    BY <2>3 DEF Credible
  <2> QED  BY <2>4 DEF RecordsAreCredible
<1> QED  BY <1>10, <1>11, <1>12, <1>13, <1>14 DEF RescueInv

(* A task at work has a record that runs.                                  *)
LEMMA BusyRuns ==
  ASSUME RescueInv, NEW j \in Jobs, Rescue!Busy(j)
  PROVE  jobs[j] # None /\ jobs[j] \in Rescue!Record /\ jobs[j].status = "running"
BY DEF RescueInv, Rescue!TypeOK, JobsAreLaunched, TasksAreRunning, Rescue!Busy

(* The end of a task.                                                      *)
LEMMA RescueEnd ==
  ASSUME RescueInv, NEW j \in Jobs, NEW ok \in BOOLEAN, NEW status \in Rescue!Final,
         NEW thread_ \in {None, j, jobs[j].resume} \cup {jobs[j].thread},
         Rescue!Busy(j), Rescue!End(j, status, thread_, ok),
         \/ child' = [child EXCEPT ![j] = "no"]
         \/ child' = child /\ task[j] = "created",
         alive, UNCHANGED <<dir, alive, moved, rescueCrashes>>
  PROVE  RescueInv'
<1>1. jobs[j] # None /\ jobs[j] \in Rescue!Record /\ jobs[j].status = "running"  BY BusyRuns
<1>2. /\ task' = [task EXCEPT ![j] = "done"]
      /\ task \in [Jobs -> {"none", "created", "runs", "cancelling", "done", "dead"}]
      /\ child \in [Jobs -> {"no", "runs", "ok", "bad", "orphan"}]
      /\ child[j] \in {"runs", "ok", "bad"} => task[j] \in {"runs", "cancelling"}
  BY DEF Rescue!End, RescueInv, Rescue!TypeOK, TasksAreRunning
<1>3. /\ task' \in [Jobs -> {"none", "created", "runs", "cancelling", "done", "dead"}]
      /\ child' \in [Jobs -> {"no", "runs", "ok", "bad", "orphan"}]
      /\ \A k \in Jobs \ {j} : task'[k] = task[k] /\ child'[k] = child[k]
      /\ ~Rescue!Busy(j)' /\ task[j] # "none"
      /\ child'[j] \in {"no", "orphan"} /\ (child[j] = "no" => child'[j] = "no")
  BY <1>2 DEF Rescue!Busy
<1>4. /\ jobs' = [jobs EXCEPT ![j] = [jobs[j] EXCEPT !.status = status, !.thread = thread_,
                                                     !.finished = Rescue!Stamp]]
      /\ Rescue!Save(j, [jobs[j] EXCEPT !.status = status, !.thread = thread_,
                                        !.finished = Rescue!Stamp], ok)
  BY DEF Rescue!End
<1> QED  BY <1>1, <1>3, <1>4, RescueOver

LEMMA RescueLaunches ==
  ASSUME RescueInv, NEW d \in Dirs, NEW ok \in BOOLEAN,
         \/ \E bad \in BOOLEAN : Rescue!Rescue(d, bad, ok) \/ Rescue!Fresh(d, bad, ok)
         \/ \E t \in Jobs : Rescue!Resume(d, t, ok)
  PROVE  RescueInv'
<1>1. moved \in SUBSET Jobs  BY DEF RescueInv, Rescue!TypeOK
<1>2. ASSUME NEW bad \in BOOLEAN, Rescue!Rescue(d, bad, ok) PROVE RescueInv'
  <2>1. /\ Rescue!Launch(d, Rescue!Latest(d), bad, ok) /\ moved' = moved
    BY <1>2 DEF Rescue!Rescue
  <2>2. /\ Rescue!Latest(d) \in Jobs \cup {None}
        /\ Rescue!Latest(d) \notin moved \cup {None} => dir[Rescue!Latest(d)] = d
    <3>1. CASE Rescue!Recent(d) = {}  BY <3>1 DEF Rescue!Latest
    <3>2. CASE Rescue!Recent(d) # {}
      <4>1. PICK j : Rescue!Latest(d) = jobs[j].thread /\ j \in Rescue!Recent(d)
        <5> DEFINE Newest(j) == \A k \in Rescue!Recent(d) : jobs[k].finished <= jobs[j].finished
        <5>1. \E j \in Rescue!Recent(d) : Newest(j)
          <6>1. Rescue!Recent(d) \in SUBSET Jobs  BY DEF Rescue!Recent, Rescue!Known
          <6>2. PICK n : n \in Nat /\ n = Rescue!Cardinality(Jobs)
            <7>1. Rescue!Cardinality(Jobs) = Cardinality(Jobs)  BY RescueCounts, Zenon
            <7> QED  BY <7>1, RescueCounts
          <6>3. \A j \in Rescue!Recent(d) : jobs[j].finished \in 0 .. n
            <7>1. \A j \in Rescue!Recent(d) : jobs[j] \in Rescue!Record
              BY DEF RescueInv, Rescue!TypeOK, Rescue!Recent, Rescue!Known
            <7> QED  BY <6>2, <7>1 DEF Rescue!Record
          <6> DEFINE times == {jobs[j].finished : j \in Rescue!Recent(d)}
          <6>4. times \in SUBSET Nat /\ times # {} /\ IsFiniteSet(times)
            <7>1. times \in SUBSET (0 .. n) /\ times # {}  BY <3>2, <6>3
            <7> HIDE DEF times
            <7>2. IsFiniteSet(0 .. n)  BY <6>2, FS_Interval
            <7>3. IsFiniteSet(times)  BY <7>1, <7>2, FS_Subset
            <7> QED  BY <7>1, <7>3, <6>2
          <6>5. \E x \in times : \A m \in times : m <= x  BY <6>4, LargestOfFinite
          <6> QED  BY <6>5
        <5> DEFINE j == CHOOSE j \in Rescue!Recent(d) : Newest(j)
        <5>2. j \in Rescue!Recent(d)  BY <5>1
        <5>3. Rescue!Latest(d) = jobs[j].thread  BY <3>2 DEF Rescue!Latest
        <5> QED  BY <5>2, <5>3
      <4>2. /\ j \in Jobs /\ jobs[j] # None /\ dir[j] = d
            /\ jobs[j] \in Rescue!Record /\ jobs[j].thread # None
        BY <4>1 DEF Rescue!Recent, Rescue!Known, RescueInv, Rescue!TypeOK
      <4>3. Credible(j, jobs[j])  BY <4>2 DEF RescueInv, RecordsAreCredible
      <4> QED  BY <4>1, <4>2, <4>3 DEF Credible, Rescue!Record
    <3> QED  BY <3>1, <3>2
  <2> QED  BY <1>1, <2>1, <2>2, RescueLaunch
<1>3. ASSUME NEW bad \in BOOLEAN, Rescue!Fresh(d, bad, ok) PROVE RescueInv'
  <2>1. Rescue!Launch(d, None, bad, ok) /\ moved' = moved  BY <1>3 DEF Rescue!Fresh
  <2> QED  BY <1>1, <2>1, RescueLaunch
<1>4. ASSUME NEW t \in Jobs, Rescue!Resume(d, t, ok) PROVE RescueInv'
  <2>1. Rescue!Launch(d, t, FALSE, ok) /\ moved' = moved \cup {t}  BY <1>4 DEF Rescue!Resume
  <2>2. moved' \in SUBSET Jobs /\ moved \subseteq moved' /\ t \in moved'  BY <1>1, <2>1
  <2> QED  BY <2>1, <2>2, RescueLaunch
<1> QED  BY <1>2, <1>3, <1>4

(* One step of a task.                                                     *)
LEMMA RescueBody ==
  ASSUME RescueInv, NEW j \in Jobs, Rescue!Body(j)
  PROVE  RescueInv'
<1>1. /\ jobs \in [Jobs -> Rescue!Record \cup {None}]
      /\ jobFile \in [Jobs -> Rescue!Record \cup {None}]
      /\ task \in [Jobs -> {"none", "created", "runs", "cancelling", "done", "dead"}]
      /\ child \in [Jobs -> {"no", "runs", "ok", "bad", "orphan"}]
      /\ rescueFaults \in 0 .. MaxFaults /\ MaxFaults \in Nat
  BY BoundsAreNatural DEF RescueInv, Rescue!TypeOK
<1>2. CASE Rescue!Unsaved(j)
  <2>1. /\ task[j] = "created" /\ task' = [task EXCEPT ![j] = "dead"]
        /\ rescueFaults' \in 0 .. MaxFaults
        /\ UNCHANGED <<jobs, jobFile, dir, child, alive, moved, rescueCrashes>>
    BY <1>1, <1>2 DEF Rescue!Unsaved, Rescue!Save
  <2>2. Rescue!TypeOK' /\ JobsAreNumbered' /\ RecordsAreCredible'
    BY <1>1, <2>1
    DEF RescueInv, Rescue!TypeOK, JobsAreNumbered, RecordsAreCredible, Credible
  <2>3. JobsAreLaunched' /\ TasksAreRunning'
    BY <1>1, <2>1 DEF RescueInv, JobsAreLaunched, TasksAreRunning, Rescue!Busy
  <2> QED  BY <2>2, <2>3 DEF RescueInv
<1>3. CASE Rescue!Spawn(j)
  <2>1. /\ task[j] = "created" /\ task' = [task EXCEPT ![j] = "runs"]
        /\ child' = [child EXCEPT ![j] = "runs"] /\ jobFile' = [jobFile EXCEPT ![j] = jobs[j]]
        /\ UNCHANGED <<jobs, dir, alive, moved, rescueCrashes, rescueFaults>>
    BY <1>3 DEF Rescue!Spawn, Rescue!Save
  <2>2. jobs[j] # None /\ jobs[j] \in Rescue!Record /\ jobs[j].status = "running"
    BY <2>1, BusyRuns DEF Rescue!Busy
  <2>3. Rescue!TypeOK' /\ JobsAreNumbered'
    BY <1>1, <2>1, <2>2 DEF RescueInv, Rescue!TypeOK, JobsAreNumbered
  <2>4. JobsAreLaunched' /\ TasksAreRunning'
    BY <1>1, <2>1, <2>2 DEF RescueInv, JobsAreLaunched, TasksAreRunning, Rescue!Busy
  <2>5. RecordsAreCredible'
    BY <1>1, <2>1, <2>2 DEF RescueInv, RecordsAreCredible, Credible
  <2> QED  BY <2>3, <2>4, <2>5 DEF RescueInv
<1>4. ASSUME NEW ok \in BOOLEAN, Rescue!Refused(j, ok) PROVE RescueInv'
  <2>1. /\ alive /\ task[j] = "created" /\ Rescue!End(j, "failed", None, ok)
        /\ UNCHANGED <<dir, child, alive, moved, rescueCrashes>>
    BY <1>4 DEF Rescue!Refused
  <2> QED  BY <2>1, RescueEnd DEF Rescue!Busy, Rescue!Final
<1>5. ASSUME NEW ok \in BOOLEAN, Rescue!Ends(j, ok) PROVE RescueInv'
  <2>1. PICK t \in Rescue!Reported(j) :
          /\ alive /\ task[j] = "runs"
          /\ Rescue!End(j, IF child[j] = "ok" THEN "completed" ELSE "failed", t, ok)
          /\ child' = [child EXCEPT ![j] = "no"]
          /\ UNCHANGED <<dir, alive, moved, rescueCrashes>>
    BY <1>5 DEF Rescue!Ends
  <2>2. PICK status \in Rescue!Final :
          status = IF child[j] = "ok" THEN "completed" ELSE "failed"
    BY DEF Rescue!Final
  <2>3. t \in {None, j, jobs[j].resume} \cup {jobs[j].thread}  BY <2>1 DEF Rescue!Reported
  <2>4. Rescue!End(j, status, t, ok)  BY <2>1, <2>2
  <2> QED  BY <2>1, <2>3, <2>4, RescueEnd DEF Rescue!Busy
<1>6. ASSUME NEW ok \in BOOLEAN, Rescue!TimesOut(j, ok) PROVE RescueInv'
  <2>1. /\ alive /\ task[j] = "runs" /\ Rescue!End(j, "failed", None, ok)
        /\ child' = [child EXCEPT ![j] = "no"]
        /\ UNCHANGED <<dir, alive, moved, rescueCrashes>>
    BY <1>6 DEF Rescue!TimesOut
  <2> QED  BY <2>1, RescueEnd DEF Rescue!Busy, Rescue!Final
<1>7. ASSUME NEW ok \in BOOLEAN, Rescue!Cancelled(j, ok) PROVE RescueInv'
  <2>1. /\ alive /\ task[j] = "cancelling" /\ Rescue!End(j, "cancelled", jobs[j].thread, ok)
        /\ child' = [child EXCEPT ![j] = "no"]
        /\ UNCHANGED <<dir, alive, moved, rescueCrashes>>
    BY <1>7 DEF Rescue!Cancelled, Rescue!Kill
  <2> QED  BY <2>1, RescueEnd DEF Rescue!Busy, Rescue!Final
<1> QED  BY <1>2, <1>3, <1>4, <1>5, <1>6, <1>7 DEF Rescue!Body
LEMMA RescueCancel ==
  ASSUME RescueInv, NEW j \in Jobs, NEW ok \in BOOLEAN, Rescue!Cancel(j, ok)
  PROVE  RescueInv'
<1>1. /\ jobs \in [Jobs -> Rescue!Record \cup {None}]
      /\ jobFile \in [Jobs -> Rescue!Record \cup {None}]
      /\ task \in [Jobs -> {"none", "created", "runs", "cancelling", "done", "dead"}]
      /\ child \in [Jobs -> {"no", "runs", "ok", "bad", "orphan"}]
  BY DEF RescueInv, Rescue!TypeOK
<1>2. /\ alive /\ jobs[j] # None /\ jobs[j].status = "running" /\ jobs[j] \in Rescue!Record
      /\ UNCHANGED <<dir, child, alive, moved, rescueCrashes>>
  BY <1>1 DEF Rescue!Cancel, Rescue!Known
<1>3. CASE Rescue!Request(j)
  <2>1. /\ task[j] \in {"created", "runs", "cancelling"}
        /\ task' = [task EXCEPT ![j] = IF task[j] = "created" THEN "dead" ELSE "cancelling"]
        /\ UNCHANGED <<jobs, jobFile, rescueFaults>>
    BY <1>3 DEF Rescue!Request, Rescue!Busy
  <2>2. Rescue!TypeOK' /\ JobsAreNumbered' /\ RecordsAreCredible'
    BY <1>1, <1>2, <2>1
    DEF RescueInv, Rescue!TypeOK, JobsAreNumbered, RecordsAreCredible, Credible
  <2>3. JobsAreLaunched' /\ TasksAreRunning'
    BY <1>1, <1>2, <2>1 DEF RescueInv, JobsAreLaunched, TasksAreRunning, Rescue!Busy
  <2> QED  BY <2>2, <2>3 DEF RescueInv
<1>4. CASE Rescue!Mark(j, ok)
  <2> DEFINE record == [jobs[j] EXCEPT !.status = "cancelled", !.finished = Rescue!Stamp]
             full == [jobs[j] EXCEPT !.status = "cancelled", !.thread = jobs[j].thread,
                                     !.finished = Rescue!Stamp]
  <2>1. record = full  BY <1>2 DEF Rescue!Record
  <2>2. /\ ~Rescue!Busy(j) /\ jobs' = [jobs EXCEPT ![j] = record]
        /\ Rescue!Save(j, record, ok) /\ task' = task
    BY <1>4 DEF Rescue!Mark
  <2>3. jobs' = [jobs EXCEPT ![j] = full] /\ Rescue!Save(j, full, ok)  BY <2>1, <2>2
  <2>4. child[j] \in {"no", "orphan"}
    BY <1>1, <2>2 DEF RescueInv, TasksAreRunning, Rescue!Busy
  <2>5. ~Rescue!Busy(j)'  BY <2>2 DEF Rescue!Busy
  <2>6. "cancelled" \in Rescue!Final  BY DEF Rescue!Final
  <2> QED  BY <1>1, <1>2, <2>2, <2>3, <2>4, <2>5, <2>6, RescueOver
<1> QED  BY <1>3, <1>4 DEF Rescue!Cancel

LEMMA RescueExits ==
  ASSUME RescueInv, NEW j \in Jobs, NEW code \in {"ok", "bad"}, Rescue!Exits(j, code)
  PROVE  RescueInv'
<1>1. /\ child[j] = "runs" /\ child' = [child EXCEPT ![j] = code]
      /\ UNCHANGED <<jobs, jobFile, dir, task, alive, moved, rescueCrashes, rescueFaults>>
  BY DEF Rescue!Exits
<1> QED
  BY <1>1 DEF RescueInv, Rescue!TypeOK, JobsAreLaunched, TasksAreRunning, JobsAreNumbered,
              RecordsAreCredible, Credible, Rescue!Busy

LEMMA RescueCrash == RescueInv /\ Rescue!Crash => RescueInv'
<1> SUFFICES ASSUME RescueInv, Rescue!Crash PROVE RescueInv'  OBVIOUS
<1>1. /\ alive' = FALSE /\ rescueCrashes' = rescueCrashes + 1 /\ rescueCrashes < MaxCrashes
      /\ jobs' = [j \in Jobs |-> None] /\ task' = [j \in Jobs |-> "none"]
      /\ child' = [j \in Jobs |-> IF child[j] \in {"runs", "orphan"} THEN "orphan" ELSE "no"]
      /\ UNCHANGED <<jobFile, dir, moved, rescueFaults>>
  BY DEF Rescue!Crash
<1>2. Rescue!TypeOK'
  <2>1. rescueCrashes' \in 0 .. MaxCrashes
    BY <1>1, BoundsAreNatural DEF RescueInv, Rescue!TypeOK
  <2> QED  BY <1>1, <2>1 DEF RescueInv, Rescue!TypeOK
<1>3. JobsAreLaunched' /\ TasksAreRunning'
  BY <1>1 DEF RescueInv, JobsAreLaunched, TasksAreRunning, Rescue!Busy
<1>4. JobsAreNumbered' /\ RecordsAreCredible'
  BY <1>1 DEF RescueInv, JobsAreNumbered, RecordsAreCredible, Credible
<1> QED  BY <1>2, <1>3, <1>4 DEF RescueInv

(* The records that come back from the files are over.                     *)
LEMMA RescueLoad ==
  ASSUME RescueInv, NEW skipped \in SUBSET Jobs, Rescue!Load(skipped)
  PROVE  RescueInv'
<1>1. PICK last :
        /\ last = Rescue!Cardinality({j \in Jobs : jobFile[j] # None})
        /\ jobs' = [j \in Jobs |-> IF j \in skipped THEN None
                                   ELSE Rescue!Loaded(jobFile[j], last)]
        /\ jobFile' = [j \in Jobs |-> IF j \in skipped THEN jobFile[j]
                                      ELSE Rescue!Loaded(jobFile[j], last)]
  BY DEF Rescue!Load
<1>2. /\ ~alive /\ alive' = TRUE
      /\ rescueFaults + Rescue!Cardinality(skipped) <= MaxFaults
      /\ rescueFaults' = rescueFaults + Rescue!Cardinality(skipped)
      /\ UNCHANGED <<dir, task, child, moved, rescueCrashes>>
  BY DEF Rescue!Load
<1>3. /\ jobFile \in [Jobs -> Rescue!Record \cup {None}]
      /\ \A j \in Jobs : jobs[j] = None /\ task[j] = "none"
      /\ \A j \in Jobs : child[j] \notin {"runs", "ok", "bad"}
  <2>1. \A j \in Jobs : jobs[j] = None /\ task[j] = "none"
    BY <1>2 DEF RescueInv, JobsAreLaunched
  <2> QED  BY <2>1 DEF RescueInv, Rescue!TypeOK, TasksAreRunning
<1>4. last \in 0 .. Rescue!Cardinality(Jobs)
  <2> DEFINE S == {j \in Jobs : jobFile[j] # None}
  <2>1. S \in SUBSET Jobs  OBVIOUS
  <2>2. last = Rescue!Cardinality(S)  BY <1>1
  <2> HIDE DEF S
  <2>3. /\ Cardinality(S) \in Nat /\ Cardinality(S) <= Cardinality(Jobs)
        /\ Cardinality(Jobs) \in Nat
    BY <2>1, RescueCounts
  <2>4. Rescue!Cardinality(S) = Cardinality(S) /\ Rescue!Cardinality(Jobs) = Cardinality(Jobs)
    BY RescueCounts, Zenon
  <2> QED  BY <2>2, <2>3, <2>4
<1>5. ASSUME NEW j \in Jobs
      PROVE  LET q == Rescue!Loaded(jobFile[j], last)
             IN  /\ q \in Rescue!Record \cup {None}
                 /\ q = None <=> jobFile[j] = None
                 /\ q # None => q.status # "running" /\ Credible(j, q)
  <2>1. jobFile[j] # None => jobFile[j] \in Rescue!Record /\ Credible(j, jobFile[j])
    BY <1>3 DEF RescueInv, RecordsAreCredible
  <2>2. CASE jobFile[j] # None /\ jobFile[j].status = "running"
    <3> DEFINE q == [jobFile[j] EXCEPT !.status = "failed", !.finished = last]
    <3>1. /\ q \in Rescue!Record /\ q.status = "failed"
          /\ q.thread = jobFile[j].thread /\ q.resume = jobFile[j].resume
      BY <1>4, <2>1, <2>2 DEF Rescue!Record, Rescue!Final
    <3>2. Rescue!Loaded(jobFile[j], last) = q  BY <2>2 DEF Rescue!Loaded
    <3>3. q # None  BY <3>1, NoneIsNoRecord
    <3>4. Credible(j, q)
      <4> HIDE DEF q
      <4> QED  BY <2>1, <2>2, <3>1 DEF Credible
    <3> HIDE DEF q
    <3> QED  BY <2>2, <3>1, <3>2, <3>3, <3>4
  <2>3. CASE ~(jobFile[j] # None /\ jobFile[j].status = "running")
    <3>1. Rescue!Loaded(jobFile[j], last) = jobFile[j]  BY <2>3 DEF Rescue!Loaded
    <3> QED  BY <1>3, <2>1, <2>3, <3>1
  <2> QED  BY <2>2, <2>3
<1>6. ASSUME NEW j \in Jobs
      PROVE  /\ jobs'[j] \in Rescue!Record \cup {None}
             /\ jobFile'[j] \in Rescue!Record \cup {None}
             /\ jobs'[j] # None => jobs'[j].status # "running" /\ Credible(j, jobs'[j])
             /\ jobFile'[j] # None => Credible(j, jobFile'[j])
             /\ jobFile[j] = None => jobs'[j] = None /\ jobFile'[j] = None
  <2>1. jobFile[j] # None => Credible(j, jobFile[j])
    BY DEF RescueInv, RecordsAreCredible
  <2>2. jobFile[j] \in Rescue!Record \cup {None}  BY <1>3
  <2>3. CASE j \in skipped
    <3>1. jobs'[j] = None /\ jobFile'[j] = jobFile[j]  BY <1>1, <2>3
    <3> QED  BY <2>1, <2>2, <3>1
  <2>4. CASE j \notin skipped
    <3>1. /\ jobs'[j] = Rescue!Loaded(jobFile[j], last)
          /\ jobFile'[j] = Rescue!Loaded(jobFile[j], last)
      BY <1>1, <2>4
    <3> QED  BY <1>5, <3>1
  <2> QED  BY <2>3, <2>4
<1>7. Rescue!TypeOK'
  <2>1. Rescue!Cardinality(skipped) \in Nat
    <3>1. Rescue!Cardinality(skipped) = Cardinality(skipped)  BY RescueCounts, Zenon
    <3> QED  BY <3>1, RescueCounts
  <2>2. rescueFaults' \in 0 .. MaxFaults
    BY <1>2, <2>1, BoundsAreNatural DEF RescueInv, Rescue!TypeOK
  <2>3. /\ jobs' \in [Jobs -> Rescue!Record \cup {None}]
        /\ jobFile' \in [Jobs -> Rescue!Record \cup {None}]
    BY <1>1, <1>6
  <2> QED  BY <1>2, <2>2, <2>3 DEF RescueInv, Rescue!TypeOK
<1>8. JobsAreLaunched'
  BY <1>2, <1>3, <1>6 DEF RescueInv, JobsAreLaunched
<1>9. TasksAreRunning'
  BY <1>2, <1>3, <1>6 DEF TasksAreRunning, Rescue!Busy
<1>10. JobsAreNumbered'  BY <1>2 DEF RescueInv, JobsAreNumbered
<1>11. RecordsAreCredible'
  <2>1. \A q : \A j \in Jobs : Credible(j, q) =>
          /\ q.status = "running" => q.finished = 0
          /\ q.thread \in {None, j, q.resume}
          /\ q.resume \notin moved' \cup {None} => dir'[q.resume] = dir'[j]
    BY <1>2 DEF Credible
  <2> QED  BY <1>6, <2>1 DEF RecordsAreCredible, Credible
<1> QED  BY <1>7, <1>8, <1>9, <1>10, <1>11 DEF RescueInv

LEMMA RescueStep == RescueInv /\ [Rescue!Next]_rescueVars => RescueInv'
<1> SUFFICES ASSUME RescueInv, [Rescue!Next]_rescueVars PROVE RescueInv'  OBVIOUS
<1>1. CASE UNCHANGED rescueVars
  BY <1>1 DEF rescueVars, RescueInv, Rescue!TypeOK, JobsAreLaunched, TasksAreRunning,
              JobsAreNumbered, RecordsAreCredible, Credible, Rescue!Busy
<1> QED
  BY <1>1, RescueLaunches, RescueBody, RescueCancel, RescueExits, RescueCrash, RescueLoad
  DEF Rescue!Next

LEMMA RescueAlways == Spec => []RescueInv
<1>1. Init => RescueInv  BY RescueInit DEF Init
<1>2. RescueInv /\ [Next]_vars => RescueInv'  BY SessionSteps, RescueStep
<1> QED  BY <1>1, <1>2, PTL DEF Spec

(* Whoever reads the record of a rescue job can count on its status, and a  *)
(* thread is taken up without being named only in the directory it works   *)
(* in, for any jobs, directories, crashes and saves that fail.             *)
THEOREM JobRecordsAreTrue == Spec => []RecordsAreTrue
<1>1. RescueInv => RecordsAreTrue
  <2> SUFFICES ASSUME RescueInv PROVE Rescue!StatusIsTrue /\ Rescue!ThreadsStayHome
    BY DEF RecordsAreTrue, Rescue!RecordsAreTrue
  <2>1. ASSUME NEW j \in Rescue!Known
        PROVE  j \in Jobs /\ jobs[j] # None /\ jobs[j].status \in {"running"} \cup Rescue!Final
    BY DEF Rescue!Known, RescueInv, Rescue!TypeOK, Rescue!Record
  <2>2. Rescue!StatusIsTrue
    BY <2>1 DEF RescueInv, Rescue!TypeOK, TasksAreRunning, Rescue!StatusIsTrue, Rescue!Busy
  <2>3. Rescue!ThreadsStayHome
    BY <2>1 DEF RescueInv, RecordsAreCredible, Credible, Rescue!ThreadsStayHome
  <2> QED  BY <2>2, <2>3
<1> QED  BY <1>1, RescueAlways, PTL

LEMMA FinalStep ==
  ASSUME RescueInv, [Rescue!Next]_rescueVars, NEW j \in Rescue!Known,
         jobs[j].status \in Rescue!Final, alive'
  PROVE  jobs'[j].status = jobs[j].status /\ jobs'[j].thread = jobs[j].thread
<1>1. j \in Jobs /\ jobs[j] # None /\ jobs[j].status # "running" /\ alive
  BY DEF Rescue!Known, Rescue!Final, RescueInv, JobsAreLaunched
<1>2. jobs \in [Jobs -> Rescue!Record \cup {None}]  BY DEF RescueInv, Rescue!TypeOK
<1>3. SUFFICES jobs'[j] = jobs[j]  OBVIOUS
<1>4. ASSUME NEW d \in Dirs, NEW resume, NEW bad, NEW ok, Rescue!Launch(d, resume, bad, ok)
      PROVE  jobs'[j] = jobs[j]
  <2>1. PICK new \in Jobs :
          /\ new = Rescue!Cardinality({k \in Jobs : dir[k] # None}) + 1
          /\ \E r : jobs' = [jobs EXCEPT ![new] = r]
    BY <1>4 DEF Rescue!Launch
  <2>2. dir[new] = None  BY <2>1, NextJob, Zenon
  <2>3. jobs[new] = None  BY <2>2 DEF RescueInv, JobsAreLaunched
  <2> QED  BY <1>1, <1>2, <2>1, <2>3
<1>5. ASSUME NEW k \in Jobs, NEW status, NEW thread_, NEW ok, Rescue!Busy(k),
             Rescue!End(k, status, thread_, ok)
      PROVE  jobs'[j] = jobs[j]
  <2>1. jobs[k].status = "running"  BY <1>5, BusyRuns
  <2> QED  BY <1>1, <1>2, <1>5, <2>1 DEF Rescue!End
<1>6. ASSUME NEW k \in Jobs, Rescue!Body(k) PROVE jobs'[j] = jobs[j]
  <2>1. CASE Rescue!Unsaved(k) \/ Rescue!Spawn(k)
    BY <2>1 DEF Rescue!Unsaved, Rescue!Spawn
  <2>2. ASSUME NEW ok \in BOOLEAN, Rescue!Refused(k, ok) PROVE jobs'[j] = jobs[j]
    BY <1>5, <2>2 DEF Rescue!Refused, Rescue!Busy
  <2>3. ASSUME NEW ok \in BOOLEAN, Rescue!Ends(k, ok) PROVE jobs'[j] = jobs[j]
    BY <1>5, <2>3 DEF Rescue!Ends, Rescue!Busy
  <2>4. ASSUME NEW ok \in BOOLEAN, Rescue!TimesOut(k, ok) PROVE jobs'[j] = jobs[j]
    BY <1>5, <2>4 DEF Rescue!TimesOut, Rescue!Busy
  <2>5. ASSUME NEW ok \in BOOLEAN, Rescue!Cancelled(k, ok) PROVE jobs'[j] = jobs[j]
    BY <1>5, <2>5 DEF Rescue!Cancelled, Rescue!Busy
  <2> QED  BY <1>6, <2>1, <2>2, <2>3, <2>4, <2>5 DEF Rescue!Body
<1>7. ASSUME NEW k \in Jobs, NEW ok \in BOOLEAN, Rescue!Cancel(k, ok) PROVE jobs'[j] = jobs[j]
  BY <1>1, <1>2, <1>7 DEF Rescue!Cancel, Rescue!Request, Rescue!Mark
<1>8. CASE Rescue!Crash  BY <1>8 DEF Rescue!Crash
<1>9. ASSUME NEW skipped \in SUBSET Jobs, Rescue!Load(skipped) PROVE FALSE
  BY <1>1, <1>9 DEF Rescue!Load
<1>10. CASE UNCHANGED rescueVars  BY <1>10 DEF rescueVars
<1>11. ASSUME NEW d \in Dirs, NEW ok \in BOOLEAN, NEW bad \in BOOLEAN,
              Rescue!Rescue(d, bad, ok) \/ Rescue!Fresh(d, bad, ok)
       PROVE  jobs'[j] = jobs[j]
  BY <1>4, <1>11 DEF Rescue!Rescue, Rescue!Fresh
<1>12. ASSUME NEW d \in Dirs, NEW ok \in BOOLEAN, NEW t \in Jobs, Rescue!Resume(d, t, ok)
       PROVE  jobs'[j] = jobs[j]
  BY <1>4, <1>12 DEF Rescue!Resume
<1>13. ASSUME NEW k \in Jobs, NEW code, Rescue!Exits(k, code) PROVE jobs'[j] = jobs[j]
  BY <1>13 DEF Rescue!Exits
<1> QED
  BY <1>6, <1>7, <1>8, <1>9, <1>10, <1>11, <1>12, <1>13 DEF Rescue!Next

(* A final status of a rescue job, and its thread, are not taken back while *)
(* the bridge lives, whatever is cancelled, ends or fails to be saved.     *)
THEOREM FinalsStay == Spec => FinalStays
<1>1. RescueInv /\ [Next]_vars =>
        [\A j \in Rescue!Known : jobs[j].status \in Rescue!Final /\ alive' =>
           jobs'[j].status = jobs[j].status /\ jobs'[j].thread = jobs[j].thread]_Rescue!vars
  BY SessionSteps, FinalStep
<1> QED  BY <1>1, RescueAlways, PTL DEF Spec, FinalStays, Rescue!FinalStays

-----------------------------------------------------------------------------
(* The lock of a name, which codex and local sessions share: q is the queue *)
(* of each name, its head the holder; k says where a call is and a which   *)
(* name it is about.                                                       *)

InQueue(q, k, a, s) ==
  \A i \in DOMAIN q[s] : /\ k[q[s][i]] \in {"waits", "asks"} /\ a[q[s][i]] = s
                         /\ \A j \in DOMAIN q[s] : q[s][i] = q[s][j] => i = j
AtLock(q, k, a, c) ==
  /\ k[c] # "idle" => a[c] \in Names
  /\ k[c] = "asks" => q[a[c]] # <<>> /\ Head(q[a[c]]) = c
  /\ k[c] = "waits" => \E i \in DOMAIN q[a[c]] : q[a[c]][i] = c
Locks(q, k, a) ==
  /\ \A s \in Names : InQueue(q, k, a, s)
  /\ \A c \in Calls : AtLock(q, k, a, c)

(* Removing the call at place p, in terms of places.                       *)
Without(r, v, p) ==
  /\ r \in Seq(Calls) /\ Len(r) = Len(v) - 1
  /\ \A i \in 1 .. Len(r) : r[i] = v[IF i < p THEN i ELSE i + 1]

LEMMA TailWithout ==
  ASSUME NEW v \in Seq(Calls), v # <<>>
  PROVE  Without(Tail(v), v, 1) /\ Head(v) = v[1] /\ 1 \in 1 .. Len(v)
BY HeadTailProperties DEF Without

LEMMA RemoveWithout ==
  ASSUME NEW v \in Seq(Calls), NEW p \in 1 .. Len(v)
  PROVE  Without(Codex!RemoveAt(v, p), v, p) /\ Without(Local!RemoveAt(v, p), v, p)
<1> DEFINE x == SubSeq(v, 1, p - 1)
           y == SubSeq(v, p + 1, Len(v))
<1>1. Len(v) \in Nat /\ p \in Nat /\ 1 <= p /\ p <= Len(v) /\ p - 1 \in Int /\ p + 1 \in Int
  OBVIOUS
<1>2. x \in Seq(Calls) /\ Len(x) = p - 1 /\ \A i \in 1 .. p - 1 : x[i] = v[i]
  <2>1. \A i \in 1 .. p - 1 : v[i] \in Calls  BY <1>1
  <2>2. /\ SubSeq(v, 1, p - 1) \in Seq(Calls)
        /\ Len(SubSeq(v, 1, p - 1)) = IF 1 <= p - 1 THEN (p - 1) - 1 + 1 ELSE 0
        /\ \A i \in 1 .. (p - 1) - 1 + 1 : SubSeq(v, 1, p - 1)[i] = v[1 + i - 1]
    BY <1>1, <2>1, SubSeqProperties
  <2> QED  BY <1>1, <2>2
<1>3. y \in Seq(Calls) /\ Len(y) = Len(v) - p /\ \A i \in 1 .. Len(v) - p : y[i] = v[p + i]
  <2>1. \A i \in p + 1 .. Len(v) : v[i] \in Calls  BY <1>1
  <2>2. /\ SubSeq(v, p + 1, Len(v)) \in Seq(Calls)
        /\ Len(SubSeq(v, p + 1, Len(v))) =
             IF p + 1 <= Len(v) THEN Len(v) - (p + 1) + 1 ELSE 0
        /\ \A i \in 1 .. Len(v) - (p + 1) + 1 : SubSeq(v, p + 1, Len(v))[i] = v[p + 1 + i - 1]
    BY <1>1, <2>1, SubSeqProperties
  <2> QED  BY <1>1, <2>2
<1> HIDE DEF x, y
<1>4. /\ x \o y \in Seq(Calls) /\ Len(x \o y) = Len(x) + Len(y)
      /\ \A i \in 1 .. Len(x) + Len(y) : (x \o y)[i] = IF i <= Len(x) THEN x[i] ELSE y[i - Len(x)]
  BY <1>2, <1>3, ConcatProperties
<1>5. PICK r : r = x \o y  OBVIOUS
<1>6. r \in Seq(Calls) /\ Len(r) = Len(v) - 1
  <2>1. Len(x) + Len(y) = Len(v) - 1  BY <1>1, <1>2, <1>3
  <2> QED  BY <1>4, <1>5, <2>1
<1>7. ASSUME NEW i \in 1 .. Len(r) PROVE r[i] = v[IF i < p THEN i ELSE i + 1]
  <2>1. i \in Nat /\ 1 <= i /\ i <= Len(v) - 1 /\ i \in 1 .. Len(x) + Len(y)
    BY <1>1, <1>2, <1>3, <1>6
  <2>2. r[i] = IF i <= Len(x) THEN x[i] ELSE y[i - Len(x)]  BY <1>4, <1>5, <2>1
  <2>3. CASE i < p
    <3>1. i <= Len(x) /\ i \in 1 .. p - 1  BY <1>1, <1>2, <2>1, <2>3
    <3> QED  BY <1>2, <2>2, <2>3, <3>1
  <2>4. CASE ~(i < p)
    <3>1. ~(i <= Len(x)) /\ i - Len(x) = i - p + 1 /\ i - p + 1 \in 1 .. Len(v) - p
      BY <1>1, <1>2, <2>1, <2>4
    <3>2. y[i - p + 1] = v[p + (i - p + 1)] /\ p + (i - p + 1) = i + 1
      BY <1>1, <1>3, <2>1, <3>1
    <3> QED  BY <2>2, <2>4, <3>1, <3>2
  <2> QED  BY <2>3, <2>4
<1>8. Without(r, v, p)  BY <1>6, <1>7 DEF Without
<1> QED  BY <1>5, <1>8 DEF Codex!RemoveAt, Local!RemoveAt, x, y

(* A call joins the queue: it holds the lock when it is alone.             *)
LEMMA LocksJoin ==
  ASSUME NEW q \in [Names -> Seq(Calls)], NEW k, NEW a \in [Calls -> Names \cup {None}],
         Locks(q, k, a), NEW c \in Calls, NEW s \in Names, k[c] = "idle",
         NEW j, \A d \in Calls \ {c} : j[d] = k[d],
         j[c] = IF q[s] = <<>> THEN "asks" ELSE "waits"
  PROVE  Locks([q EXCEPT ![s] = Append(@, c)], j, [a EXCEPT ![c] = s])
<1>1. PICK r : r = Append(q[s], c)  OBVIOUS
<1>2. PICK p : p = [q EXCEPT ![s] = r]  OBVIOUS
<1>3. PICK b : b = [a EXCEPT ![c] = s]  OBVIOUS
<1>4. /\ r \in Seq(Calls) /\ Len(r) = Len(q[s]) + 1 /\ Len(q[s]) \in Nat
      /\ \A i \in 1 .. Len(q[s]) : r[i] = q[s][i] /\ r[Len(r)] = c
  BY <1>1
<1>5. ASSUME NEW t \in Names, NEW i \in DOMAIN q[t] PROVE q[t][i] # c /\ q[t][i] \in Calls
  <2>1. k[q[t][i]] \in {"waits", "asks"}  BY DEF Locks, InQueue
  <2>2. q[t] \in Seq(Calls)  OBVIOUS
  <2> QED  BY <2>1, <2>2
<1>6. \A t \in Names \ {s} : p[t] = q[t]  BY <1>2
<1>7. p[s] = r  BY <1>2
<1>8. b[c] = s /\ \A d \in Calls \ {c} : b[d] = a[d]  BY <1>3
<1>9. ASSUME NEW t \in Names PROVE InQueue(p, j, b, t)
  <2>1. CASE t # s
    <3>1. \A i \in DOMAIN q[t] : q[t][i] \in Calls \ {c}  BY <1>5
    <3>2. InQueue(q, k, a, t) /\ p[t] = q[t]  BY <1>6, <2>1 DEF Locks
    <3> QED  BY <1>8, <3>1, <3>2 DEF InQueue
  <2>2. CASE t = s
    <3>1. DOMAIN r = 1 .. Len(r) /\ DOMAIN q[s] = 1 .. Len(q[s])  BY <1>4
    <3>2. ASSUME NEW i \in 1 .. Len(r), i # Len(r)
          PROVE  /\ i \in DOMAIN q[s] /\ r[i] = q[s][i] /\ r[i] \in Calls \ {c}
                 /\ k[r[i]] \in {"waits", "asks"} /\ a[r[i]] = s
      <4>1. i \in 1 .. Len(q[s])  BY <1>4, <3>2
      <4> QED  BY <1>4, <1>5, <3>1, <4>1 DEF Locks, InQueue
    <3>3. r[Len(r)] = c /\ Len(r) \in 1 .. Len(r)  BY <1>1, <1>4
    <3>4. \A i \in 1 .. Len(r) : j[r[i]] \in {"waits", "asks"} /\ b[r[i]] = s
      BY <1>8, <3>2, <3>3
    <3>5. ASSUME NEW i \in 1 .. Len(r), NEW m \in 1 .. Len(r), r[i] = r[m] PROVE i = m
      BY <3>2, <3>3, <3>5 DEF Locks, InQueue
    <3> QED  BY <1>7, <2>2, <3>1, <3>4, <3>5 DEF InQueue
  <2> QED  BY <2>1, <2>2
<1>10. ASSUME NEW d \in Calls PROVE AtLock(p, j, b, d)
  <2>1. CASE d = c
    <3>1. CASE q[s] = <<>>
      <4>1. r # <<>> /\ Head(r) = c  BY <1>1, <1>4, <3>1, HeadTailAppend
      <4> QED  BY <1>7, <1>8, <2>1, <3>1, <4>1 DEF AtLock
    <3>2. CASE q[s] # <<>>
      <4>1. r[Len(r)] = c /\ Len(r) \in DOMAIN r  BY <1>1, <1>4
      <4> QED  BY <1>7, <1>8, <2>1, <3>2, <4>1 DEF AtLock
    <3> QED  BY <3>1, <3>2
  <2>2. CASE d # c
    <3>1. AtLock(q, k, a, d) /\ b[d] = a[d] /\ j[d] = k[d]  BY <1>8, <2>2 DEF Locks
    <3>2. CASE a[d] = s
      <4>1. q[s] # <<>> => r # <<>> /\ Head(r) = Head(q[s])  BY <1>1, <1>4, HeadTailAppend
      <4>2. \A i \in DOMAIN q[s] : i \in DOMAIN r /\ r[i] = q[s][i]  BY <1>4
      <4> QED  BY <1>7, <3>1, <3>2, <4>1, <4>2 DEF AtLock
    <3>3. CASE a[d] # s
      BY <1>6, <3>1, <3>3 DEF AtLock
    <3> QED  BY <3>2, <3>3
  <2> QED  BY <2>1, <2>2
<1> QED  BY <1>1, <1>2, <1>3, <1>9, <1>10 DEF Locks

(* The call that waits at the head takes the lock.                         *)
LEMMA LocksTake ==
  ASSUME NEW q \in [Names -> Seq(Calls)], NEW k, NEW a,
         Locks(q, k, a), NEW c \in Calls, k[c] = "waits", Head(q[a[c]]) = c,
         NEW j, \A d \in Calls \ {c} : j[d] = k[d], j[c] = "asks"
  PROVE  Locks(q, j, a) /\ q[a[c]] # <<>>
<1>1. AtLock(q, k, a, c)  BY DEF Locks
<1>2. q[a[c]] # <<>> /\ a[c] \in Names  BY <1>1 DEF AtLock
<1>3. ASSUME NEW t \in Names PROVE InQueue(q, j, a, t)
  <2>1. \A i \in DOMAIN q[t] : q[t][i] \in Calls
    <3>1. q[t] \in Seq(Calls)  OBVIOUS
    <3> QED  BY <3>1
  <2>2. InQueue(q, k, a, t)  BY DEF Locks
  <2> QED  BY <2>1, <2>2 DEF InQueue
<1>4. ASSUME NEW d \in Calls PROVE AtLock(q, j, a, d)
  <2>1. AtLock(q, k, a, d)  BY DEF Locks
  <2> QED  BY <1>2, <2>1 DEF AtLock
<1> QED  BY <1>2, <1>3, <1>4 DEF Locks

(* The holder, or a call that waits, leaves the queue q[s] from place p:   *)
(* what stays is r.                                                        *)
LeavesAt(q, k, a, c, s, p, r, j) ==
  /\ q \in [Names -> Seq(Calls)] /\ a \in [Calls -> Names \cup {None}] /\ Locks(q, k, a)
  /\ c \in Calls /\ s \in Names /\ p \in 1 .. Len(q[s]) /\ q[s][p] = c
  /\ (p = 1 \/ k[c] = "waits") /\ Without(r, q[s], p)
  /\ (\A d \in Calls \ {c} : j[d] = k[d]) /\ j[c] \notin {"idle", "waits", "asks"}
LEMMA LocksLeave ==
  ASSUME NEW q, NEW k, NEW a, NEW c, NEW s, NEW p, NEW r, NEW j, LeavesAt(q, k, a, c, s, p, r, j)
  PROVE  Locks([q EXCEPT ![s] = r], j, a)
<1> SUFFICES ASSUME q \in [Names -> Seq(Calls)], a \in [Calls -> Names \cup {None}],
                    Locks(q, k, a), c \in Calls, s \in Names, p \in 1 .. Len(q[s]), q[s][p] = c,
                    p = 1 \/ k[c] = "waits", Without(r, q[s], p),
                    \A d \in Calls \ {c} : j[d] = k[d], j[c] \notin {"idle", "waits", "asks"}
             PROVE  Locks([q EXCEPT ![s] = r], j, a)
  BY DEF LeavesAt
<1>1. PICK u : u = [q EXCEPT ![s] = r]  OBVIOUS
<1>2. u[s] = r /\ \A t \in Names \ {s} : u[t] = q[t]  BY <1>1
<1>3. q[s] \in Seq(Calls) /\ Len(q[s]) \in Nat /\ p \in Nat /\ 1 <= p /\ p <= Len(q[s])
      /\ DOMAIN q[s] = 1 .. Len(q[s])
  OBVIOUS
<1>4. /\ r \in Seq(Calls) /\ Len(r) = Len(q[s]) - 1 /\ DOMAIN r = 1 .. Len(r)
      /\ \A i \in 1 .. Len(r) : r[i] = q[s][IF i < p THEN i ELSE i + 1]
  BY DEF Without
<1>5. a[c] = s  BY <1>3 DEF Locks, InQueue
<1>6. \A i, m \in DOMAIN q[s] : q[s][i] = q[s][m] => i = m  BY DEF Locks, InQueue
<1>7. ASSUME NEW i \in 1 .. Len(r)
      PROVE  \E m \in DOMAIN q[s] : m # p /\ m = (IF i < p THEN i ELSE i + 1) /\ r[i] = q[s][m]
  <2>1. PICK m : m = IF i < p THEN i ELSE i + 1  OBVIOUS
  <2>2. m \in 1 .. Len(q[s]) /\ m # p  BY <1>3, <1>4, <2>1
  <2> QED  BY <1>3, <1>4, <2>1, <2>2
<1>8. ASSUME NEW t \in Names PROVE InQueue(u, j, a, t)
  <2>1. CASE t # s
    <3>1. \A i \in DOMAIN q[t] : q[t][i] \in Calls /\ a[q[t][i]] = t
      <4>1. q[t] \in Seq(Calls)  OBVIOUS
      <4> QED  BY <4>1 DEF Locks, InQueue
    <3>2. \A i \in DOMAIN q[t] : q[t][i] \in Calls \ {c}  BY <1>5, <2>1, <3>1
    <3>3. InQueue(q, k, a, t) /\ u[t] = q[t]  BY <1>2, <2>1 DEF Locks
    <3> QED  BY <3>2, <3>3 DEF InQueue
  <2>2. CASE t = s
    <3>1. ASSUME NEW i \in 1 .. Len(r)
          PROVE  j[r[i]] \in {"waits", "asks"} /\ a[r[i]] = s
      <4>1. PICK m \in DOMAIN q[s] : m # p /\ r[i] = q[s][m]  BY <1>7
      <4>2. r[i] \in Calls \ {c}  BY <1>3, <1>6, <4>1
      <4> QED  BY <4>1, <4>2 DEF Locks, InQueue
    <3>2. ASSUME NEW i \in 1 .. Len(r), NEW n \in 1 .. Len(r), r[i] = r[n] PROVE i = n
      <4>1. PICK m \in DOMAIN q[s] : m = (IF i < p THEN i ELSE i + 1) /\ r[i] = q[s][m]  BY <1>7
      <4>2. PICK l \in DOMAIN q[s] : l = (IF n < p THEN n ELSE n + 1) /\ r[n] = q[s][l]  BY <1>7
      <4>3. m = l  BY <1>6, <3>2, <4>1, <4>2
      <4> QED  BY <1>3, <4>1, <4>2, <4>3
    <3> QED  BY <1>2, <1>4, <2>2, <3>1, <3>2 DEF InQueue
  <2> QED  BY <2>1, <2>2
<1>9. ASSUME NEW d \in Calls PROVE AtLock(u, j, a, d)
  <2>1. CASE d = c  BY <1>5, <2>1 DEF AtLock
  <2>2. CASE d # c /\ a[d] # s
    <3>1. AtLock(q, k, a, d) /\ j[d] = k[d]  BY <2>2 DEF Locks
    <3> QED  BY <1>2, <2>2, <3>1 DEF AtLock
  <2>3. CASE d # c /\ a[d] = s
    <3>1. AtLock(q, k, a, d) /\ j[d] = k[d]  BY <2>3 DEF Locks
    <3>2. ASSUME k[d] = "asks" PROVE r # <<>> /\ Head(r) = d
      <4>1. q[s][1] = d /\ q[s] # <<>>  BY <1>3, <2>3, <3>1, <3>2 DEF AtLock
      <4>2. p # 1  BY <2>3, <4>1
      <4>3. 1 \in 1 .. Len(r) /\ 1 < p  BY <1>3, <1>4, <4>2
      <4>4. r[1] = d  BY <1>4, <4>1, <4>3
      <4> QED  BY <1>4, <4>3, <4>4
    <3>3. ASSUME k[d] = "waits" PROVE \E i \in DOMAIN r : r[i] = d
      <4>1. PICK m \in DOMAIN q[s] : q[s][m] = d  BY <2>3, <3>1, <3>3 DEF AtLock
      <4>2. PICK i : i = IF m < p THEN m ELSE m - 1  OBVIOUS
      <4>3. m # p  BY <2>3, <4>1
      <4>4. i \in 1 .. Len(r) /\ m = IF i < p THEN i ELSE i + 1  BY <1>3, <1>4, <4>2, <4>3
      <4> QED  BY <1>4, <4>1, <4>4
    <3> QED  BY <1>2, <2>3, <3>1, <3>2, <3>3 DEF AtLock
  <2> QED  BY <2>1, <2>2, <2>3
<1> QED  BY <1>1, <1>8, <1>9 DEF Locks

-----------------------------------------------------------------------------
(* The holder of a lock, or the first that waits for it, hands it on: from *)
(* the queues q, the moments k and the names a to the queues u and the     *)
(* moments j.                                                              *)
HandsOn(q, k, a, c, u, j) ==
  /\ q \in [Names -> Seq(Calls)] /\ a \in [Calls -> Names \cup {None}] /\ Locks(q, k, a)
  /\ c \in Calls /\ (k[c] = "asks" \/ (k[c] = "waits" /\ Head(q[a[c]]) = c))
  /\ (\A d \in Calls \ {c} : j[d] = k[d]) /\ j[c] \notin {"idle", "waits", "asks"}
  /\ u = [q EXCEPT ![a[c]] = Tail(q[a[c]])]
LEMMA LocksHead ==
  ASSUME NEW q, NEW k, NEW a, NEW c, NEW u, NEW j, HandsOn(q, k, a, c, u, j)
  PROVE  Locks(u, j, a) /\ u \in [Names -> Seq(Calls)]
<1>1. AtLock(q, k, a, c)  BY DEF HandsOn, Locks
<1>2. PICK s \in Names : s = a[c] /\ q[s] # <<>> /\ Head(q[s]) = c
  BY <1>1, NoneIsNoRecord DEF HandsOn, AtLock
<1>3. PICK v \in Seq(Calls) : v = q[s]  BY DEF HandsOn
<1>4. PICK r : r = Tail(v)  OBVIOUS
<1>5. Without(r, v, 1) /\ v[1] = c /\ 1 \in 1 .. Len(v)  BY <1>2, <1>3, <1>4, TailWithout
<1>6. u = [q EXCEPT ![s] = r]  BY <1>2, <1>3, <1>4 DEF HandsOn
<1>7. LeavesAt(q, k, a, c, s, 1, r, j)  BY <1>3, <1>5 DEF HandsOn, LeavesAt
<1>8. r \in Seq(Calls)  BY <1>5 DEF Without
<1>9. Locks([q EXCEPT ![s] = r], j, a)  BY ONLY <1>7, LocksLeave
<1> QED  BY <1>6, <1>8, <1>9 DEF HandsOn

(* Codex sessions.                                                         *)

(* A call captures its object when it gets the lock.                       *)
CodexCaptures ==
  \A c \in Calls :
    /\ codexCall[c] \in {"idle", "waits"} => codexObject[c] = None
    /\ codexCall[c] \in {"asks", "told"} => codexObject[c] # None

(* An object is made for one name, and known by no other.                  *)
CodexOwner(own) ==
  /\ \A s \in Names :
       /\ codexSessions[s] # None => own[codexSessions[s]] = s /\ codexSessions[s] <= codexMade
       /\ file[s] # None => own[file[s].object] = s /\ file[s].object <= codexMade
  /\ \A c \in Calls :
       codexObject[c] # None => own[codexObject[c]] = codexAbout[c] /\ codexObject[c] <= codexMade
CodexOwned == \E own \in [Objects -> Names \cup {None}] : CodexOwner(own)

(* A history holds messages of calls that captured its object; the last    *)
(* one is the question of whoever asks; the file is the beginning of it.   *)
Begins(x, y) == Len(x) <= Len(y) /\ \A i \in 1 .. Len(x) : x[i] = y[i]
CodexMessages == \A o \in Objects : \A i \in DOMAIN history[o] : codexObject[history[o][i][1]] = o
CodexQuestions ==
  \A c \in Calls : codexCall[c] = "asks" =>
    LET said == history[codexObject[c]]
    IN  Len(said) > 0 /\ said[Len(said)] = <<c, "user">>
CodexFiles == \A s \in Names : file[s] # None => Begins(file[s].history, history[file[s].object])

(* What a caller was told is in the history of its object, in the file of  *)
(* that object, and the file is of that object while the session is.       *)
Has(said, c) == \E i \in DOMAIN said : said[i] = <<c, "assistant">>
CodexTold ==
  \A c \in Calls : codexCall[c] = "told" =>
    LET s == codexAbout[c]
        o == codexObject[c]
    IN  /\ Has(history[o], c)
        /\ file[s] # None /\ file[s].object = o => Has(file[s].history, c)
        /\ codexSessions[s] = o =>
             /\ file[s] # None /\ file[s].object = o
             /\ \A d \in Calls : codexCall[d] = "asks" /\ codexAbout[d] = s => codexObject[d] = o

CodexLocks == Locks(codexQueue, codexCall, codexAbout)
CodexInv ==
  /\ Codex!TypeOK /\ CodexLocks /\ CodexCaptures /\ CodexOwned
  /\ CodexMessages /\ CodexQuestions /\ CodexFiles /\ CodexTold

LEMMA CodexCounts ==
  /\ \A S : Codex!Cardinality(S) = Cardinality(S)
  /\ IsFiniteSet(Objects) /\ Cardinality(Objects) \in Nat
  /\ Objects = 1 .. Cardinality(Objects)
<1>1. ASSUME NEW S PROVE Codex!Cardinality(S) = Cardinality(S)
  BY Zenon DEF Codex!Cardinality, Cardinality
<1>2. IsFiniteSet(Objects) /\ Objects = 1 .. Cardinality(Objects)
  BY IdsAreFinite, IdsAreNumbered
<1>3. Cardinality(Objects) \in Nat  BY <1>2, FS_CardinalityType
<1> QED  BY <1>1, <1>2, <1>3

LEMMA CodexInit == Codex!Init => CodexInv
<1> SUFFICES ASSUME Codex!Init PROVE CodexInv  OBVIOUS
<1>1. Codex!TypeOK
  <2>1. 0 \in 0 .. Codex!Cardinality(Objects) /\ 0 \in 0 .. MaxCrashes
    <3>1. Codex!Cardinality(Objects) = Cardinality(Objects)  BY CodexCounts, Zenon
    <3> QED  BY <3>1, CodexCounts, BoundsAreNatural
  <2> QED  BY <2>1 DEF Codex!Init, Codex!TypeOK
<1>2. CodexLocks
  BY DEF Codex!Init, CodexLocks, Locks, InQueue, AtLock
<1>3. CodexOwned
  <2>1. CodexOwner([o \in Objects |-> None])  BY DEF Codex!Init, CodexOwner
  <2> QED  BY <2>1 DEF CodexOwned
<1>4. CodexCaptures /\ CodexMessages /\ CodexQuestions /\ CodexFiles /\ CodexTold
  BY DEF Codex!Init, CodexCaptures, CodexMessages, CodexQuestions, CodexFiles, CodexTold
<1> QED  BY <1>1, <1>2, <1>3, <1>4 DEF CodexInv

(* What is appended to a history.                                          *)
Talks == Calls \X {"user", "assistant"}
LEMMA Appended ==
  ASSUME NEW h \in Seq(Talks), NEW m \in Talks
  PROVE  /\ Append(h, m) \in Seq(Talks) /\ Len(Append(h, m)) = Len(h) + 1 /\ Len(h) \in Nat
         /\ DOMAIN Append(h, m) = 1 .. Len(h) + 1 /\ DOMAIN h = 1 .. Len(h)
         /\ Append(h, m)[Len(h) + 1] = m
         /\ \A i \in 1 .. Len(h) : Append(h, m)[i] = h[i]
OBVIOUS

(* The types a step of a codex session needs.                              *)
LEMMA CodexTypes ==
  ASSUME CodexInv
  PROVE  /\ codexSessions \in [Names -> Objects \cup {None}]
         /\ history \in [Objects -> Seq(Talks)]
         /\ thread \in [Objects -> Calls \cup {None}]
         /\ file \in [Names -> Codex!Image \cup {None}]
         /\ codexQueue \in [Names -> Seq(Calls)]
         /\ codexCall \in [Calls -> {"idle", "waits", "asks", "told", "failed"}]
         /\ codexAbout \in [Calls -> Names \cup {None}]
         /\ codexObject \in [Calls -> Objects \cup {None}]
         /\ codexMade \in Nat /\ \A o \in Objects : o \in Nat
         /\ None \notin Objects /\ None \notin Names /\ None \notin Codex!Image
<1>1. Objects = 1 .. Cardinality(Objects) /\ Cardinality(Objects) \in Nat  BY CodexCounts
<1>2. \A o \in Objects : o \in Nat  BY <1>1
<1>3. codexMade \in Nat
  <2>1. codexMade \in 0 .. Codex!Cardinality(Objects)  BY DEF CodexInv, Codex!TypeOK
  <2>2. Codex!Cardinality(Objects) = Cardinality(Objects)  BY CodexCounts, Zenon
  <2> QED  BY <1>1, <2>1, <2>2
<1>4. None \notin Objects /\ None \notin Names /\ None \notin Codex!Image  BY NoneIsNoRecord
<1> QED  BY <1>2, <1>3, <1>4 DEF CodexInv, Codex!TypeOK, Talks

(* Whoever may take the lock of a name finds nobody asking about it.       *)
LEMMA CodexFree ==
  ASSUME CodexInv, NEW s \in Names, NEW c \in Calls,
         \/ codexQueue[s] = <<>>
         \/ codexCall[c] = "waits" /\ codexAbout[c] = s /\ Head(codexQueue[s]) = c,
         NEW d \in Calls, codexCall[d] = "asks"
  PROVE  codexAbout[d] # s
<1>1. AtLock(codexQueue, codexCall, codexAbout, d)  BY DEF CodexInv, CodexLocks, Locks
<1> QED  BY <1>1 DEF AtLock

(* A call gets the lock, captures the session and puts its question.       *)
LEMMA CodexAsked ==
  ASSUME CodexInv, NEW c \in Calls, NEW s \in Names, codexCall[c] \in {"idle", "waits"},
         codexSessions[s] # None,
         \A d \in Calls : codexCall[d] = "asks" => codexAbout[d] # s,
         codexCall' = [codexCall EXCEPT ![c] = "asks"],
         codexObject' = [codexObject EXCEPT ![c] = codexSessions[s]],
         history' = [history EXCEPT ![codexSessions[s]] = Append(@, <<c, "user">>)],
         codexAbout' = [codexAbout EXCEPT ![c] = s],
         codexQueue' \in [Names -> Seq(Calls)], CodexLocks',
         UNCHANGED <<codexSessions, thread, codexMade, file, codexActive, starting, codexCrashes>>
  PROVE  CodexInv'
<1>1. PICK o \in Objects : o = codexSessions[s]  BY CodexTypes
<1>2. PICK h \in Seq(Talks) : h = history[o]  BY CodexTypes
<1>3. PICK m \in Talks : m = <<c, "user">> /\ m[1] = c
  <2>1. <<c, "user">> \in Talks /\ <<c, "user">>[1] = c  BY DEF Talks
  <2> QED  BY <2>1
<1>4. PICK g \in Seq(Talks) :
        /\ g = Append(h, m) /\ Len(g) = Len(h) + 1 /\ Len(h) \in Nat
        /\ DOMAIN g = 1 .. Len(h) + 1 /\ DOMAIN h = 1 .. Len(h)
        /\ g[Len(h) + 1] = m /\ \A i \in 1 .. Len(h) : g[i] = h[i]
  BY Appended
<1>5. /\ history'[o] = g /\ history' \in [Objects -> Seq(Talks)]
      /\ \A p \in Objects \ {o} : history'[p] = history[p]
  BY <1>1, <1>2, <1>3, <1>4, CodexTypes
<1>6. /\ codexCall'[c] = "asks" /\ codexObject'[c] = o /\ codexAbout'[c] = s
      /\ codexObject[c] = None
      /\ \A d \in Calls \ {c} : /\ codexCall'[d] = codexCall[d]
                                /\ codexObject'[d] = codexObject[d]
                                /\ codexAbout'[d] = codexAbout[d]
  BY <1>1, CodexTypes DEF CodexInv, CodexCaptures
<1>7. PICK own \in [Objects -> Names \cup {None}] : CodexOwner(own)
  BY DEF CodexInv, CodexOwned
<1>8. own[o] = s /\ o <= codexMade  BY <1>1, <1>7 DEF CodexOwner
<1>9. Codex!TypeOK'
  BY <1>1, <1>5, CodexTypes DEF CodexInv, Codex!TypeOK, Talks
<1>10. CodexCaptures'
  BY <1>6, CodexTypes DEF CodexInv, CodexCaptures
<1>11. CodexOwned'
  <2>1. \A d \in Calls : codexObject'[d] # None =>
          own[codexObject'[d]] = codexAbout'[d] /\ codexObject'[d] <= codexMade'
    BY <1>6, <1>7, <1>8 DEF CodexOwner
  <2>2. CodexOwner(own)'  BY <1>7, <2>1 DEF CodexOwner
  <2> QED  BY <2>2 DEF CodexOwned
<1>12. CodexMessages'
  <2>1. ASSUME NEW p \in Objects, NEW i \in DOMAIN history[p]
        PROVE  history[p][i][1] \in Calls \ {c} /\ codexObject'[history[p][i][1]] = p
    <3>1. history[p] \in Seq(Talks)  BY CodexTypes
    <3>2. history[p][i][1] \in Calls  BY <3>1 DEF Talks
    <3>3. codexObject[history[p][i][1]] = p  BY DEF CodexInv, CodexMessages
    <3>4. p # None  BY CodexTypes
    <3> QED  BY <1>6, <3>2, <3>3, <3>4
  <2>2. ASSUME NEW i \in DOMAIN g PROVE codexObject'[g[i][1]] = o
    <3>1. CASE i = Len(h) + 1  BY <1>3, <1>4, <1>6, <3>1
    <3>2. CASE i # Len(h) + 1
      <4>1. i \in DOMAIN h /\ g[i] = h[i]  BY <1>4, <3>2
      <4> QED  BY <1>2, <2>1, <4>1
    <3> QED  BY <3>1, <3>2
  <2>3. ASSUME NEW p \in Objects, NEW i \in DOMAIN history'[p]
        PROVE  codexObject'[history'[p][i][1]] = p
    BY <1>5, <2>1, <2>2
  <2> QED  BY <2>3 DEF CodexMessages
<1>13. CodexQuestions'
  <2>1. ASSUME NEW d \in Calls, codexCall'[d] = "asks"
        PROVE  LET said == history'[codexObject'[d]]
               IN  Len(said) > 0 /\ said[Len(said)] = <<d, "user">>
    <3>1. CASE d = c
      <4>1. Len(g) > 0 /\ g[Len(g)] = m  BY <1>4
      <4> QED  BY <1>3, <1>5, <1>6, <3>1, <4>1
    <3>2. CASE d # c
      <4>1. codexCall[d] = "asks" /\ codexObject'[d] = codexObject[d]  BY <1>6, <2>1, <3>2
      <4>2. codexAbout[d] # s /\ codexObject[d] # None /\ codexObject[d] \in Objects
        BY <4>1, CodexTypes DEF CodexInv, CodexCaptures
      <4>3. codexObject[d] # o  BY <1>7, <1>8, <4>2 DEF CodexOwner
      <4> QED  BY <1>5, <4>1, <4>2, <4>3 DEF CodexInv, CodexQuestions
    <3> QED  BY <3>1, <3>2
  <2> QED  BY <2>1 DEF CodexQuestions
<1>14. CodexFiles'
  <2>1. ASSUME NEW t \in Names, file[t] # None
        PROVE  Begins(file[t].history, history'[file[t].object])
    <3>1. file[t] \in Codex!Image  BY <2>1, CodexTypes
    <3>2. /\ file[t].object \in Objects /\ file[t].history \in Seq(Talks)
      BY <3>1 DEF Codex!Image, Talks
    <3>3. Begins(file[t].history, history[file[t].object])
      BY <2>1 DEF CodexInv, CodexFiles
    <3>4. Len(file[t].history) \in Nat  BY <3>2
    <3> QED  BY <1>2, <1>4, <1>5, <3>2, <3>3, <3>4 DEF Begins
  <2> QED  BY <2>1 DEF CodexFiles
<1>15. CodexTold'
  <2>1. ASSUME NEW d \in Calls, codexCall'[d] = "told"
        PROVE  LET t == codexAbout'[d]
                   p == codexObject'[d]
               IN  /\ Has(history'[p], d)
                   /\ file'[t] # None /\ file'[t].object = p => Has(file'[t].history, d)
                   /\ codexSessions'[t] = p =>
                        /\ file'[t] # None /\ file'[t].object = p
                        /\ \A e \in Calls : codexCall'[e] = "asks" /\ codexAbout'[e] = t =>
                             codexObject'[e] = p
    <3>1. d # c /\ codexCall[d] = "told" /\ codexObject'[d] = codexObject[d]
          /\ codexAbout'[d] = codexAbout[d]
      BY <1>6, <2>1
    <3>2. codexObject[d] \in Objects  BY <3>1, CodexTypes DEF CodexInv, CodexCaptures
    <3>3. /\ Has(history[codexObject[d]], d)
          /\ file[codexAbout[d]] # None /\ file[codexAbout[d]].object = codexObject[d] =>
               Has(file[codexAbout[d]].history, d)
          /\ codexSessions[codexAbout[d]] = codexObject[d] =>
               /\ file[codexAbout[d]] # None /\ file[codexAbout[d]].object = codexObject[d]
               /\ \A e \in Calls : codexCall[e] = "asks" /\ codexAbout[e] = codexAbout[d] =>
                    codexObject[e] = codexObject[d]
      BY <3>1 DEF CodexInv, CodexTold
    <3>4. Has(history'[codexObject[d]], d)
      <4>1. CASE codexObject[d] = o
        <5>1. PICK i \in DOMAIN h : h[i] = <<d, "assistant">>  BY <1>2, <3>3, <4>1 DEF Has
        <5>2. i \in DOMAIN g /\ g[i] = <<d, "assistant">>  BY <1>4, <5>1
        <5> QED  BY <1>5, <4>1, <5>2 DEF Has
      <4>2. CASE codexObject[d] # o  BY <1>5, <3>2, <3>3, <4>2
      <4> QED  BY <4>1, <4>2
    <3>5. ASSUME codexSessions[codexAbout[d]] = codexObject[d],
                 NEW e \in Calls, codexCall'[e] = "asks", codexAbout'[e] = codexAbout[d]
          PROVE  codexObject'[e] = codexObject[d]
      BY <1>1, <1>6, <3>3, <3>5
    <3> QED  BY <3>1, <3>3, <3>4, <3>5
  <2> QED  BY <2>1 DEF CodexTold
<1> QED  BY <1>9, <1>10, <1>11, <1>12, <1>13, <1>14, <1>15 DEF CodexInv

(* The holder of a lock gives it up.                                       *)
LEMMA CodexReleased ==
  ASSUME CodexInv, NEW c \in Calls,
         \/ codexCall[c] = "asks"
         \/ codexCall[c] = "waits" /\ Head(codexQueue[codexAbout[c]]) = c,
         codexQueue' = [codexQueue EXCEPT ![codexAbout[c]] = Tail(@)],
         NEW status \in {"told", "failed"}, codexCall' = [codexCall EXCEPT ![c] = status],
         codexAbout' = codexAbout
  PROVE  CodexLocks' /\ codexQueue' \in [Names -> Seq(Calls)]
<1>1. /\ codexQueue \in [Names -> Seq(Calls)] /\ codexAbout \in [Calls -> Names \cup {None}]
      /\ DOMAIN codexCall = Calls
  BY CodexTypes
<1>2. Locks(codexQueue, codexCall, codexAbout)  BY DEF CodexInv, CodexLocks
<1>3. PICK j : j = [codexCall EXCEPT ![c] = status]  OBVIOUS
<1>4. (\A d \in Calls \ {c} : j[d] = codexCall[d]) /\ j[c] \notin {"idle", "waits", "asks"}
  BY ONLY <1>1, <1>3, c \in Calls, status \in {"told", "failed"}
<1>5. codexCall[c] = "asks" \/ (codexCall[c] = "waits" /\ Head(codexQueue[codexAbout[c]]) = c)
  OBVIOUS
<1>6. PICK u : u = [codexQueue EXCEPT ![codexAbout[c]] = Tail(codexQueue[codexAbout[c]])]  OBVIOUS
<1>7. HandsOn(codexQueue, codexCall, codexAbout, c, u, j)
  BY ONLY <1>1, <1>2, <1>4, <1>5, <1>6, c \in Calls DEF HandsOn
<1>8. Locks(u, j, codexAbout) /\ u \in [Names -> Seq(Calls)]  BY ONLY <1>7, LocksHead
<1>9. codexQueue' = u /\ codexCall' = j /\ codexAbout' = codexAbout  BY <1>3, <1>6
<1> QED  BY ONLY <1>8, <1>9 DEF CodexLocks

(* A caller leaves without an answer; the thread may have become known.    *)
LEMMA CodexLeft ==
  ASSUME CodexInv, NEW c \in Calls, codexCall[c] \in {"waits", "asks"},
         codexCall' = [codexCall EXCEPT ![c] = "failed"],
         CodexLocks', codexQueue' \in [Names -> Seq(Calls)],
         thread' \in [Objects -> Calls \cup {None}],
         UNCHANGED <<codexSessions, history, codexMade, file, codexActive, starting, codexAbout,
                     codexObject, codexCrashes>>
  PROVE  CodexInv'
<1>1. /\ codexCall'[c] = "failed" /\ codexCall' \in [Calls -> {"idle", "waits", "asks", "told", "failed"}]
      /\ \A d \in Calls \ {c} : codexCall'[d] = codexCall[d]
  BY CodexTypes
<1>2. Codex!TypeOK'  BY <1>1 DEF CodexInv, Codex!TypeOK
<1>3. CodexCaptures'  BY <1>1 DEF CodexInv, CodexCaptures
<1>4. CodexOwned'
  <2>1. PICK own \in [Objects -> Names \cup {None}] : CodexOwner(own)
    BY DEF CodexInv, CodexOwned
  <2>2. CodexOwner(own)'  BY <2>1 DEF CodexOwner
  <2> QED  BY <2>2 DEF CodexOwned
<1>5. CodexMessages' /\ CodexFiles'  BY DEF CodexInv, CodexMessages, CodexFiles
<1>6. CodexQuestions'  BY <1>1 DEF CodexInv, CodexQuestions
<1>7. CodexTold'
  <2>1. \A d \in Calls : codexCall'[d] = "told" => codexCall[d] = "told"  BY <1>1
  <2>2. \A d \in Calls : codexCall'[d] = "asks" => codexCall[d] = "asks"  BY <1>1
  <2> QED  BY <2>1, <2>2 DEF CodexInv, CodexTold
<1> QED  BY <1>2, <1>3, <1>4, <1>5, <1>6, <1>7 DEF CodexInv

(* The answer stands behind the question, and in the file when it is saved. *)
LEMMA CodexAnswered ==
  ASSUME CodexInv, NEW c \in Calls, NEW t \in {c, None}, NEW kept \in BOOLEAN,
         Codex!Answered(c, t, kept)
  PROVE  CodexInv'
<1>1. PICK o \in Objects : o = codexObject[c] /\ codexCall[c] = "asks"
  BY CodexTypes DEF Codex!Answered, CodexInv, CodexCaptures
<1>2. PICK s \in Names : s = codexAbout[c]
  <2>1. AtLock(codexQueue, codexCall, codexAbout, c)  BY DEF CodexInv, CodexLocks, Locks
  <2> QED  BY <1>1, <2>1 DEF AtLock
<1>3. PICK h \in Seq(Talks) : h = history[o]  BY CodexTypes
<1>4. PICK m \in Talks : m = <<c, "assistant">> /\ m[1] = c
  <2>1. <<c, "assistant">> \in Talks /\ <<c, "assistant">>[1] = c  BY DEF Talks
  <2> QED  BY <2>1
<1>5. PICK g \in Seq(Talks) :
        /\ g = Append(h, m) /\ Len(g) = Len(h) + 1 /\ Len(h) \in Nat
        /\ DOMAIN g = 1 .. Len(h) + 1 /\ DOMAIN h = 1 .. Len(h)
        /\ g[Len(h) + 1] = m /\ \A i \in 1 .. Len(h) : g[i] = h[i]
  BY Appended
<1>6. PICK status \in {"told", "failed"} : status = IF kept THEN "told" ELSE "failed"  OBVIOUS
<1>7. /\ codexQueue' = [codexQueue EXCEPT ![codexAbout[c]] = Tail(@)]
      /\ codexCall' = [codexCall EXCEPT ![c] = status]
      /\ thread' = [thread EXCEPT ![o] = IF @ = None THEN t ELSE @]
      /\ history' = [history EXCEPT ![o] = g]
      /\ file' = IF kept THEN [file EXCEPT ![s] = Codex!Saved(o, g, thread'[o])] ELSE file
      /\ UNCHANGED <<codexSessions, codexMade, codexActive, starting, codexAbout, codexObject,
                     codexCrashes>>
  BY <1>1, <1>2, <1>3, <1>4, <1>5, <1>6 DEF Codex!Answered, Codex!Release
<1>8. CodexLocks' /\ codexQueue' \in [Names -> Seq(Calls)]
  <2>1. codexAbout' = codexAbout  BY <1>7
  <2>2. codexCall[c] = "asks" /\ codexCall' = [codexCall EXCEPT ![c] = status]
        /\ codexQueue' = [codexQueue EXCEPT ![codexAbout[c]] = Tail(@)]
    BY <1>1, <1>7
  <2> QED  BY <2>1, <2>2, CodexReleased, Zenon
<1>9. /\ history'[o] = g /\ history' \in [Objects -> Seq(Talks)]
      /\ \A p \in Objects \ {o} : history'[p] = history[p]
  BY <1>7, CodexTypes
<1>10. /\ codexCall'[c] = status /\ codexCall' \in [Calls -> {"idle", "waits", "asks", "told", "failed"}]
       /\ \A d \in Calls \ {c} : codexCall'[d] = codexCall[d]
  BY <1>7, CodexTypes
<1>11. thread' \in [Objects -> Calls \cup {None}]  BY <1>7, CodexTypes
<1>12. PICK f : f = Codex!Saved(o, g, thread'[o])  OBVIOUS
<1>13. f \in Codex!Image /\ f.object = o /\ f.history = g /\ f # None
  <2>1. f \in Codex!Image /\ f.object = o /\ f.history = g
    BY <1>11, <1>12 DEF Codex!Saved, Codex!Image, Talks
  <2> QED  BY <2>1, CodexTypes
<1>14. /\ file' \in [Names -> Codex!Image \cup {None}]
       /\ \A n \in Names \ {s} : file'[n] = file[n]
       /\ file'[s] = IF kept THEN f ELSE file[s]
  BY <1>7, <1>12, <1>13, CodexTypes
<1>15. PICK own \in [Objects -> Names \cup {None}] : CodexOwner(own)
  BY DEF CodexInv, CodexOwned
<1>16. own[o] = s /\ o <= codexMade
  BY <1>1, <1>2, <1>15, CodexTypes DEF CodexOwner
<1>17. Codex!TypeOK'
  BY <1>7, <1>8, <1>9, <1>10, <1>11, <1>14 DEF CodexInv, Codex!TypeOK, Talks
<1>18. CodexCaptures'
  <2>1. codexObject'[c] # None  BY <1>1, <1>7, CodexTypes
  <2> QED  BY <1>7, <1>10, <2>1 DEF CodexInv, CodexCaptures
<1>19. CodexOwned'
  <2>1. \A n \in Names : file'[n] # None =>
          own[file'[n].object] = n /\ file'[n].object <= codexMade'
    BY <1>7, <1>13, <1>14, <1>15, <1>16 DEF CodexOwner
  <2>2. CodexOwner(own)'  BY <1>7, <1>15, <2>1 DEF CodexOwner
  <2> QED  BY <2>2 DEF CodexOwned
<1>20. CodexMessages'
  <2>1. ASSUME NEW i \in DOMAIN g PROVE codexObject[g[i][1]] = o
    <3>1. CASE i = Len(h) + 1  BY <1>1, <1>4, <1>5, <3>1
    <3>2. CASE i # Len(h) + 1
      <4>1. i \in DOMAIN h /\ g[i] = h[i]  BY <1>5, <3>2
      <4> QED  BY <1>3, <4>1 DEF CodexInv, CodexMessages
    <3> QED  BY <3>1, <3>2
  <2>2. ASSUME NEW p \in Objects, NEW i \in DOMAIN history'[p]
        PROVE  codexObject'[history'[p][i][1]] = p
    <3>1. CASE p = o  BY <1>7, <1>9, <2>1, <3>1
    <3>2. CASE p # o  BY <1>7, <1>9, <3>2 DEF CodexInv, CodexMessages
    <3> QED  BY <3>1, <3>2
  <2> QED  BY <2>2 DEF CodexMessages
<1>21. ASSUME NEW d \in Calls, codexCall'[d] = "asks"
       PROVE  codexCall[d] = "asks" /\ codexAbout[d] # s /\ codexObject[d] \in Objects \ {o}
  <2>1. d # c /\ codexCall[d] = "asks"  BY <1>10, <1>21
  <2>2. AtLock(codexQueue, codexCall, codexAbout, d) /\ AtLock(codexQueue, codexCall, codexAbout, c)
    BY DEF CodexInv, CodexLocks, Locks
  <2>3. codexAbout[d] # s  BY <1>1, <1>2, <2>1, <2>2 DEF AtLock
  <2>4. codexObject[d] # None /\ codexObject[d] \in Objects
    BY <2>1, CodexTypes DEF CodexInv, CodexCaptures
  <2> QED  BY <1>15, <1>16, <2>1, <2>3, <2>4 DEF CodexOwner
<1>22. CodexQuestions'
  BY <1>7, <1>9, <1>21 DEF CodexInv, CodexQuestions
<1>23. CodexFiles'
  <2>1. ASSUME NEW n \in Names, file[n] # None
        PROVE  Begins(file[n].history, history'[file[n].object])
    <3>1. file[n] \in Codex!Image  BY <2>1, CodexTypes
    <3>2. /\ file[n].object \in Objects /\ file[n].history \in Seq(Talks)
      BY <3>1 DEF Codex!Image, Talks
    <3>3. Begins(file[n].history, history[file[n].object])
      BY <2>1 DEF CodexInv, CodexFiles
    <3>4. Len(file[n].history) \in Nat  BY <3>2
    <3>5. CASE file[n].object = o
      <4>1. Begins(file[n].history, h)  BY <1>3, <3>3, <3>5
      <4>2. Begins(file[n].history, g)  BY <1>5, <3>4, <4>1 DEF Begins
      <4> QED  BY <1>9, <3>5, <4>2
    <3>6. CASE file[n].object # o  BY <1>9, <3>2, <3>3, <3>6
    <3> QED  BY <3>5, <3>6
  <2>2. Begins(g, g)
    <3>1. Len(g) \in Nat  BY <1>5
    <3> QED  BY <3>1 DEF Begins
  <2>3. ASSUME NEW n \in Names, file'[n] # None
        PROVE  Begins(file'[n].history, history'[file'[n].object])
    <3>1. CASE n = s /\ kept
      <4>1. file'[n] = f  BY <1>14, <3>1
      <4>2. Begins(f.history, history'[f.object])  BY <1>9, <1>13, <2>2
      <4> QED  BY <4>1, <4>2
    <3>2. CASE ~(n = s /\ kept)
      <4>1. file'[n] = file[n]  BY <1>14, <3>2
      <4> QED  BY <2>1, <2>3, <4>1
    <3> QED  BY <3>1, <3>2
  <2> QED  BY <2>3 DEF CodexFiles
<1>24. CodexTold'
  <2>1. ASSUME NEW d \in Calls, codexCall'[d] = "told"
        PROVE  LET n == codexAbout'[d]
                   p == codexObject'[d]
               IN  /\ Has(history'[p], d)
                   /\ file'[n] # None /\ file'[n].object = p => Has(file'[n].history, d)
                   /\ codexSessions'[n] = p =>
                        /\ file'[n] # None /\ file'[n].object = p
                        /\ \A e \in Calls : codexCall'[e] = "asks" /\ codexAbout'[e] = n =>
                             codexObject'[e] = p
    <3>1. CASE d = c
      <4>1. kept /\ status = "told"  BY <1>6, <1>10, <2>1, <3>1
      <4>2. Has(g, c)
        <5>1. Len(h) + 1 \in DOMAIN g /\ g[Len(h) + 1] = <<c, "assistant">>  BY <1>4, <1>5
        <5> QED  BY <5>1 DEF Has
      <4>3. \A e \in Calls : codexCall'[e] = "asks" => codexAbout'[e] # s  BY <1>7, <1>21
      <4>4. file'[s] = f  BY <1>14, <4>1
      <4>5. codexAbout'[c] = s /\ codexObject'[c] = o  BY <1>1, <1>2, <1>7
      <4> QED  BY <1>9, <1>13, <3>1, <4>2, <4>3, <4>4, <4>5
    <3>2. CASE d # c
      <4>1. codexCall[d] = "told"  BY <1>10, <2>1, <3>2
      <4>2. /\ codexObject[d] \in Objects /\ codexObject[d] # None /\ codexAbout[d] \in Names
        <5>1. AtLock(codexQueue, codexCall, codexAbout, d)  BY DEF CodexInv, CodexLocks, Locks
        <5> QED  BY <4>1, <5>1, CodexTypes DEF CodexInv, CodexCaptures, AtLock
      <4>3. /\ Has(history[codexObject[d]], d)
            /\ file[codexAbout[d]] # None /\ file[codexAbout[d]].object = codexObject[d] =>
                 Has(file[codexAbout[d]].history, d)
            /\ codexSessions[codexAbout[d]] = codexObject[d] =>
                 /\ file[codexAbout[d]] # None /\ file[codexAbout[d]].object = codexObject[d]
                 /\ \A e \in Calls : codexCall[e] = "asks" /\ codexAbout[e] = codexAbout[d] =>
                      codexObject[e] = codexObject[d]
        BY <4>1 DEF CodexInv, CodexTold
      <4>4. Has(history'[codexObject[d]], d)
        <5>1. CASE codexObject[d] = o
          <6>1. PICK i \in DOMAIN h : h[i] = <<d, "assistant">>  BY <1>3, <4>3, <5>1 DEF Has
          <6>2. i \in DOMAIN g /\ g[i] = <<d, "assistant">>  BY <1>5, <6>1
          <6> QED  BY <1>9, <5>1, <6>2 DEF Has
        <5>2. CASE codexObject[d] # o  BY <1>9, <4>2, <4>3, <5>2
        <5> QED  BY <5>1, <5>2
      <4>5. CASE codexAbout[d] = s /\ kept
        <5>1. file'[s] = f  BY <1>14, <4>5
        <5>2. codexObject[d] = o => Has(f.history, d)  BY <1>9, <1>13, <4>4
        <5>3. codexSessions[s] = codexObject[d] => codexObject[d] = o
          BY <1>1, <1>2, <4>3, <4>5
        <5>4. \A e \in Calls : codexCall'[e] = "asks" => codexAbout'[e] # s  BY <1>7, <1>21
        <5> QED  BY <1>7, <1>13, <4>4, <4>5, <5>1, <5>2, <5>3, <5>4
      <4>6. CASE ~(codexAbout[d] = s /\ kept)
        <5>1. file'[codexAbout[d]] = file[codexAbout[d]]  BY <1>14, <4>2, <4>6
        <5> QED  BY <1>7, <1>21, <4>3, <4>4, <5>1
      <4> QED  BY <4>5, <4>6
    <3> QED  BY <3>1, <3>2
  <2> QED  BY <2>1 DEF CodexTold
<1> QED  BY <1>8, <1>17, <1>18, <1>19, <1>20, <1>22, <1>23, <1>24 DEF CodexInv

(* A message is sent: it holds the lock of a free name, or waits behind    *)
(* whoever does.                                                           *)
LEMMA CodexSent ==
  ASSUME CodexInv, NEW c \in Calls, NEW s \in Names, Codex!Send(c, s)
  PROVE  CodexInv'
<1>1. /\ codexCall[c] = "idle" /\ codexSessions[s] # None
      /\ codexAbout' = [codexAbout EXCEPT ![c] = s]
      /\ UNCHANGED <<codexSessions, thread, codexMade, file, codexActive, starting, codexCrashes>>
  BY DEF Codex!Send, Codex!Open
<1>2. codexQueue \in [Names -> Seq(Calls)] /\ codexAbout \in [Calls -> Names \cup {None}]
  BY CodexTypes
<1>3. Locks(codexQueue, codexCall, codexAbout)  BY DEF CodexInv, CodexLocks
<1>4. CASE codexQueue[s] = <<>>
  <2>1. /\ codexQueue' = [codexQueue EXCEPT ![s] = <<c>>]
        /\ codexCall' = [codexCall EXCEPT ![c] = "asks"]
        /\ codexObject' = [codexObject EXCEPT ![c] = codexSessions[s]]
        /\ history' = [history EXCEPT ![codexSessions[s]] = Append(@, <<c, "user">>)]
    BY <1>1, <1>4 DEF Codex!Send, Codex!Ask
  <2>2. codexQueue' = [codexQueue EXCEPT ![s] = Append(@, c)]  BY <1>4, <2>1
  <2>3. \A d \in Calls \ {c} : codexCall'[d] = codexCall[d]  BY <2>1, CodexTypes
  <2>4. codexCall'[c] = IF codexQueue[s] = <<>> THEN "asks" ELSE "waits"
    BY <1>4, <2>1, CodexTypes
  <2>5. Locks([codexQueue EXCEPT ![s] = Append(@, c)], codexCall', [codexAbout EXCEPT ![c] = s])
    BY <1>1, <1>2, <1>3, <2>3, <2>4, LocksJoin
  <2>6. CodexLocks'  BY <1>1, <2>2, <2>5 DEF CodexLocks
  <2>7. codexQueue' \in [Names -> Seq(Calls)]  BY <1>2, <2>1
  <2>8. \A d \in Calls : codexCall[d] = "asks" => codexAbout[d] # s  BY <1>4, CodexFree
  <2>9. codexCall[c] \in {"idle", "waits"}  BY <1>1
  <2> QED  BY <1>1, <2>1, <2>6, <2>7, <2>8, <2>9, CodexAsked
<1>5. CASE codexQueue[s] # <<>>
  <2>1. /\ codexQueue' = [codexQueue EXCEPT ![s] = Append(@, c)]
        /\ codexCall' = [codexCall EXCEPT ![c] = "waits"]
        /\ UNCHANGED <<codexObject, history>>
    BY <1>1, <1>5 DEF Codex!Send
  <2>2. \A d \in Calls \ {c} : codexCall'[d] = codexCall[d] /\ codexAbout'[d] = codexAbout[d]
    BY <1>1, <2>1, CodexTypes
  <2>3. /\ codexCall'[c] = "waits" /\ codexObject[c] = None
        /\ codexCall' \in [Calls -> {"idle", "waits", "asks", "told", "failed"}]
    BY <1>1, <2>1, CodexTypes DEF CodexInv, CodexCaptures
  <2>4. Locks([codexQueue EXCEPT ![s] = Append(@, c)], codexCall', [codexAbout EXCEPT ![c] = s])
    <3>1. codexCall'[c] = IF codexQueue[s] = <<>> THEN "asks" ELSE "waits"  BY <1>5, <2>3
    <3> QED  BY <1>1, <1>2, <1>3, <2>2, <3>1, LocksJoin
  <2>5. CodexLocks'  BY <1>1, <2>1, <2>4 DEF CodexLocks
  <2>6. codexQueue' \in [Names -> Seq(Calls)]  BY <1>2, <2>1
  <2>7. codexAbout' \in [Calls -> Names \cup {None}]  BY <1>1, <1>2
  <2>8. Codex!TypeOK'  BY <1>1, <2>1, <2>3, <2>6, <2>7 DEF CodexInv, Codex!TypeOK
  <2>9. CodexCaptures'  BY <2>1, <2>2, <2>3 DEF CodexInv, CodexCaptures
  <2>10. CodexOwned'
    <3>1. PICK own \in [Objects -> Names \cup {None}] : CodexOwner(own)
      BY DEF CodexInv, CodexOwned
    <3>2. CodexOwner(own)'  BY <1>1, <2>1, <2>2, <2>3, <3>1 DEF CodexOwner
    <3> QED  BY <3>2 DEF CodexOwned
  <2>11. CodexMessages' /\ CodexFiles'
    BY <1>1, <2>1 DEF CodexInv, CodexMessages, CodexFiles
  <2>12. CodexQuestions'  BY <2>1, <2>2, <2>3 DEF CodexInv, CodexQuestions
  <2>13. CodexTold'
    <3>1. \A d \in Calls : codexCall'[d] = "told" => codexCall[d] = "told" /\ d # c  BY <2>2, <2>3
    <3>2. \A d \in Calls : codexCall'[d] = "asks" => codexCall[d] = "asks" /\ d # c  BY <2>2, <2>3
    <3> QED  BY <1>1, <2>1, <2>2, <3>1, <3>2 DEF CodexInv, CodexTold
  <2> QED  BY <2>5, <2>8, <2>9, <2>10, <2>11, <2>12, <2>13 DEF CodexInv
<1> QED  BY <1>4, <1>5

(* A waiter gets the lock: its session is there, or it is refused.         *)
LEMMA CodexEntered ==
  ASSUME CodexInv, NEW c \in Calls, Codex!Enters(c)
  PROVE  CodexInv'
<1>1. PICK s \in Names : s = codexAbout[c]
  <2>1. AtLock(codexQueue, codexCall, codexAbout, c)  BY DEF CodexInv, CodexLocks, Locks
  <2> QED  BY <2>1 DEF AtLock, Codex!Enters
<1>2. /\ codexCall[c] = "waits" /\ Head(codexQueue[s]) = c /\ codexAbout' = codexAbout
      /\ UNCHANGED <<codexSessions, thread, codexMade, file, codexActive, starting, codexCrashes>>
  BY <1>1 DEF Codex!Enters
<1>3. codexQueue \in [Names -> Seq(Calls)] /\ codexAbout \in [Calls -> Names \cup {None}]
  BY CodexTypes
<1>4. CASE codexSessions[s] = None
  <2>1. /\ codexQueue' = [codexQueue EXCEPT ![codexAbout[c]] = Tail(@)]
        /\ codexCall' = [codexCall EXCEPT ![c] = "failed"]
        /\ UNCHANGED <<codexObject, history>>
    BY <1>1, <1>4 DEF Codex!Enters, Codex!Ask
  <2>2. \/ codexCall[c] = "asks"
        \/ codexCall[c] = "waits" /\ Head(codexQueue[codexAbout[c]]) = c
    BY <1>1, <1>2
  <2>3. CodexLocks' /\ codexQueue' \in [Names -> Seq(Calls)]
    <3>1. "failed" \in {"told", "failed"}  OBVIOUS
    <3> QED  BY <1>2, <2>1, <2>2, <3>1, CodexReleased, Zenon
  <2>4. thread' \in [Objects -> Calls \cup {None}]  BY <1>2, CodexTypes
  <2>5. codexCall[c] \in {"waits", "asks"}  BY <1>2
  <2> QED  BY <1>2, <2>1, <2>3, <2>4, <2>5, CodexLeft
<1>5. CASE codexSessions[s] # None
  <2>1. /\ codexQueue' = [codexQueue EXCEPT ![s] = codexQueue[s]]
        /\ codexCall' = [codexCall EXCEPT ![c] = "asks"]
        /\ codexObject' = [codexObject EXCEPT ![c] = codexSessions[s]]
        /\ history' = [history EXCEPT ![codexSessions[s]] = Append(@, <<c, "user">>)]
    BY <1>1, <1>5 DEF Codex!Enters, Codex!Ask
  <2>2. codexQueue' = codexQueue  BY <1>3, <2>1
  <2>3. codexAbout' = [codexAbout EXCEPT ![c] = s]  BY <1>1, <1>2, <1>3
  <2>4. CodexLocks'
    <3>1. \A d \in Calls \ {c} : codexCall'[d] = codexCall[d]  BY <2>1, CodexTypes
    <3>2. codexCall'[c] = "asks"  BY <2>1, CodexTypes
    <3>3. Head(codexQueue[codexAbout[c]]) = c  BY <1>1, <1>2
    <3>4. Locks(codexQueue, codexCall', codexAbout)
      BY <1>2, <1>3, <3>1, <3>2, <3>3, LocksTake DEF CodexInv, CodexLocks
    <3> QED  BY <1>2, <2>2, <3>4 DEF CodexLocks
  <2>5. \A d \in Calls : codexCall[d] = "asks" => codexAbout[d] # s
    BY <1>1, <1>2, CodexFree
  <2>6. codexCall[c] \in {"idle", "waits"} /\ codexQueue' \in [Names -> Seq(Calls)]
    BY <1>2, <1>3, <2>2
  <2> QED  BY <1>2, <1>5, <2>1, <2>3, <2>4, <2>5, <2>6, CodexAsked
<1> QED  BY <1>4, <1>5

(* A caller gets no answer.                                                *)
LEMMA CodexFailed ==
  ASSUME CodexInv, NEW c \in Calls, NEW t \in {c, None},
         Codex!Silent(c, t) \/ Codex!Fails(c)
  PROVE  CodexInv'
<1>1. /\ codexCall[c] = "asks" /\ codexCall' = [codexCall EXCEPT ![c] = "failed"]
      /\ codexQueue' = [codexQueue EXCEPT ![codexAbout[c]] = Tail(@)]
      /\ UNCHANGED <<codexSessions, history, codexMade, file, codexActive, starting, codexAbout,
                     codexObject, codexCrashes>>
      /\ \/ thread' = thread
         \/ thread' = [thread EXCEPT ![codexObject[c]] = IF @ = None THEN t ELSE @]
  BY DEF Codex!Silent, Codex!Fails, Codex!Leaves, Codex!Release
<1>2. thread' \in [Objects -> Calls \cup {None}]
  <2>1. codexObject[c] \in Objects /\ t \in Calls \cup {None}
    BY <1>1, CodexTypes DEF CodexInv, CodexCaptures
  <2>2. CASE thread' = thread  BY <2>2, CodexTypes
  <2>3. CASE thread' = [thread EXCEPT ![codexObject[c]] = IF @ = None THEN t ELSE @]
    BY <2>1, <2>3, CodexTypes
  <2> QED  BY <1>1, <2>2, <2>3
<1>3. CodexLocks' /\ codexQueue' \in [Names -> Seq(Calls)]
  <2>1. codexAbout' = codexAbout /\ "failed" \in {"told", "failed"}  BY <1>1
  <2> QED  BY <1>1, <2>1, CodexReleased, Zenon
<1>4. codexCall[c] \in {"waits", "asks"}  BY <1>1
<1> QED  BY <1>1, <1>2, <1>3, <1>4, CodexLeft

(* A waiter is cancelled: it leaves its place, whoever holds the lock.     *)
LEMMA CodexWithdrew ==
  ASSUME CodexInv, NEW c \in Calls, Codex!WaiterCancelled(c)
  PROVE  CodexInv'
<1>1. /\ codexCall[c] = "waits" /\ codexCall' = [codexCall EXCEPT ![c] = "failed"]
      /\ codexQueue' = [codexQueue EXCEPT ![codexAbout[c]] = Codex!RemoveAt(@, Codex!Place(c))]
      /\ UNCHANGED <<codexSessions, history, thread, codexMade, file, codexActive, starting,
                     codexAbout, codexObject, codexCrashes>>
  BY DEF Codex!WaiterCancelled, Codex!Leaves, Codex!Withdraw
<1>2. AtLock(codexQueue, codexCall, codexAbout, c)  BY DEF CodexInv, CodexLocks, Locks
<1>3. PICK s \in Names : s = codexAbout[c]  BY <1>1, <1>2 DEF AtLock
<1>4. PICK p \in DOMAIN codexQueue[s] : p = Codex!Place(c) /\ codexQueue[s][p] = c
  BY <1>1, <1>2, <1>3 DEF AtLock, Codex!Place
<1>5. codexQueue[s] \in Seq(Calls) /\ p \in 1 .. Len(codexQueue[s])
  <2>1. codexQueue[s] \in Seq(Calls)  BY CodexTypes
  <2> QED  BY <1>4, <2>1
<1>6. PICK r : r = Codex!RemoveAt(codexQueue[s], p)  OBVIOUS
<1>7. Without(r, codexQueue[s], p)  BY <1>5, <1>6, RemoveWithout
<1>8. codexQueue' = [codexQueue EXCEPT ![s] = r]  BY <1>1, <1>3, <1>4, <1>6
<1>9. CodexLocks'
  <2>1. codexQueue \in [Names -> Seq(Calls)] /\ codexAbout \in [Calls -> Names \cup {None}]
    BY CodexTypes
  <2>2. Locks(codexQueue, codexCall, codexAbout)  BY DEF CodexInv, CodexLocks
  <2>3. \A d \in Calls \ {c} : codexCall'[d] = codexCall[d]  BY <1>1, CodexTypes
  <2>4. codexCall'[c] \notin {"idle", "waits", "asks"}  BY <1>1, CodexTypes
  <2>5. (p = 1 \/ codexCall[c] = "waits") /\ codexQueue[s][p] = c  BY <1>1, <1>4
  <2>6. PICK k : k = codexCall'  OBVIOUS
  <2>7. LeavesAt(codexQueue, codexCall, codexAbout, c, s, p, r, k)
    BY ONLY <1>5, <1>7, <2>1, <2>2, <2>3, <2>4, <2>5, <2>6, c \in Calls, s \in Names DEF LeavesAt
  <2>8. Locks([codexQueue EXCEPT ![s] = r], k, codexAbout)  BY ONLY <2>7, LocksLeave
  <2> QED  BY <1>1, <1>8, <2>6, <2>8 DEF CodexLocks
<1>10. codexQueue' \in [Names -> Seq(Calls)]  BY <1>7, <1>8, CodexTypes DEF Without
<1>11. thread' \in [Objects -> Calls \cup {None}]  BY <1>1, CodexTypes
<1>12. codexCall[c] \in {"waits", "asks"}  BY <1>1
<1> QED  BY <1>1, <1>9, <1>10, <1>11, <1>12, CodexLeft

(* What changes neither an object nor a call: a name is started, selected. *)
LEMMA CodexMarked ==
  ASSUME CodexInv, NEW s \in Names, Codex!StartBegins(s) \/ Codex!SetActive(s)
  PROVE  CodexInv'
<1>1. /\ UNCHANGED <<codexSessions, history, thread, codexMade, file, codexQueue, codexCall,
                     codexAbout, codexObject, codexCrashes>>
  BY DEF Codex!StartBegins, Codex!SetActive
<1>2. Codex!TypeOK'
  <2>1. /\ starting' \in [Names -> 0 .. Codex!Cardinality(Objects)]
        /\ codexActive' \in Names \cup {None}
        /\ codexActive' # None => codexSessions[codexActive'] # None
    <3>1. CASE Codex!SetActive(s)
      BY <3>1 DEF Codex!SetActive, Codex!Open, CodexInv, Codex!TypeOK
    <3>2. CASE Codex!StartBegins(s)
      <4>1. PICK n : n = Codex!Cardinality(Objects)  OBVIOUS
      <4>2. n \in Nat  BY <4>1, CodexCounts, Zenon
      <4>3. codexMade + starting[s] < n /\ starting' = [starting EXCEPT ![s] = @ + 1]
            /\ codexActive' = codexActive
        BY <3>2, <4>1 DEF Codex!StartBegins
      <4>4. starting \in [Names -> 0 .. n] /\ codexMade \in Nat
        BY <4>1, CodexTypes DEF CodexInv, Codex!TypeOK
      <4>5. starting[s] + 1 \in 0 .. n  BY <4>2, <4>3, <4>4
      <4>6. starting' \in [Names -> 0 .. n]  BY <4>3, <4>4, <4>5
      <4> QED  BY <4>1, <4>3, <4>6 DEF CodexInv, Codex!TypeOK
    <3> QED  BY <3>1, <3>2
  <2> QED  BY <1>1, <2>1 DEF CodexInv, Codex!TypeOK
<1>3. CodexOwned'
  <2>1. PICK own \in [Objects -> Names \cup {None}] : CodexOwner(own)
    BY DEF CodexInv, CodexOwned
  <2>2. CodexOwner(own)'  BY <1>1, <2>1 DEF CodexOwner
  <2> QED  BY <2>2 DEF CodexOwned
<1>4. CodexLocks' /\ CodexCaptures' /\ CodexMessages' /\ CodexFiles'
  BY <1>1 DEF CodexInv, CodexLocks, CodexCaptures, CodexMessages, CodexFiles
<1>5. CodexQuestions' /\ CodexTold'
  BY <1>1 DEF CodexInv, CodexQuestions, CodexTold
<1> QED  BY <1>2, <1>3, <1>4, <1>5 DEF CodexInv

(* A new object takes a name, and its file.                                *)
LEMMA CodexStarted ==
  ASSUME CodexInv, NEW s \in Names, Codex!Starts(s)
  PROVE  CodexInv'
<1>1. PICK o \in Objects : o = codexMade + 1  BY DEF Codex!Starts
<1>2. /\ starting[s] > 0 /\ starting' = [starting EXCEPT ![s] = @ - 1] /\ codexMade' = o
      /\ codexSessions' = [codexSessions EXCEPT ![s] = o] /\ codexActive' = s
      /\ file' = [file EXCEPT ![s] = Codex!Saved(o, history[o], thread[o])]
      /\ UNCHANGED <<history, thread, codexQueue, codexCall, codexAbout, codexObject, codexCrashes>>
  BY <1>1 DEF Codex!Starts
<1>3. PICK f : f = Codex!Saved(o, history[o], thread[o])  OBVIOUS
<1>4. f \in Codex!Image /\ f.object = o /\ f.history = history[o] /\ f # None
  <2>1. f \in Codex!Image /\ f.object = o /\ f.history = history[o]
    BY <1>3, CodexTypes DEF Codex!Saved, Codex!Image, Talks
  <2> QED  BY <2>1, CodexTypes
<1>5. /\ file' \in [Names -> Codex!Image \cup {None}] /\ file'[s] = f
      /\ \A n \in Names \ {s} : file'[n] = file[n]
  BY <1>2, <1>3, <1>4, CodexTypes
<1>6. /\ codexSessions' \in [Names -> Objects \cup {None}] /\ codexSessions'[s] = o
      /\ \A n \in Names \ {s} : codexSessions'[n] = codexSessions[n]
  BY <1>2, CodexTypes
<1>7. o \in Nat /\ codexMade \in Nat /\ ~(o <= codexMade) /\ o # None /\ s # None
  BY <1>1, CodexTypes
<1>8. PICK own \in [Objects -> Names \cup {None}] : CodexOwner(own)
  BY DEF CodexInv, CodexOwned
<1>9. /\ \A n \in Names : codexSessions[n] # o /\ (file[n] # None => file[n].object # o)
      /\ \A c \in Calls : codexObject[c] # o
  BY <1>7, <1>8 DEF CodexOwner
<1>10. Codex!TypeOK'
  <2>1. PICK n : n = Codex!Cardinality(Objects)  OBVIOUS
  <2>2. n \in Nat /\ Objects = 1 .. n  BY <2>1, CodexCounts, Zenon
  <2>3. codexMade' \in 0 .. n  BY <1>2, <1>7, <2>2
  <2>4. starting \in [Names -> 0 .. n]  BY <2>1 DEF CodexInv, Codex!TypeOK
  <2>5. starting[s] - 1 \in 0 .. n  BY <1>2, <2>2, <2>4
  <2>6. starting' \in [Names -> 0 .. n]  BY <1>2, <2>4, <2>5
  <2>7. /\ codexMade' \in 0 .. Codex!Cardinality(Objects)
        /\ starting' \in [Names -> 0 .. Codex!Cardinality(Objects)]
    BY <2>1, <2>3, <2>6
  <2>8. codexActive' \in Names \cup {None} /\ (codexActive' # None => codexSessions'[codexActive'] # None)
    BY <1>2, <1>6, <1>7
  <2> QED  BY <1>2, <1>5, <1>6, <2>7, <2>8 DEF CodexInv, Codex!TypeOK
<1>11. CodexOwned'
  <2>1. PICK new \in [Objects -> Names \cup {None}] : new = [own EXCEPT ![o] = s]  OBVIOUS
  <2>2. new[o] = s /\ \A p \in Objects \ {o} : new[p] = own[p]  BY <2>1
  <2>3. ASSUME NEW n \in Names, codexSessions'[n] # None
        PROVE  new[codexSessions'[n]] = n /\ codexSessions'[n] <= codexMade'
    <3>1. CASE n = s  BY <1>2, <1>6, <1>7, <2>2, <3>1
    <3>2. CASE n # s
      <4>1. codexSessions'[n] = codexSessions[n] /\ codexSessions[n] \in Objects \ {o}
        BY <1>6, <1>9, <2>3, <3>2, CodexTypes
      <4>2. codexSessions[n] \in Nat  BY <4>1, CodexTypes
      <4> QED  BY <1>1, <1>2, <1>7, <1>8, <2>2, <2>3, <4>1, <4>2 DEF CodexOwner
    <3> QED  BY <3>1, <3>2
  <2>4. ASSUME NEW n \in Names, file'[n] # None
        PROVE  new[file'[n].object] = n /\ file'[n].object <= codexMade'
    <3>1. CASE n = s  BY <1>2, <1>4, <1>5, <1>7, <2>2, <3>1
    <3>2. CASE n # s
      <4>1. file'[n] = file[n] /\ file[n] # None /\ file[n] \in Codex!Image
        BY <1>5, <2>4, <3>2, CodexTypes
      <4>2. file[n].object \in Objects \ {o}  BY <1>9, <4>1 DEF Codex!Image
      <4>3. file[n].object \in Nat  BY <4>2, CodexTypes
      <4> QED  BY <1>1, <1>2, <1>7, <1>8, <2>2, <4>1, <4>2, <4>3 DEF CodexOwner
    <3> QED  BY <3>1, <3>2
  <2>5. ASSUME NEW c \in Calls, codexObject[c] # None
        PROVE  new[codexObject[c]] = codexAbout[c] /\ codexObject[c] <= codexMade'
    <3>1. codexObject[c] \in Objects \ {o} /\ codexObject[c] \in Nat  BY <1>9, <2>5, CodexTypes
    <3> QED  BY <1>1, <1>2, <1>7, <1>8, <2>2, <2>5, <3>1 DEF CodexOwner
  <2>6. CodexOwner(new)'  BY <1>2, <2>3, <2>4, <2>5 DEF CodexOwner
  <2> QED  BY <2>6 DEF CodexOwned
<1>12. CodexLocks' /\ CodexCaptures' /\ CodexMessages'
  BY <1>2 DEF CodexInv, CodexLocks, CodexCaptures, CodexMessages
<1>13. CodexQuestions'  BY <1>2 DEF CodexInv, CodexQuestions
<1>14. CodexFiles'
  <2>1. Begins(history[o], history[o])
    <3>1. Len(history[o]) \in Nat  BY CodexTypes
    <3> QED  BY <3>1 DEF Begins
  <2> QED  BY <1>2, <1>4, <1>5, <2>1 DEF CodexInv, CodexFiles
<1>15. CodexTold'
  <2>1. ASSUME NEW d \in Calls, codexCall[d] = "told", codexAbout[d] = s
        PROVE  file'[s].object # codexObject[d] /\ codexSessions'[s] # codexObject[d]
    BY <1>4, <1>5, <1>6, <1>9
  <2>2. \A d \in Calls : codexCall[d] = "told" => codexAbout[d] \in Names
    <3>1. ASSUME NEW d \in Calls, codexCall[d] = "told" PROVE codexAbout[d] \in Names
      <4>1. AtLock(codexQueue, codexCall, codexAbout, d)  BY DEF CodexInv, CodexLocks, Locks
      <4> QED  BY <3>1, <4>1 DEF AtLock
    <3> QED  BY <3>1
  <2> QED  BY <1>2, <1>5, <1>6, <2>1, <2>2 DEF CodexInv, CodexTold
<1> QED  BY <1>10, <1>11, <1>12, <1>13, <1>14, <1>15 DEF CodexInv

(* A save of the current object, in the middle of whatever call is on.     *)
LEMMA CodexTouched ==
  ASSUME CodexInv, NEW s \in Names, Codex!Touch(s)
  PROVE  CodexInv'
<1>1. PICK o \in Objects : o = codexSessions[s]
  BY CodexTypes DEF Codex!Touch, Codex!Open
<1>2. /\ file' = [file EXCEPT ![s] = Codex!Saved(o, history[o], thread[o])]
      /\ UNCHANGED <<codexSessions, history, thread, codexMade, codexActive, starting, codexQueue,
                     codexCall, codexAbout, codexObject, codexCrashes>>
  BY <1>1 DEF Codex!Touch
<1>3. PICK f : f = Codex!Saved(o, history[o], thread[o])  OBVIOUS
<1>4. f \in Codex!Image /\ f.object = o /\ f.history = history[o] /\ f # None
  <2>1. f \in Codex!Image /\ f.object = o /\ f.history = history[o]
    BY <1>3, CodexTypes DEF Codex!Saved, Codex!Image, Talks
  <2> QED  BY <2>1, CodexTypes
<1>5. /\ file' \in [Names -> Codex!Image \cup {None}] /\ file'[s] = f
      /\ \A n \in Names \ {s} : file'[n] = file[n]
  BY <1>2, <1>3, <1>4, CodexTypes
<1>6. PICK own \in [Objects -> Names \cup {None}] : CodexOwner(own)
  BY DEF CodexInv, CodexOwned
<1>7. own[o] = s /\ o <= codexMade  BY <1>1, <1>6, CodexTypes DEF CodexOwner
<1>8. Codex!TypeOK'  BY <1>2, <1>5 DEF CodexInv, Codex!TypeOK
<1>9. CodexOwned'
  <2>1. \A n \in Names : file'[n] # None =>
          own[file'[n].object] = n /\ file'[n].object <= codexMade'
    BY <1>2, <1>4, <1>5, <1>6, <1>7 DEF CodexOwner
  <2>2. CodexOwner(own)'  BY <1>2, <1>6, <2>1 DEF CodexOwner
  <2> QED  BY <2>2 DEF CodexOwned
<1>10. CodexLocks' /\ CodexCaptures' /\ CodexMessages' /\ CodexQuestions'
  BY <1>2 DEF CodexInv, CodexLocks, CodexCaptures, CodexMessages, CodexQuestions
<1>11. CodexFiles'
  <2>1. Begins(history[o], history[o])
    <3>1. Len(history[o]) \in Nat  BY CodexTypes
    <3> QED  BY <3>1 DEF Begins
  <2> QED  BY <1>2, <1>4, <1>5, <2>1 DEF CodexInv, CodexFiles
<1>12. CodexTold'
  <2>1. ASSUME NEW d \in Calls, codexCall[d] = "told"
        PROVE  LET n == codexAbout[d]
                   p == codexObject[d]
               IN  /\ Has(history[p], d)
                   /\ file'[n] # None /\ file'[n].object = p => Has(file'[n].history, d)
                   /\ codexSessions[n] = p =>
                        /\ file'[n] # None /\ file'[n].object = p
                        /\ \A e \in Calls : codexCall[e] = "asks" /\ codexAbout[e] = n =>
                             codexObject[e] = p
    <3>1. AtLock(codexQueue, codexCall, codexAbout, d)  BY DEF CodexInv, CodexLocks, Locks
    <3>2. codexAbout[d] \in Names  BY <2>1, <3>1 DEF AtLock
    <3>3. CASE codexAbout[d] = s  BY <1>1, <1>4, <1>5, <2>1, <3>3 DEF CodexInv, CodexTold
    <3>4. CASE codexAbout[d] # s  BY <1>5, <2>1, <3>2, <3>4 DEF CodexInv, CodexTold
    <3> QED  BY <3>3, <3>4
  <2> QED  BY <1>2, <2>1 DEF CodexTold
<1> QED  BY <1>8, <1>9, <1>10, <1>11, <1>12 DEF CodexInv

(* Sessions end: their names have neither an object nor a file.            *)
LEMMA CodexEnded ==
  ASSUME CodexInv, NEW ended \in SUBSET Names, Codex!End(ended)
  PROVE  CodexInv'
<1>1. /\ codexSessions' = [s \in Names |-> IF s \in ended THEN None ELSE codexSessions[s]]
      /\ file' = [s \in Names |-> IF s \in ended THEN None ELSE file[s]]
      /\ codexActive' = IF codexActive \in ended THEN None ELSE codexActive
      /\ UNCHANGED <<history, thread, codexMade, starting, codexQueue, codexCall, codexAbout,
                     codexObject, codexCrashes>>
  BY DEF Codex!End, Codex!NoLongerActive
<1>2. \A s \in Names : /\ codexSessions'[s] = None \/ codexSessions'[s] = codexSessions[s]
                       /\ (file'[s] = None /\ codexSessions'[s] = None) \/ file'[s] = file[s]
  BY <1>1
<1>3. Codex!TypeOK'
  <2>1. codexActive' # None => codexSessions'[codexActive'] # None
    BY <1>1 DEF CodexInv, Codex!TypeOK
  <2> QED  BY <1>1, <2>1 DEF CodexInv, Codex!TypeOK
<1>4. CodexOwned'
  <2>1. PICK own \in [Objects -> Names \cup {None}] : CodexOwner(own)
    BY DEF CodexInv, CodexOwned
  <2>2. CodexOwner(own)'  BY <1>1, <1>2, <2>1 DEF CodexOwner
  <2> QED  BY <2>2 DEF CodexOwned
<1>5. CodexLocks' /\ CodexCaptures' /\ CodexMessages' /\ CodexQuestions'
  BY <1>1 DEF CodexInv, CodexLocks, CodexCaptures, CodexMessages, CodexQuestions
<1>6. CodexFiles'
  <2>1. ASSUME NEW s \in Names, file'[s] # None PROVE Begins(file'[s].history, history[file'[s].object])
    BY <1>2, <2>1 DEF CodexInv, CodexFiles
  <2> QED  BY <1>1, <2>1 DEF CodexFiles
<1>7. CodexTold'
  <2>1. ASSUME NEW d \in Calls, codexCall[d] = "told"
        PROVE  LET n == codexAbout[d]
                   p == codexObject[d]
               IN  /\ Has(history[p], d)
                   /\ file'[n] # None /\ file'[n].object = p => Has(file'[n].history, d)
                   /\ codexSessions'[n] = p =>
                        /\ file'[n] # None /\ file'[n].object = p
                        /\ \A e \in Calls : codexCall[e] = "asks" /\ codexAbout[e] = n =>
                             codexObject[e] = p
    <3>1. AtLock(codexQueue, codexCall, codexAbout, d)  BY DEF CodexInv, CodexLocks, Locks
    <3>2. codexAbout[d] \in Names /\ codexObject[d] # None
      BY <2>1, <3>1 DEF AtLock, CodexInv, CodexCaptures
    <3> QED  BY <1>2, <2>1, <3>2 DEF CodexInv, CodexTold
  <2> QED  BY <1>1, <2>1 DEF CodexTold
<1> QED  BY <1>3, <1>4, <1>5, <1>6, <1>7 DEF CodexInv

(* The bridge starts again: an object is what the file of its name says,   *)
(* or, when no file is of it, what it was.                                 *)
LEMMA CodexRestored ==
  ASSUME CodexInv, Codex!Restart, NEW o \in Objects
  PROVE  \/ history'[o] = history[o] /\ thread'[o] = thread[o]
            /\ \A s \in Names : file[s] # None => file[s].object # o
         \/ \E s \in Names : /\ file[s] # None /\ file[s].object = o
                             /\ history'[o] = file[s].history /\ thread'[o] = file[s].thread
<1>1. PICK own \in [Objects -> Names \cup {None}] : CodexOwner(own)
  BY DEF CodexInv, CodexOwned
<1>2. CASE \A s \in Names : file[s] # None => file[s].object # o
  BY <1>2 DEF Codex!Restart
<1>3. CASE \E s \in Names : file[s] # None /\ file[s].object = o
  <2>1. PICK s \in Names : file[s] # None /\ file[s].object = o  BY <1>3
  <2>2. \A t \in {n \in Names : file[n] # None} : file[t].object = o <=> t = s
    BY <1>1, <2>1 DEF CodexOwner
  <2>3. (CHOOSE t \in {n \in Names : file[n] # None} : file[t].object = o) = s
    BY <2>1, <2>2
  <2>4. o \in {file[t].object : t \in {n \in Names : file[n] # None}}  BY <2>1
  <2>5. history'[o] = file[s].history /\ thread'[o] = file[s].thread
    BY <2>3, <2>4 DEF Codex!Restart
  <2> QED  BY <2>1, <2>5
<1> QED  BY <1>2, <1>3

LEMMA CodexRestarted ==
  ASSUME CodexInv, Codex!Restart
  PROVE  CodexInv'
<1>1. /\ codexCrashes < MaxCrashes /\ codexCrashes' = codexCrashes + 1
      /\ codexSessions' = [s \in Names |-> IF file[s] = None THEN None ELSE file[s].object]
      /\ codexActive' = None /\ starting' = [s \in Names |-> 0]
      /\ codexQueue' = [s \in Names |-> <<>>]
      /\ codexCall' = [c \in Calls |-> IF codexCall[c] \in {"waits", "asks"} THEN "failed"
                                       ELSE codexCall[c]]
      /\ UNCHANGED <<codexMade, file, codexAbout, codexObject>>
  BY DEF Codex!Restart
<1>2. ASSUME NEW s \in Names, file[s] # None
      PROVE  /\ file[s] \in Codex!Image /\ file[s].object \in Objects
             /\ file[s].history \in Seq(Talks) /\ file[s].thread \in Calls \cup {None}
             /\ history'[file[s].object] = file[s].history
  <2>1. file[s] \in Codex!Image  BY <1>2, CodexTypes
  <2>2. /\ file[s].object \in Objects /\ file[s].history \in Seq(Talks)
        /\ file[s].thread \in Calls \cup {None}
    BY <2>1 DEF Codex!Image, Talks
  <2>3. PICK own \in [Objects -> Names \cup {None}] : CodexOwner(own)
    BY DEF CodexInv, CodexOwned
  <2>4. \A t \in Names : file[t] # None /\ file[t].object = file[s].object => t = s
    BY <1>2, <2>3 DEF CodexOwner
  <2> QED  BY <1>2, <2>1, <2>2, <2>4, CodexRestored
<1>3. ASSUME NEW o \in Objects
      PROVE  /\ history'[o] \in Seq(Talks) /\ thread'[o] \in Calls \cup {None}
             /\ Begins(history'[o], history[o])
  <2>1. CASE history'[o] = history[o] /\ thread'[o] = thread[o]
    <3>1. history[o] \in Seq(Talks) /\ thread[o] \in Calls \cup {None}  BY CodexTypes
    <3>2. Len(history[o]) \in Nat  BY <3>1
    <3> QED  BY <2>1, <3>1, <3>2 DEF Begins
  <2>2. ASSUME NEW s \in Names, file[s] # None, file[s].object = o,
               history'[o] = file[s].history, thread'[o] = file[s].thread
        PROVE  /\ history'[o] \in Seq(Talks) /\ thread'[o] \in Calls \cup {None}
               /\ Begins(history'[o], history[o])
    BY <1>2, <2>2 DEF CodexInv, CodexFiles
  <2> QED  BY <2>1, <2>2, CodexRestored
<1>4. history' \in [Objects -> Seq(Talks)] /\ thread' \in [Objects -> Calls \cup {None}]
  <2>1. history' = [o \in Objects |-> history'[o]] /\ thread' = [o \in Objects |-> thread'[o]]
    BY DEF Codex!Restart
  <2> QED  BY <1>3, <2>1
<1>5. /\ codexCall' \in [Calls -> {"idle", "waits", "asks", "told", "failed"}]
      /\ \A c \in Calls : /\ codexCall'[c] \notin {"waits", "asks"}
                          /\ codexCall'[c] = codexCall[c] \/ (codexCall[c] # "idle" /\ codexCall'[c] = "failed")
  BY <1>1, CodexTypes
<1>6. Codex!TypeOK'
  <2>1. codexCrashes' \in 0 .. MaxCrashes
    <3>1. MaxCrashes \in Nat /\ codexCrashes \in 0 .. MaxCrashes
      BY BoundsAreNatural DEF CodexInv, Codex!TypeOK
    <3> QED  BY <1>1, <3>1
  <2>2. starting' \in [Names -> 0 .. Codex!Cardinality(Objects)]
    <3>1. PICK n : n = Codex!Cardinality(Objects)  OBVIOUS
    <3>2. n \in Nat  BY <3>1, CodexCounts, Zenon
    <3>3. starting' \in [Names -> 0 .. n]  BY <1>1, <3>2
    <3> QED  BY <3>1, <3>3
  <2>3. codexSessions' \in [Names -> Objects \cup {None}]  BY <1>1, <1>2
  <2>4. codexQueue' \in [Names -> Seq(Calls)]  BY <1>1
  <2> QED  BY <1>1, <1>4, <1>5, <2>1, <2>2, <2>3, <2>4 DEF CodexInv, Codex!TypeOK, Talks
<1>7. CodexLocks'
  <2>1. \A s \in Names : InQueue(codexQueue', codexCall', codexAbout', s)
    BY <1>1 DEF InQueue
  <2>2. ASSUME NEW c \in Calls PROVE AtLock(codexQueue', codexCall', codexAbout', c)
    <3>1. AtLock(codexQueue, codexCall, codexAbout, c)  BY DEF CodexInv, CodexLocks, Locks
    <3> QED  BY <1>1, <1>5, <3>1 DEF AtLock
  <2> QED  BY <2>1, <2>2 DEF CodexLocks, Locks
<1>8. CodexCaptures'  BY <1>1, <1>5 DEF CodexInv, CodexCaptures
<1>9. CodexOwned'
  <2>1. PICK own \in [Objects -> Names \cup {None}] : CodexOwner(own)
    BY DEF CodexInv, CodexOwned
  <2>2. CodexOwner(own)'  BY <1>1, <2>1 DEF CodexOwner
  <2> QED  BY <2>2 DEF CodexOwned
<1>10. CodexMessages'
  <2>1. ASSUME NEW o \in Objects, NEW i \in DOMAIN history'[o]
        PROVE  codexObject[history'[o][i][1]] = o
    <3>1. /\ DOMAIN history'[o] = 1 .. Len(history'[o]) /\ Len(history'[o]) \in Nat
          /\ DOMAIN history[o] = 1 .. Len(history[o]) /\ Len(history[o]) \in Nat
      <4>1. history'[o] \in Seq(Talks) /\ history[o] \in Seq(Talks)  BY <1>3, CodexTypes
      <4> QED  BY <4>1
    <3>2. i \in DOMAIN history[o] /\ history'[o][i] = history[o][i]
      BY <1>3, <3>1 DEF Begins
    <3> QED  BY <3>2 DEF CodexInv, CodexMessages
  <2> QED  BY <1>1, <2>1 DEF CodexMessages
<1>11. CodexQuestions'  BY <1>5 DEF CodexQuestions
<1>12. CodexFiles'
  <2>1. ASSUME NEW s \in Names, file[s] # None
        PROVE  Begins(file[s].history, history'[file[s].object])
    <3>1. Len(file[s].history) \in Nat  BY <1>2, <2>1
    <3> QED  BY <1>2, <2>1, <3>1 DEF Begins
  <2> QED  BY <1>1, <2>1 DEF CodexFiles
<1>13. CodexTold'
  <2>1. ASSUME NEW d \in Calls, codexCall'[d] = "told"
        PROVE  LET n == codexAbout[d]
                   p == codexObject[d]
               IN  /\ Has(history'[p], d)
                   /\ file[n] # None /\ file[n].object = p => Has(file[n].history, d)
                   /\ codexSessions'[n] = p => file[n] # None /\ file[n].object = p
    <3>1. codexCall[d] = "told"  BY <1>5, <2>1
    <3>2. AtLock(codexQueue, codexCall, codexAbout, d)  BY DEF CodexInv, CodexLocks, Locks
    <3>3. codexAbout[d] \in Names /\ codexObject[d] \in Objects /\ codexObject[d] # None
      BY <3>1, <3>2, CodexTypes DEF AtLock, CodexInv, CodexCaptures
    <3>4. /\ Has(history[codexObject[d]], d)
          /\ file[codexAbout[d]] # None /\ file[codexAbout[d]].object = codexObject[d] =>
               Has(file[codexAbout[d]].history, d)
      BY <3>1 DEF CodexInv, CodexTold
    <3>5. Has(history'[codexObject[d]], d)
      <4>1. PICK own \in [Objects -> Names \cup {None}] : CodexOwner(own)
        BY DEF CodexInv, CodexOwned
      <4>2. \A s \in Names : file[s] # None /\ file[s].object = codexObject[d] => s = codexAbout[d]
        BY <3>3, <4>1 DEF CodexOwner
      <4> QED  BY <3>3, <3>4, <4>2, CodexRestored
    <3> QED  BY <1>1, <3>3, <3>4, <3>5
  <2> QED  BY <1>1, <1>5, <2>1 DEF CodexTold
<1> QED  BY <1>6, <1>7, <1>8, <1>9, <1>10, <1>11, <1>12, <1>13 DEF CodexInv

LEMMA CodexUnmoved == ASSUME CodexInv, UNCHANGED codexVars PROVE CodexInv'
<1> USE DEF codexVars
<1>1. Codex!TypeOK'  BY DEF CodexInv, Codex!TypeOK
<1>2. CodexOwned'
  <2>1. PICK own \in [Objects -> Names \cup {None}] : CodexOwner(own)
    BY DEF CodexInv, CodexOwned
  <2>2. CodexOwner(own)'  BY <2>1 DEF CodexOwner
  <2> QED  BY <2>2 DEF CodexOwned
<1>3. CodexLocks' /\ CodexCaptures' /\ CodexMessages' /\ CodexFiles'
  BY DEF CodexInv, CodexLocks, CodexCaptures, CodexMessages, CodexFiles
<1>4. CodexQuestions' /\ CodexTold'
  BY DEF CodexInv, CodexQuestions, CodexTold
<1> QED  BY <1>1, <1>2, <1>3, <1>4 DEF CodexInv

LEMMA CodexSteps ==
  ASSUME CodexInv, Codex!Next \/ UNCHANGED codexVars
  PROVE  CodexInv'
<1>1. ASSUME NEW s \in Names,
             Codex!StartBegins(s) \/ Codex!Starts(s) \/ Codex!Touch(s) \/ Codex!SetActive(s)
      PROVE  CodexInv'
  BY <1>1, CodexMarked, CodexStarted, CodexTouched
<1>2. ASSUME NEW c \in Calls, NEW s \in Names, Codex!Send(c, s) PROVE CodexInv'
  BY <1>2, CodexSent
<1>3. ASSUME NEW c \in Calls, Codex!Body(c) PROVE CodexInv'
  <2>1. CASE Codex!Enters(c)  BY <2>1, CodexEntered
  <2>2. CASE Codex!Fails(c)  BY <2>2, CodexFailed
  <2>3. CASE Codex!WaiterCancelled(c)  BY <2>3, CodexWithdrew
  <2>4. ASSUME NEW t \in {c, None}, Codex!Silent(c, t) PROVE CodexInv'  BY <2>4, CodexFailed
  <2>5. ASSUME NEW t \in {c, None}, NEW kept \in BOOLEAN, Codex!Answered(c, t, kept)
        PROVE  CodexInv'
    BY <2>5, CodexAnswered
  <2> QED  BY <1>3, <2>1, <2>2, <2>3, <2>4, <2>5 DEF Codex!Body
<1>4. ASSUME NEW ended \in SUBSET Names, Codex!End(ended) PROVE CodexInv'
  BY <1>4, CodexEnded
<1> QED  BY <1>1, <1>2, <1>3, <1>4, CodexRestarted, CodexUnmoved DEF Codex!Next

LEMMA CodexAlways == Spec => []CodexInv
<1>1. Init => CodexInv  BY CodexInit DEF Init
<1>2. CodexInv /\ [Next]_vars => CodexInv'
  <2> SUFFICES ASSUME CodexInv, [Next]_vars PROVE CodexInv'  OBVIOUS
  <2>1. Codex!Next \/ UNCHANGED codexVars
    BY DEF Next, vars, RescueRuns, CodexRuns, LocalRuns, HttpRuns, GpuRuns, PeerRuns, EditsRuns
  <2> QED  BY <2>1, CodexSteps
<1> QED  BY <1>1, <1>2, PTL DEF Spec

LEMMA CodexKeeps == CodexInv => Codex!RepliesAreKept
<1> SUFFICES ASSUME CodexInv, NEW c \in Calls, codexCall[c] = "told",
                    codexSessions[codexAbout[c]] = codexObject[c]
             PROVE  /\ file[codexAbout[c]] # None /\ file[codexAbout[c]].object = codexObject[c]
                    /\ \E i \in DOMAIN file[codexAbout[c]].history :
                          file[codexAbout[c]].history[i] = <<c, "assistant">>
  BY DEF Codex!RepliesAreKept
<1> QED  BY DEF CodexInv, CodexTold, Has

-----------------------------------------------------------------------------
(* Every step is one of the conversation of each object. k says where a    *)
(* call is, b which object it captured; l and t are the log and the turn   *)
(* of an object before a step, m and u after it.                           *)

Answering(k, b, o) ==
  LET asking == {c \in Calls : k[c] = "asks" /\ b[c] = o}
  IN  IF asking = {} THEN None ELSE CHOOSE c \in asking : TRUE
Says(l, t, m, u) ==
  \/ \E c \in Calls : /\ t = None /\ \A i \in DOMAIN l : l[i][1] # c
                      /\ u = c /\ m = Append(l, <<c, "user">>)
  \/ /\ t # None /\ l # <<>> /\ l[Len(l)] = <<t, "user">>
     /\ u = None /\ m = Append(l, <<t, "assistant">>)
  \/ /\ t # None /\ u = None
     /\ \/ m = l
        \/ l # <<>> /\ l[Len(l)] = <<t, "user">> /\ m = SubSeq(l, 1, Len(l) - 1)
  \/ u = None /\ \E n \in 0 .. Len(l) : m = SubSeq(l, 1, n)
  \/ m = l /\ u = t

LEMMA OneAnswers ==
  ASSUME NEW k, NEW b, NEW o, NEW c \in Calls, k[c] = "asks", b[c] = o,
         \A d \in Calls : k[d] = "asks" /\ b[d] = o => d = c
  PROVE  Answering(k, b, o) = c
<1>1. {d \in Calls : k[d] = "asks" /\ b[d] = o} = {c}  OBVIOUS
<1>2. (CHOOSE d \in {c} : TRUE) = c  OBVIOUS
<1> QED  BY <1>1, <1>2 DEF Answering

LEMMA NobodyAnswers ==
  ASSUME NEW k, NEW b, NEW o, \A d \in Calls : ~(k[d] = "asks" /\ b[d] = o)
  PROVE  Answering(k, b, o) = None
BY DEF Answering

LEMMA SameAnswers ==
  ASSUME NEW k, NEW b, NEW j, NEW e, NEW o,
         \A d \in Calls : k[d] = "asks" /\ b[d] = o <=> j[d] = "asks" /\ e[d] = o
  PROVE  Answering(k, b, o) = Answering(j, e, o)
<1>1. PICK S : S = {d \in Calls : k[d] = "asks" /\ b[d] = o}  OBVIOUS
<1>2. PICK T : T = {d \in Calls : j[d] = "asks" /\ e[d] = o}  OBVIOUS
<1>3. S = T  BY <1>1, <1>2
<1>4. Answering(k, b, o) = IF S = {} THEN None ELSE CHOOSE c \in S : TRUE
  BY <1>1 DEF Answering
<1>5. Answering(j, e, o) = IF T = {} THEN None ELSE CHOOSE c \in T : TRUE
  BY <1>2 DEF Answering
<1> QED  BY <1>3, <1>4, <1>5

LEMMA CodexTalks ==
  ASSUME \A o \in Objects : Says(history[o], Answering(codexCall, codexObject, o),
                                 history'[o], Answering(codexCall', codexObject', o))
  PROVE  Codex!Talk!Next
<1>1. ASSUME NEW o \in Objects
      PROVE  /\ [p \in Objects |-> Codex!Turn(p)][o] = Answering(codexCall, codexObject, o)
             /\ [p \in Objects |-> Codex!Turn(p)]'[o] = Answering(codexCall', codexObject', o)
  BY DEF Codex!Turn, Answering
<1> QED
  BY <1>1 DEF Says, Codex!Talk!Next, Codex!Talk!Ask, Codex!Talk!Answer, Codex!Talk!Answered,
     Codex!Talk!GiveUp, Codex!Talk!Restore, Codex!Talk!Rests

LEMMA CodexAlone ==
  ASSUME CodexInv, NEW c \in Calls, NEW d \in Calls, codexCall[c] = "asks", codexCall[d] = "asks",
         codexAbout[c] = codexAbout[d] \/ codexObject[c] = codexObject[d]
  PROVE  c = d /\ codexObject[c] \in Objects
<1>1. PICK own \in [Objects -> Names \cup {None}] : CodexOwner(own)
  BY DEF CodexInv, CodexOwned
<1>2. codexObject[c] # None /\ codexObject[d] # None  BY DEF CodexInv, CodexCaptures
<1>3. codexAbout[c] = codexAbout[d]  BY <1>1, <1>2 DEF CodexOwner
<1>4. AtLock(codexQueue, codexCall, codexAbout, c) /\ AtLock(codexQueue, codexCall, codexAbout, d)
  BY DEF CodexInv, CodexLocks, Locks
<1> QED  BY <1>2, <1>3, <1>4, CodexTypes DEF AtLock

(* Getting the lock asks; whoever captured nothing has said nothing.       *)
LEMMA CodexAsks ==
  ASSUME CodexInv, NEW c \in Calls, NEW s \in Names, codexCall[c] \in {"idle", "waits"},
         codexSessions[s] # None,
         \A d \in Calls : codexCall[d] = "asks" => codexAbout[d] # s,
         codexCall' = [codexCall EXCEPT ![c] = "asks"],
         codexObject' = [codexObject EXCEPT ![c] = codexSessions[s]],
         history' = [history EXCEPT ![codexSessions[s]] = Append(@, <<c, "user">>)],
         NEW o \in Objects
  PROVE  Says(history[o], Answering(codexCall, codexObject, o),
              history'[o], Answering(codexCall', codexObject', o))
<1>1. PICK p \in Objects : p = codexSessions[s]  BY CodexTypes
<1>2. /\ codexCall'[c] = "asks" /\ codexObject'[c] = p /\ codexObject[c] = None
      /\ \A d \in Calls \ {c} : codexCall'[d] = codexCall[d] /\ codexObject'[d] = codexObject[d]
  BY <1>1, CodexTypes DEF CodexInv, CodexCaptures
<1>3. history'[p] = Append(history[p], <<c, "user">>) /\ \A q \in Objects \ {p} : history'[q] = history[q]
  BY <1>1, CodexTypes
<1>4. ASSUME NEW d \in Calls PROVE ~(codexCall[d] = "asks" /\ codexObject[d] = p)
  <2>1. PICK own \in [Objects -> Names \cup {None}] : CodexOwner(own)
    BY DEF CodexInv, CodexOwned
  <2>2. p # None  BY CodexTypes
  <2> QED  BY <1>1, <2>1, <2>2 DEF CodexOwner
<1>5. CASE o = p
  <2>1. Answering(codexCall, codexObject, o) = None  BY <1>4, <1>5, NobodyAnswers
  <2>2. Answering(codexCall', codexObject', o) = c
    <3>1. \A d \in Calls : codexCall'[d] = "asks" /\ codexObject'[d] = o => d = c
      BY <1>2, <1>4, <1>5
    <3>2. codexCall'[c] = "asks" /\ codexObject'[c] = o  BY <1>2, <1>5
    <3>3. PICK j, e : j = codexCall' /\ e = codexObject'  OBVIOUS
    <3>4. j[c] = "asks" /\ e[c] = o /\ \A d \in Calls : j[d] = "asks" /\ e[d] = o => d = c
      BY <3>1, <3>2, <3>3
    <3>5. {d \in Calls : j[d] = "asks" /\ e[d] = o} = {c}  BY <3>4
    <3>6. (CHOOSE d \in {c} : TRUE) = c  OBVIOUS
    <3>7. Answering(j, e, o) = c  BY <3>5, <3>6 DEF Answering
    <3> QED  BY <3>3, <3>7
  <2>3. \A i \in DOMAIN history[o] : history[o][i][1] # c
    <3>1. o # None  BY CodexTypes
    <3> QED  BY <1>2, <3>1 DEF CodexInv, CodexMessages
  <2> QED  BY <1>3, <1>5, <2>1, <2>2, <2>3 DEF Says
<1>6. CASE o # p
  <2>1. \A d \in Calls : codexCall[d] = "asks" /\ codexObject[d] = o
                         <=> codexCall'[d] = "asks" /\ codexObject'[d] = o
    <3>1. o # None  BY CodexTypes
    <3> QED  BY <1>2, <1>6, <3>1
  <2>2. Answering(codexCall, codexObject, o) = Answering(codexCall', codexObject', o)
    <3>1. PICK j, e : j = codexCall' /\ e = codexObject'  OBVIOUS
    <3>2. PICK k, b : k = codexCall /\ b = codexObject  OBVIOUS
    <3>3. \A d \in Calls : k[d] = "asks" /\ b[d] = o <=> j[d] = "asks" /\ e[d] = o
      BY <2>1, <3>1, <3>2
    <3>4. Answering(k, b, o) = Answering(j, e, o)  BY <3>3, SameAnswers
    <3> QED  BY <3>1, <3>2, <3>4
  <2> QED  BY <1>3, <1>6, <2>2 DEF Says
<1> QED  BY <1>5, <1>6

(* Leaving gives up what was asked, and is nothing to the other objects.   *)
LEMMA CodexGivesUp ==
  ASSUME CodexInv, NEW c \in Calls, codexCall[c] \in {"waits", "asks"},
         codexCall' = [codexCall EXCEPT ![c] = "failed"],
         codexObject' = codexObject, history' = history, NEW o \in Objects
  PROVE  Says(history[o], Answering(codexCall, codexObject, o),
              history'[o], Answering(codexCall', codexObject', o))
<1>1. codexCall'[c] = "failed" /\ \A d \in Calls \ {c} : codexCall'[d] = codexCall[d]
  BY CodexTypes
<1>2. CASE codexCall[c] = "asks" /\ codexObject[c] = o
  <2>1. \A d \in Calls : codexCall[d] = "asks" /\ codexObject[d] = o => d = c
    BY <1>2, CodexAlone
  <2>2. Answering(codexCall, codexObject, o) = c  BY <1>2, <2>1, OneAnswers
  <2>3. \A d \in Calls : ~(codexCall'[d] = "asks" /\ codexObject'[d] = o)
    BY <1>1, <2>1
  <2>4. Answering(codexCall', codexObject', o) = None  BY <2>3, NobodyAnswers
  <2>5. c # None  BY NoneIsNoRecord
  <2> QED  BY <2>2, <2>4, <2>5 DEF Says
<1>3. CASE ~(codexCall[c] = "asks" /\ codexObject[c] = o)
  <2>1. \A d \in Calls : codexCall[d] = "asks" /\ codexObject[d] = o
                         <=> codexCall'[d] = "asks" /\ codexObject'[d] = o
    BY <1>1, <1>3
  <2>2. Answering(codexCall, codexObject, o) = Answering(codexCall', codexObject', o)
    <3>1. PICK j, e : j = codexCall' /\ e = codexObject'  OBVIOUS
    <3>2. PICK k, b : k = codexCall /\ b = codexObject  OBVIOUS
    <3>3. \A d \in Calls : k[d] = "asks" /\ b[d] = o <=> j[d] = "asks" /\ e[d] = o
      BY <2>1, <3>1, <3>2
    <3>4. Answering(k, b, o) = Answering(j, e, o)  BY <3>3, SameAnswers
    <3> QED  BY <3>1, <3>2, <3>4
  <2> QED  BY <2>2 DEF Says
<1> QED  BY <1>2, <1>3

(* An answer stands behind its question.                                   *)
LEMMA CodexAnswers ==
  ASSUME CodexInv, NEW c \in Calls, NEW t \in {c, None}, NEW kept \in BOOLEAN,
         Codex!Answered(c, t, kept), NEW o \in Objects
  PROVE  Says(history[o], Answering(codexCall, codexObject, o),
              history'[o], Answering(codexCall', codexObject', o))
<1>1. PICK p : p = codexObject[c]  OBVIOUS
<1>2. /\ codexCall[c] = "asks" /\ codexObject' = codexObject
      /\ codexCall' = [codexCall EXCEPT ![c] = IF kept THEN "told" ELSE "failed"]
      /\ history' = [history EXCEPT ![p] = Append(history[p], <<c, "assistant">>)]
  BY <1>1 DEF Codex!Answered
<1>3. codexCall'[c] # "asks" /\ \A d \in Calls \ {c} : codexCall'[d] = codexCall[d]
  BY <1>2, CodexTypes
<1>4. \A d \in Calls : codexCall[d] = "asks" /\ codexObject[d] = p => d = c
  BY <1>1, <1>2, CodexAlone
<1>5. CASE o = p
  <2>1. Answering(codexCall, codexObject, o) = c  BY <1>1, <1>2, <1>4, <1>5, OneAnswers
  <2>2. \A d \in Calls : ~(codexCall'[d] = "asks" /\ codexObject'[d] = o)
    BY <1>2, <1>3, <1>4, <1>5
  <2>3. Answering(codexCall', codexObject', o) = None  BY <2>2, NobodyAnswers
  <2>4. Len(history[o]) > 0 /\ history[o][Len(history[o])] = <<c, "user">>
    BY <1>1, <1>2, <1>5 DEF CodexInv, CodexQuestions
  <2>5. history[o] # <<>> /\ c # None  BY <2>4, NoneIsNoRecord
  <2>6. history'[o] = Append(history[o], <<c, "assistant">>)  BY <1>2, <1>5, CodexTypes
  <2> QED  BY <2>1, <2>3, <2>4, <2>5, <2>6 DEF Says
<1>6. CASE o # p
  <2>1. \A d \in Calls : codexCall[d] = "asks" /\ codexObject[d] = o
                         <=> codexCall'[d] = "asks" /\ codexObject'[d] = o
    BY <1>1, <1>2, <1>3, <1>6
  <2>2. Answering(codexCall, codexObject, o) = Answering(codexCall', codexObject', o)
    BY <2>1, SameAnswers
  <2>3. history'[o] = history[o]  BY <1>2, <1>6, CodexTypes
  <2> QED  BY <2>2, <2>3 DEF Says
<1> QED  BY <1>5, <1>6

(* What begins a history is a part of it from the start.                   *)
LEMMA BeginsIsSubSeq ==
  ASSUME NEW x \in Seq(Talks), NEW y \in Seq(Talks), Begins(x, y)
  PROVE  \E n \in 0 .. Len(y) : x = SubSeq(y, 1, n)
<1>1. PICK n \in Nat : n = Len(x)  OBVIOUS
<1>2. Len(y) \in Nat /\ n <= Len(y) /\ \A i \in 1 .. n : x[i] = y[i]  BY <1>1 DEF Begins
<1>3. \A i \in 1 .. n : y[i] \in Talks
  <2>1. \A i \in 1 .. n : i \in 1 .. Len(y)  BY <1>2
  <2> QED  BY <2>1
<1>4. /\ SubSeq(y, 1, n) \in Seq(Talks)
      /\ Len(SubSeq(y, 1, n)) = IF 1 <= n THEN n - 1 + 1 ELSE 0
      /\ \A i \in 1 .. n - 1 + 1 : SubSeq(y, 1, n)[i] = y[1 + i - 1]
  BY <1>1, <1>3, SubSeqProperties
<1>5. Len(SubSeq(y, 1, n)) = Len(x)  BY <1>1, <1>4
<1>6. \A i \in 1 .. n : SubSeq(y, 1, n)[i] = x[i]  BY <1>1, <1>2, <1>4
<1>7. x = SubSeq(y, 1, n)  BY <1>1, <1>4, <1>5, <1>6, SeqEqual
<1> QED  BY <1>1, <1>2, <1>7

LEMMA CodexRestores ==
  ASSUME CodexInv, Codex!Restart, NEW o \in Objects
  PROVE  Says(history[o], Answering(codexCall, codexObject, o),
              history'[o], Answering(codexCall', codexObject', o))
<1>1. \A d \in Calls : ~(codexCall'[d] = "asks" /\ codexObject'[d] = o)
  BY CodexTypes DEF Codex!Restart
<1>2. Answering(codexCall', codexObject', o) = None  BY <1>1, NobodyAnswers
<1>3. history[o] \in Seq(Talks)  BY CodexTypes
<1>4. history'[o] \in Seq(Talks) /\ Begins(history'[o], history[o])
  <2>1. CASE history'[o] = history[o]
    <3>1. Len(history[o]) \in Nat  BY <1>3
    <3> QED  BY <1>3, <2>1, <3>1 DEF Begins
  <2>2. ASSUME NEW s \in Names, file[s] # None, file[s].object = o, history'[o] = file[s].history
        PROVE  history'[o] \in Seq(Talks) /\ Begins(history'[o], history[o])
    <3>1. file[s] \in Codex!Image  BY <2>2, CodexTypes
    <3>2. file[s].history \in Seq(Talks)  BY <3>1 DEF Codex!Image, Talks
    <3> QED  BY <2>2, <3>2 DEF CodexInv, CodexFiles
  <2> QED  BY <2>1, <2>2, CodexRestored
<1>5. \E n \in 0 .. Len(history[o]) : history'[o] = SubSeq(history[o], 1, n)
  BY <1>3, <1>4, BeginsIsSubSeq
<1> QED  BY <1>2, <1>5 DEF Says

LEMMA CodexConverses ==
  ASSUME CodexInv, Codex!Next \/ UNCHANGED codexVars, NEW o \in Objects
  PROVE  Says(history[o], Answering(codexCall, codexObject, o),
              history'[o], Answering(codexCall', codexObject', o))
<1>1. ASSUME UNCHANGED <<history, codexCall, codexObject>>
      PROVE  Says(history[o], Answering(codexCall, codexObject, o),
                  history'[o], Answering(codexCall', codexObject', o))
  BY <1>1 DEF Says
<1>2. ASSUME NEW c \in Calls, NEW s \in Names, Codex!Send(c, s)
      PROVE  Says(history[o], Answering(codexCall, codexObject, o),
                  history'[o], Answering(codexCall', codexObject', o))
  <2>1. CASE codexQueue[s] = <<>>
    <3>1. /\ codexCall[c] \in {"idle", "waits"} /\ codexSessions[s] # None
          /\ codexCall' = [codexCall EXCEPT ![c] = "asks"]
          /\ codexObject' = [codexObject EXCEPT ![c] = codexSessions[s]]
          /\ history' = [history EXCEPT ![codexSessions[s]] = Append(@, <<c, "user">>)]
      BY <1>2, <2>1 DEF Codex!Send, Codex!Ask, Codex!Open
    <3>2. \A d \in Calls : codexCall[d] = "asks" => codexAbout[d] # s  BY <2>1, CodexFree
    <3> QED  BY <3>1, <3>2, CodexAsks
  <2>2. CASE codexQueue[s] # <<>>
    <3>1. /\ codexCall[c] = "idle" /\ codexCall' = [codexCall EXCEPT ![c] = "waits"]
          /\ UNCHANGED <<codexObject, history>>
      BY <1>2, <2>2 DEF Codex!Send
    <3>2. \A d \in Calls : codexCall[d] = "asks" /\ codexObject[d] = o
                           <=> codexCall'[d] = "asks" /\ codexObject'[d] = o
      BY <3>1, CodexTypes
    <3>3. Answering(codexCall, codexObject, o) = Answering(codexCall', codexObject', o)
      BY <3>2, SameAnswers
    <3> QED  BY <3>1, <3>3 DEF Says
  <2> QED  BY <2>1, <2>2
<1>3. ASSUME NEW c \in Calls, Codex!Enters(c)
      PROVE  Says(history[o], Answering(codexCall, codexObject, o),
                  history'[o], Answering(codexCall', codexObject', o))
  <2>1. PICK s \in Names : s = codexAbout[c]
    <3>1. AtLock(codexQueue, codexCall, codexAbout, c)  BY DEF CodexInv, CodexLocks, Locks
    <3> QED  BY <1>3, <3>1 DEF AtLock, Codex!Enters
  <2>2. codexCall[c] = "waits" /\ Head(codexQueue[s]) = c  BY <1>3, <2>1 DEF Codex!Enters
  <2>3. CASE codexSessions[s] = None
    <3>1. /\ codexCall' = [codexCall EXCEPT ![c] = "failed"]
          /\ codexObject' = codexObject /\ history' = history
      BY <1>3, <2>1, <2>3 DEF Codex!Enters, Codex!Ask
    <3>2. codexCall[c] \in {"waits", "asks"}  BY <2>2
    <3> QED  BY <3>1, <3>2, CodexGivesUp
  <2>4. CASE codexSessions[s] # None
    <3>1. /\ codexCall' = [codexCall EXCEPT ![c] = "asks"]
          /\ codexObject' = [codexObject EXCEPT ![c] = codexSessions[s]]
          /\ history' = [history EXCEPT ![codexSessions[s]] = Append(@, <<c, "user">>)]
      BY <1>3, <2>1, <2>4 DEF Codex!Enters, Codex!Ask
    <3>2. \A d \in Calls : codexCall[d] = "asks" => codexAbout[d] # s
      BY <2>1, <2>2, CodexFree
    <3>3. codexCall[c] \in {"idle", "waits"}  BY <2>2
    <3> QED  BY <2>4, <3>1, <3>2, <3>3, CodexAsks
  <2> QED  BY <2>3, <2>4
<1>4. ASSUME NEW c \in Calls, NEW t \in {c, None},
             Codex!Fails(c) \/ Codex!WaiterCancelled(c) \/ Codex!Silent(c, t)
      PROVE  Says(history[o], Answering(codexCall, codexObject, o),
                  history'[o], Answering(codexCall', codexObject', o))
  <2>1. /\ codexCall[c] \in {"waits", "asks"} /\ codexCall' = [codexCall EXCEPT ![c] = "failed"]
        /\ codexObject' = codexObject /\ history' = history
    BY <1>4 DEF Codex!Fails, Codex!WaiterCancelled, Codex!Leaves, Codex!Silent
  <2> QED  BY <2>1, CodexGivesUp
<1>5. ASSUME NEW s \in Names,
             Codex!StartBegins(s) \/ Codex!Starts(s) \/ Codex!Touch(s) \/ Codex!SetActive(s)
      PROVE  UNCHANGED <<history, codexCall, codexObject>>
  BY <1>5 DEF Codex!StartBegins, Codex!Starts, Codex!Touch, Codex!SetActive
<1>6. ASSUME NEW ended \in SUBSET Names, Codex!End(ended)
      PROVE  UNCHANGED <<history, codexCall, codexObject>>
  BY <1>6 DEF Codex!End
<1>7. CASE UNCHANGED codexVars  BY <1>1, <1>7 DEF codexVars
<1>8. ASSUME NEW c \in Calls, Codex!Body(c)
      PROVE  Says(history[o], Answering(codexCall, codexObject, o),
                  history'[o], Answering(codexCall', codexObject', o))
  BY <1>3, <1>4, <1>8, CodexAnswers DEF Codex!Body
<1> QED  BY <1>1, <1>2, <1>5, <1>6, <1>7, <1>8, CodexRestores DEF Codex!Next

LEMMA CodexTakesTurns == Spec => Codex!TakesTurns
<1>1. Init => Codex!Talk!Init
  <2> SUFFICES ASSUME Init PROVE Codex!Talk!Init  OBVIOUS
  <2>1. \A o \in Objects : Codex!Turn(o) = None  BY DEF Init, Codex!Init, Codex!Turn
  <2>2. history = [o \in Objects |-> <<>>]  BY DEF Init, Codex!Init
  <2> QED  BY <2>1, <2>2 DEF Codex!Talk!Init
<1>2. CodexInv /\ [Next]_vars => [Codex!Talk!Next]_Codex!Talk!talk
  <2> SUFFICES ASSUME CodexInv, [Next]_vars PROVE Codex!Talk!Next  OBVIOUS
  <2>1. Codex!Next \/ UNCHANGED codexVars
    BY DEF Next, vars, RescueRuns, CodexRuns, LocalRuns, HttpRuns, GpuRuns, PeerRuns, EditsRuns
  <2> QED  BY <2>1, CodexConverses, CodexTalks
<1> QED  BY <1>1, <1>2, CodexAlways, PTL DEF Spec, Codex!TakesTurns, Codex!Talk!Spec

-----------------------------------------------------------------------------
(* Local sessions.                                                         *)

(* A call captures its object when it gets the lock.                       *)
LocalCaptures ==
  \A c \in Calls :
    /\ localCall[c] \in {"idle", "waits"} => localObject[c] = None
    /\ localCall[c] \in {"asks", "told"} => localObject[c] # None

(* An object is made for one name, and known by no other.                  *)
LocalOwner(own) ==
  /\ \A s \in Names :
       localSessions[s] # None => own[localSessions[s]] = s /\ localSessions[s] <= localMade
  /\ \A c \in Calls :
       localObject[c] # None => own[localObject[c]] = localAbout[c] /\ localObject[c] <= localMade
LocalOwned == \E own \in [Objects -> Names \cup {None}] : LocalOwner(own)

(* A history holds messages of calls that captured its object; the last    *)
(* one is the question of whoever asks.                                    *)
LocalMessages == \A o \in Objects : \A i \in DOMAIN messages[o] : localObject[messages[o][i][1]] = o
LocalQuestions ==
  \A c \in Calls : localCall[c] = "asks" =>
    LET said == messages[localObject[c]]
    IN  Len(said) > 0 /\ said[Len(said)] = <<c, "user">>

(* HistoryIsTold, in terms of how many messages n a call left behind place *)
(* k, its question first.                                                  *)
Stands(said, c, k, n) ==
  /\ k \in Nat /\ k + n <= Len(said)
  /\ n >= 1 => said[k + 1] = <<c, "user">>
  /\ n = 2 => said[k + 2] = <<c, "assistant">>
  /\ \A i \in DOMAIN said : said[i][1] = c => k < i /\ i <= k + n
Leaves(status) ==
  CASE status = "told" -> 2 [] status \in {"asks", "cancelled"} -> 1 [] OTHER -> 0
LocalTold ==
  \A c \in Calls : localObject[c] # None =>
    \E k \in Nat : Stands(messages[localObject[c]], c, k, Leaves(localCall[c]))

LocalLocks == Locks(localQueue, localCall, localAbout)
LocalInv ==
  /\ Local!TypeOK /\ LocalLocks /\ LocalCaptures /\ LocalOwned
  /\ LocalMessages /\ LocalQuestions /\ LocalTold

LEMMA LocalCounts ==
  /\ \A S : Local!Cardinality(S) = Cardinality(S)
  /\ Cardinality(Objects) \in Nat /\ Objects = 1 .. Cardinality(Objects)
<1>1. ASSUME NEW S PROVE Local!Cardinality(S) = Cardinality(S)
  BY Zenon DEF Local!Cardinality, Cardinality
<1> QED  BY <1>1, CodexCounts

Moments == {"idle", "waits", "asks", "told", "failed", "cancelled"}
LEMMA LocalTypes ==
  ASSUME LocalInv
  PROVE  /\ localSessions \in [Names -> Objects \cup {None}]
         /\ messages \in [Objects -> Seq(Talks)]
         /\ localQueue \in [Names -> Seq(Calls)]
         /\ localCall \in [Calls -> Moments]
         /\ localAbout \in [Calls -> Names \cup {None}]
         /\ localObject \in [Calls -> Objects \cup {None}]
         /\ post \in [Calls -> 0 .. Attempts] /\ failures \in 0 .. Threshold - 1 /\ dead \in BOOLEAN
         /\ localMade \in Nat /\ \A o \in Objects : o \in Nat
         /\ Attempts \in Nat /\ Attempts >= 1 /\ Threshold \in Nat /\ Threshold >= 1
         /\ None \notin Objects /\ None \notin Names /\ None \notin Calls
<1>1. Objects = 1 .. Cardinality(Objects) /\ Cardinality(Objects) \in Nat  BY LocalCounts
<1>2. \A o \in Objects : o \in Nat  BY <1>1
<1>3. localMade \in Nat
  <2>1. localMade \in 0 .. Local!Cardinality(Objects)  BY DEF LocalInv, Local!TypeOK
  <2>2. Local!Cardinality(Objects) = Cardinality(Objects)  BY LocalCounts, Zenon
  <2> QED  BY <1>1, <2>1, <2>2
<1>4. None \notin Objects /\ None \notin Names /\ None \notin Calls  BY NoneIsNoRecord
<1>5. Attempts \in Nat /\ Attempts >= 1 /\ Threshold \in Nat /\ Threshold >= 1
  BY PostsAreTried
<1> QED  BY <1>2, <1>3, <1>4, <1>5 DEF LocalInv, Local!TypeOK, Talks, Moments

LEMMA LocalInit == Local!Init => LocalInv
<1> SUFFICES ASSUME Local!Init PROVE LocalInv  OBVIOUS
<1>1. Local!TypeOK
  <2>1. 0 \in 0 .. Local!Cardinality(Objects)
    <3>1. Local!Cardinality(Objects) = Cardinality(Objects)  BY LocalCounts, Zenon
    <3> QED  BY <3>1, LocalCounts
  <2>2. 0 \in 0 .. Attempts /\ 0 \in 0 .. Threshold - 1  BY PostsAreTried
  <2>3. \A c \in Calls : localObject[c] = None /\ localAbout[c] = None /\ post[c] = 0
    BY DEF Local!Init
  <2>4. /\ localAbout \in [Calls -> Names \cup {None}] /\ post \in [Calls -> 0 .. Attempts]
        /\ localObject \in [Calls -> Objects \cup {None}]
    BY <2>2, <2>3 DEF Local!Init
  <2>5. /\ localSessions \in [Names -> Objects \cup {None}]
        /\ messages \in [Objects -> Seq(Calls \X {"user", "assistant"})]
        /\ localQueue \in [Names -> Seq(Calls)]
    BY DEF Local!Init
  <2>6. localCall \in [Calls -> {"idle", "waits", "asks", "told", "failed", "cancelled"}]
    BY DEF Local!Init
  <2>7. localMade = 0 /\ localActive = None /\ failures = 0 /\ dead = FALSE  BY DEF Local!Init
  <2> QED  BY <2>1, <2>2, <2>4, <2>5, <2>6, <2>7 DEF Local!TypeOK
<1>2. LocalLocks
  BY DEF Local!Init, LocalLocks, Locks, InQueue, AtLock
<1>3. LocalOwned
  <2>1. LocalOwner([o \in Objects |-> None])  BY DEF Local!Init, LocalOwner
  <2> QED  BY <2>1 DEF LocalOwned
<1>4. LocalCaptures /\ LocalMessages /\ LocalQuestions /\ LocalTold
  BY DEF Local!Init, LocalCaptures, LocalMessages, LocalQuestions, LocalTold
<1> QED  BY <1>1, <1>2, <1>3, <1>4 DEF LocalInv

(* Where the messages of a call stand when a history grows or shrinks.     *)
LEMMA StandsOn ==
  ASSUME NEW h \in Seq(Talks), NEW m \in Talks, NEW d \in Calls, NEW k \in Nat, NEW n \in 0 .. 2,
         Stands(h, d, k, n), m[1] # d
  PROVE  Stands(Append(h, m), d, k, n)
<1>1. PICK g \in Seq(Talks) : g = Append(h, m) /\ Len(g) = Len(h) + 1 /\ Len(h) \in Nat
               /\ DOMAIN g = 1 .. Len(h) + 1 /\ DOMAIN h = 1 .. Len(h)
               /\ g[Len(h) + 1] = m /\ \A i \in 1 .. Len(h) : g[i] = h[i]
  BY Appended
<1>2. k + n <= Len(h)  BY DEF Stands
<1>3. n >= 1 => k + 1 \in 1 .. Len(h)  BY <1>1, <1>2
<1>4. n = 2 => k + 2 \in 1 .. Len(h)  BY <1>1, <1>2
<1>5. k + n <= Len(g)  BY <1>1, <1>2
<1>6. ASSUME NEW i \in DOMAIN g, g[i][1] = d PROVE k < i /\ i <= k + n
  <2>1. i # Len(h) + 1  BY <1>1, <1>6
  <2>2. i \in DOMAIN h /\ h[i][1] = d  BY <1>1, <1>6, <2>1
  <2> QED  BY <2>2 DEF Stands
<1>7. Stands(g, d, k, n)  BY <1>1, <1>3, <1>4, <1>5, <1>6 DEF Stands
<1> QED  BY <1>1, <1>7

LEMMA StandsAsked ==
  ASSUME NEW h \in Seq(Talks), NEW c \in Calls, \A i \in DOMAIN h : h[i][1] # c
  PROVE  Len(h) \in Nat /\ Stands(Append(h, <<c, "user">>), c, Len(h), 1)
<1>1. PICK m \in Talks : m = <<c, "user">> /\ m[1] = c
  <2>1. <<c, "user">> \in Talks /\ <<c, "user">>[1] = c  BY DEF Talks
  <2> QED  BY <2>1
<1>2. PICK g \in Seq(Talks) : g = Append(h, m) /\ Len(g) = Len(h) + 1 /\ Len(h) \in Nat
               /\ DOMAIN g = 1 .. Len(h) + 1 /\ DOMAIN h = 1 .. Len(h)
               /\ g[Len(h) + 1] = m /\ \A i \in 1 .. Len(h) : g[i] = h[i]
  BY Appended
<1>3. ASSUME NEW i \in DOMAIN g, g[i][1] = c PROVE Len(h) < i /\ i <= Len(h) + 1
  BY <1>2, <1>3
<1>4. Stands(g, c, Len(h), 1)  BY <1>1, <1>2, <1>3 DEF Stands
<1> QED  BY <1>1, <1>2, <1>4

LEMMA StandsLast ==
  ASSUME NEW h \in Seq(Talks), NEW c \in Calls, NEW k \in Nat, Stands(h, c, k, 1),
         Len(h) > 0, h[Len(h)] = <<c, "user">>
  PROVE  Len(h) = k + 1
<1>1. PICK n \in Nat : n = Len(h) /\ n \in DOMAIN h  OBVIOUS
<1>2. <<c, "user">>[1] = c  OBVIOUS
<1>3. h[n][1] = c  BY <1>1, <1>2
<1>4. k + 1 <= n /\ n <= k + 1  BY <1>1, <1>3 DEF Stands
<1>5. n = k + 1  BY <1>4
<1> QED  BY <1>1, <1>5

LEMMA StandsAnswered ==
  ASSUME NEW h \in Seq(Talks), NEW c \in Calls, NEW k \in Nat, Stands(h, c, k, 1),
         Len(h) > 0, h[Len(h)] = <<c, "user">>
  PROVE  Stands(Append(h, <<c, "assistant">>), c, k, 2)
<1>1. PICK m \in Talks : m = <<c, "assistant">> /\ m[1] = c
  <2>1. <<c, "assistant">> \in Talks /\ <<c, "assistant">>[1] = c  BY DEF Talks
  <2> QED  BY <2>1
<1>2. PICK g \in Seq(Talks) : g = Append(h, m) /\ Len(g) = Len(h) + 1 /\ Len(h) \in Nat
               /\ DOMAIN g = 1 .. Len(h) + 1 /\ DOMAIN h = 1 .. Len(h)
               /\ g[Len(h) + 1] = m /\ \A i \in 1 .. Len(h) : g[i] = h[i]
  BY Appended
<1>3. Len(h) = k + 1  BY StandsLast
<1>4. ASSUME NEW i \in DOMAIN g, g[i][1] = c PROVE k < i /\ i <= k + 2
  <2>1. CASE i = Len(h) + 1  BY <1>3, <2>1
  <2>2. CASE i # Len(h) + 1
    <3>1. i \in DOMAIN h /\ h[i][1] = c  BY <1>2, <1>4, <2>2
    <3>2. k < i /\ i <= k + 1  BY <3>1 DEF Stands
    <3> QED  BY <1>2, <3>2
  <2> QED  BY <2>1, <2>2
<1>5. g[k + 1] = <<c, "user">> /\ g[k + 2] = <<c, "assistant">>
  <2>1. k + 1 \in 1 .. Len(h) /\ k + 2 = Len(h) + 1  BY <1>2, <1>3
  <2> QED  BY <1>1, <1>2, <1>3, <2>1
<1>6. Stands(g, c, k, 2)  BY <1>2, <1>3, <1>4, <1>5 DEF Stands
<1> QED  BY <1>1, <1>2, <1>6

LEMMA WithoutLast ==
  ASSUME NEW h \in Seq(Talks), Len(h) > 0
  PROVE  /\ Local!Front(h) = SubSeq(h, 1, Len(h) - 1) /\ Local!Front(h) \in Seq(Talks)
         /\ Len(Local!Front(h)) = Len(h) - 1 /\ Len(h) \in Nat
         /\ DOMAIN Local!Front(h) = 1 .. Len(h) - 1 /\ DOMAIN h = 1 .. Len(h)
         /\ \A i \in 1 .. Len(h) - 1 : Local!Front(h)[i] = h[i]
<1>1. Len(h) \in Nat /\ DOMAIN h = 1 .. Len(h)  OBVIOUS
<1>2. PICK n \in Nat : n = Len(h) - 1
  <2>1. Len(h) - 1 \in Nat  OBVIOUS
  <2> QED  BY <2>1
<1>3. \A i \in 1 .. n : h[i] \in Talks
  <2>1. \A i \in 1 .. n : i \in 1 .. Len(h)  BY <1>1, <1>2
  <2> QED  BY <2>1
<1>4. /\ SubSeq(h, 1, n) \in Seq(Talks)
      /\ Len(SubSeq(h, 1, n)) = IF 1 <= n THEN n - 1 + 1 ELSE 0
      /\ \A i \in 1 .. n - 1 + 1 : SubSeq(h, 1, n)[i] = h[1 + i - 1]
  BY <1>2, <1>3, SubSeqProperties
<1>5. PICK r : r = SubSeq(h, 1, n)  OBVIOUS
<1>6. r \in Seq(Talks) /\ Len(r) = n /\ \A i \in 1 .. n : r[i] = h[i]  BY <1>2, <1>4, <1>5
<1>7. DOMAIN r = 1 .. n  BY <1>6
<1>8. Local!Front(h) = r  BY <1>2, <1>5 DEF Local!Front
<1> QED  BY <1>1, <1>2, <1>5, <1>6, <1>7, <1>8

LEMMA StandsBack ==
  ASSUME NEW h \in Seq(Talks), Len(h) > 0, NEW d \in Calls, NEW k \in Nat, NEW n \in 0 .. 2,
         Stands(h, d, k, n), h[Len(h)][1] # d
  PROVE  \E l \in Nat : Stands(Local!Front(h), d, l, n)
<1>1. PICK r : /\ r = Local!Front(h) /\ Len(r) = Len(h) - 1 /\ Len(h) \in Nat
               /\ DOMAIN r = 1 .. Len(h) - 1 /\ DOMAIN h = 1 .. Len(h)
               /\ \A i \in 1 .. Len(h) - 1 : r[i] = h[i]
  BY WithoutLast
<1>2. k + n <= Len(h)  BY DEF Stands
<1>3. ASSUME NEW i \in DOMAIN r, r[i][1] = d PROVE k < i /\ i <= k + n
  <2>1. i \in DOMAIN h /\ h[i][1] = d  BY <1>1, <1>3
  <2> QED  BY <2>1 DEF Stands
<1>4. CASE n = 0
  <2>1. \A i \in DOMAIN r : r[i][1] # d  BY <1>1, <1>3, <1>4
  <2>2. Stands(r, d, 0, 0)  BY <1>1, <2>1 DEF Stands
  <2> QED  BY <1>1, <1>4, <2>2
<1>5. CASE n # 0
  <2>1. n = 1 \/ n = 2  BY <1>5
  <2>2. <<d, "user">>[1] = d /\ <<d, "assistant">>[1] = d  OBVIOUS
  <2>3. h[k + n][1] = d  BY <2>1, <2>2 DEF Stands
  <2>4. k + n <= Len(h) - 1  BY <1>1, <1>2, <2>3
  <2>5. k + 1 \in 1 .. Len(h) - 1  BY <1>1, <2>1, <2>4
  <2>6. n = 2 => k + 2 \in 1 .. Len(h) - 1  BY <1>1, <2>4
  <2>7. Stands(r, d, k, n)  BY <1>1, <1>3, <2>1, <2>4, <2>5, <2>6 DEF Stands
  <2> QED  BY <1>1, <2>7
<1> QED  BY <1>4, <1>5

LEMMA StandsGone ==
  ASSUME NEW h \in Seq(Talks), NEW c \in Calls, NEW k \in Nat, Stands(h, c, k, 1),
         Len(h) > 0, h[Len(h)] = <<c, "user">>
  PROVE  Stands(Local!Front(h), c, 0, 0)
<1>1. PICK r : /\ r = Local!Front(h) /\ Len(r) = Len(h) - 1 /\ Len(h) \in Nat
               /\ DOMAIN r = 1 .. Len(h) - 1 /\ DOMAIN h = 1 .. Len(h)
               /\ \A i \in 1 .. Len(h) - 1 : r[i] = h[i]
  BY WithoutLast
<1>2. Len(h) = k + 1  BY StandsLast
<1>3. ASSUME NEW i \in DOMAIN r PROVE r[i][1] # c
  <2>1. i \in DOMAIN h /\ r[i] = h[i] /\ i <= k  BY <1>1, <1>2
  <2>2. h[i][1] = c => k < i  BY <2>1 DEF Stands
  <2> QED  BY <1>1, <2>1, <2>2
<1>4. Stands(r, c, 0, 0)  BY <1>1, <1>3 DEF Stands
<1> QED  BY <1>1, <1>4

LEMMA LeavesFew == \A status : Leaves(status) \in 0 .. 2
BY DEF Leaves

LEMMA LocalAlone ==
  ASSUME LocalInv, NEW c \in Calls, NEW d \in Calls, localCall[c] = "asks", localCall[d] = "asks",
         localAbout[c] = localAbout[d] \/ localObject[c] = localObject[d]
  PROVE  c = d /\ localObject[c] \in Objects /\ localAbout[c] \in Names
<1>1. PICK own \in [Objects -> Names \cup {None}] : LocalOwner(own)
  BY DEF LocalInv, LocalOwned
<1>2. localObject[c] # None /\ localObject[d] # None  BY DEF LocalInv, LocalCaptures
<1>3. localAbout[c] = localAbout[d]  BY <1>1, <1>2 DEF LocalOwner
<1>4. AtLock(localQueue, localCall, localAbout, c) /\ AtLock(localQueue, localCall, localAbout, d)
  BY DEF LocalInv, LocalLocks, Locks
<1> QED  BY <1>2, <1>3, <1>4, LocalTypes DEF AtLock

(* Whoever may take the lock of a name finds nobody asking about it.       *)
LEMMA LocalFree ==
  ASSUME LocalInv, NEW s \in Names, NEW c \in Calls,
         \/ localQueue[s] = <<>>
         \/ localCall[c] = "waits" /\ localAbout[c] = s /\ Head(localQueue[s]) = c,
         NEW d \in Calls, localCall[d] = "asks"
  PROVE  localAbout[d] # s
<1>1. AtLock(localQueue, localCall, localAbout, d)  BY DEF LocalInv, LocalLocks, Locks
<1> QED  BY <1>1 DEF AtLock

(* A call gets the lock, captures the session and puts its question.       *)
LEMMA LocalAsked ==
  ASSUME LocalInv, NEW c \in Calls, NEW s \in Names, localCall[c] \in {"idle", "waits"},
         localSessions[s] # None,
         \A d \in Calls : localCall[d] = "asks" => localAbout[d] # s,
         localCall' = [localCall EXCEPT ![c] = "asks"],
         localObject' = [localObject EXCEPT ![c] = localSessions[s]],
         messages' = [messages EXCEPT ![localSessions[s]] = Append(@, <<c, "user">>)],
         localAbout' = [localAbout EXCEPT ![c] = s],
         post' = [post EXCEPT ![c] = Attempts],
         localQueue' \in [Names -> Seq(Calls)], LocalLocks',
         UNCHANGED <<localSessions, localMade, localActive, failures, dead>>
  PROVE  LocalInv'
<1>1. PICK o \in Objects : o = localSessions[s]  BY LocalTypes
<1>2. PICK h \in Seq(Talks) : h = messages[o]  BY LocalTypes
<1>3. PICK m \in Talks : m = <<c, "user">> /\ m[1] = c
  <2>1. <<c, "user">> \in Talks /\ <<c, "user">>[1] = c  BY DEF Talks
  <2> QED  BY <2>1
<1>4. PICK g \in Seq(Talks) :
        /\ g = Append(h, m) /\ Len(g) = Len(h) + 1 /\ Len(h) \in Nat
        /\ DOMAIN g = 1 .. Len(h) + 1 /\ DOMAIN h = 1 .. Len(h)
        /\ g[Len(h) + 1] = m /\ \A i \in 1 .. Len(h) : g[i] = h[i]
  BY Appended
<1>5. /\ messages'[o] = g /\ messages' \in [Objects -> Seq(Talks)]
      /\ \A p \in Objects \ {o} : messages'[p] = messages[p]
  BY <1>1, <1>2, <1>3, <1>4, LocalTypes
<1>6. /\ localCall'[c] = "asks" /\ localObject'[c] = o /\ localAbout'[c] = s
      /\ localObject[c] = None
      /\ \A d \in Calls \ {c} : /\ localCall'[d] = localCall[d]
                                /\ localObject'[d] = localObject[d]
                                /\ localAbout'[d] = localAbout[d]
  BY <1>1, LocalTypes DEF LocalInv, LocalCaptures
<1>7. PICK own \in [Objects -> Names \cup {None}] : LocalOwner(own)
  BY DEF LocalInv, LocalOwned
<1>8. own[o] = s /\ o <= localMade  BY <1>1, <1>7 DEF LocalOwner
<1>9. Local!TypeOK'
  <2>1. /\ post' \in [Calls -> 0 .. Attempts] /\ localCall' \in [Calls -> Moments]
        /\ localObject' \in [Calls -> Objects \cup {None}]
        /\ localAbout' \in [Calls -> Names \cup {None}]
    BY <1>1, LocalTypes DEF Moments
  <2> QED  BY <1>5, <2>1 DEF LocalInv, Local!TypeOK, Talks, Moments
<1>10. LocalCaptures'
  BY <1>6, LocalTypes DEF LocalInv, LocalCaptures
<1>11. LocalOwned'
  <2>1. \A d \in Calls : localObject'[d] # None =>
          own[localObject'[d]] = localAbout'[d] /\ localObject'[d] <= localMade'
    BY <1>6, <1>7, <1>8 DEF LocalOwner
  <2>2. LocalOwner(own)'  BY <1>7, <2>1 DEF LocalOwner
  <2> QED  BY <2>2 DEF LocalOwned
<1>12. ASSUME NEW p \in Objects, NEW i \in DOMAIN messages[p]
       PROVE  messages[p][i][1] \in Calls \ {c} /\ localObject'[messages[p][i][1]] = p
  <2>1. messages[p] \in Seq(Talks)  BY LocalTypes
  <2>2. messages[p][i][1] \in Calls  BY <2>1 DEF Talks
  <2>3. localObject[messages[p][i][1]] = p  BY DEF LocalInv, LocalMessages
  <2>4. p # None  BY LocalTypes
  <2> QED  BY <1>6, <2>2, <2>3, <2>4
<1>13. LocalMessages'
  <2>1. ASSUME NEW i \in DOMAIN g PROVE localObject'[g[i][1]] = o
    <3>1. CASE i = Len(h) + 1  BY <1>3, <1>4, <1>6, <3>1
    <3>2. CASE i # Len(h) + 1
      <4>1. i \in DOMAIN h /\ g[i] = h[i]  BY <1>4, <3>2
      <4> QED  BY <1>2, <1>12, <4>1
    <3> QED  BY <3>1, <3>2
  <2>2. ASSUME NEW p \in Objects, NEW i \in DOMAIN messages'[p]
        PROVE  localObject'[messages'[p][i][1]] = p
    BY <1>5, <1>12, <2>1
  <2> QED  BY <2>2 DEF LocalMessages
<1>14. LocalQuestions'
  <2>1. ASSUME NEW d \in Calls, localCall'[d] = "asks"
        PROVE  LET said == messages'[localObject'[d]]
               IN  Len(said) > 0 /\ said[Len(said)] = <<d, "user">>
    <3>1. CASE d = c
      <4>1. Len(g) > 0 /\ g[Len(g)] = m  BY <1>4
      <4> QED  BY <1>3, <1>5, <1>6, <3>1, <4>1
    <3>2. CASE d # c
      <4>1. localCall[d] = "asks" /\ localObject'[d] = localObject[d]  BY <1>6, <2>1, <3>2
      <4>2. localAbout[d] # s /\ localObject[d] # None /\ localObject[d] \in Objects
        BY <4>1, LocalTypes DEF LocalInv, LocalCaptures
      <4>3. localObject[d] # o  BY <1>7, <1>8, <4>2 DEF LocalOwner
      <4> QED  BY <1>5, <4>1, <4>2, <4>3 DEF LocalInv, LocalQuestions
    <3> QED  BY <3>1, <3>2
  <2> QED  BY <2>1 DEF LocalQuestions
<1>15. LocalTold'
  <2>1. ASSUME NEW d \in Calls, localObject'[d] # None
        PROVE  \E k \in Nat : Stands(messages'[localObject'[d]], d, k, Leaves(localCall'[d]))
    <3>1. CASE d = c
      <4>1. \A i \in DOMAIN h : h[i][1] # c  BY <1>2, <1>12
      <4>2. Len(h) \in Nat /\ Stands(g, c, Len(h), 1)  BY <1>3, <1>4, <4>1, StandsAsked
      <4>3. Leaves("asks") = 1  BY DEF Leaves
      <4>4. messages'[localObject'[d]] = g /\ Leaves(localCall'[d]) = 1
        BY <1>5, <1>6, <3>1, <4>3
      <4> QED  BY <3>1, <4>2, <4>4
    <3>2. CASE d # c
      <4>1. localObject[d] # None /\ localObject'[d] = localObject[d]
            /\ localCall'[d] = localCall[d] /\ localObject[d] \in Objects
        BY <1>6, <2>1, <3>2, LocalTypes
      <4>2. PICK k \in Nat : Stands(messages[localObject[d]], d, k, Leaves(localCall[d]))
        BY <4>1 DEF LocalInv, LocalTold
      <4>3. CASE localObject[d] = o
        <5>1. Stands(g, d, k, Leaves(localCall[d]))
          BY <1>2, <1>3, <1>4, <3>2, <4>2, <4>3, LeavesFew, StandsOn
        <5> QED  BY <1>5, <4>1, <4>3, <5>1
      <4>4. CASE localObject[d] # o  BY <1>5, <4>1, <4>2, <4>4
      <4> QED  BY <4>3, <4>4
    <3> QED  BY <3>1, <3>2
  <2> QED  BY <2>1 DEF LocalTold
<1> QED  BY <1>9, <1>10, <1>11, <1>13, <1>14, <1>15 DEF LocalInv

(* A call gives its place in the queue up.                                 *)
LEMMA LocalReleased ==
  ASSUME LocalInv, NEW c \in Calls,
         \/ localCall[c] = "asks"
         \/ localCall[c] = "waits" /\ Head(localQueue[localAbout[c]]) = c,
         localQueue' = [localQueue EXCEPT ![localAbout[c]] = Tail(@)],
         NEW status \in {"told", "failed", "cancelled"},
         localCall' = [localCall EXCEPT ![c] = status], localAbout' = localAbout
  PROVE  LocalLocks' /\ localQueue' \in [Names -> Seq(Calls)]
<1>1. /\ localQueue \in [Names -> Seq(Calls)] /\ localAbout \in [Calls -> Names \cup {None}]
      /\ DOMAIN localCall = Calls
  BY LocalTypes
<1>2. Locks(localQueue, localCall, localAbout)  BY DEF LocalInv, LocalLocks
<1>3. PICK j : j = [localCall EXCEPT ![c] = status]  OBVIOUS
<1>4. (\A d \in Calls \ {c} : j[d] = localCall[d]) /\ j[c] \notin {"idle", "waits", "asks"}
  BY ONLY <1>1, <1>3, c \in Calls, status \in {"told", "failed", "cancelled"}
<1>5. localCall[c] = "asks" \/ (localCall[c] = "waits" /\ Head(localQueue[localAbout[c]]) = c)
  OBVIOUS
<1>6. PICK u : u = [localQueue EXCEPT ![localAbout[c]] = Tail(localQueue[localAbout[c]])]  OBVIOUS
<1>7. HandsOn(localQueue, localCall, localAbout, c, u, j)
  BY ONLY <1>1, <1>2, <1>4, <1>5, <1>6, c \in Calls DEF HandsOn
<1>8. Locks(u, j, localAbout) /\ u \in [Names -> Seq(Calls)]  BY ONLY <1>7, LocksHead
<1>9. localQueue' = u /\ localCall' = j /\ localAbout' = localAbout  BY <1>3, <1>6
<1> QED  BY ONLY <1>8, <1>9 DEF LocalLocks

LEMMA LocalWithdrew ==
  ASSUME LocalInv, NEW c \in Calls, localCall[c] = "waits", Local!Withdraw(c),
         localCall' = [localCall EXCEPT ![c] = "cancelled"], localAbout' = localAbout
  PROVE  LocalLocks' /\ localQueue' \in [Names -> Seq(Calls)]
<1>1. localQueue' = [localQueue EXCEPT ![localAbout[c]] = Local!RemoveAt(@, Local!Place(c))]
  BY DEF Local!Withdraw
<1>2. AtLock(localQueue, localCall, localAbout, c)  BY DEF LocalInv, LocalLocks, Locks
<1>3. PICK s \in Names : s = localAbout[c]  BY <1>2 DEF AtLock
<1>4. PICK p \in DOMAIN localQueue[s] : p = Local!Place(c) /\ localQueue[s][p] = c
  BY <1>2, <1>3 DEF AtLock, Local!Place
<1>5. localQueue[s] \in Seq(Calls) /\ p \in 1 .. Len(localQueue[s])
  <2>1. localQueue[s] \in Seq(Calls)  BY LocalTypes
  <2> QED  BY <1>4, <2>1
<1>6. PICK r : r = Local!RemoveAt(localQueue[s], p)  OBVIOUS
<1>7. Without(r, localQueue[s], p)  BY <1>5, <1>6, RemoveWithout
<1>8. localQueue' = [localQueue EXCEPT ![s] = r]  BY <1>1, <1>3, <1>4, <1>6
<1>9. LocalLocks'
  <2>1. localQueue \in [Names -> Seq(Calls)] /\ localAbout \in [Calls -> Names \cup {None}]
    BY LocalTypes
  <2>2. Locks(localQueue, localCall, localAbout)  BY DEF LocalInv, LocalLocks
  <2>3. \A d \in Calls \ {c} : localCall'[d] = localCall[d]  BY LocalTypes
  <2>4. localCall'[c] \notin {"idle", "waits", "asks"}  BY LocalTypes
  <2>5. (p = 1 \/ localCall[c] = "waits") /\ localQueue[s][p] = c  BY <1>4
  <2>6. PICK k : k = localCall'  OBVIOUS
  <2>7. /\ \A d \in Calls \ {c} : k[d] = localCall[d]
        /\ k[c] \notin {"idle", "waits", "asks"}
    BY <2>3, <2>4, <2>6
  <2>8. LeavesAt(localQueue, localCall, localAbout, c, s, p, r, k)
    BY ONLY <1>5, <1>7, <2>1, <2>2, <2>5, <2>7, c \in Calls, s \in Names DEF LeavesAt
  <2>9. Locks([localQueue EXCEPT ![s] = r], k, localAbout)  BY ONLY <2>8, LocksLeave
  <2> QED  BY <1>8, <2>6, <2>9 DEF LocalLocks
<1>10. localQueue' \in [Names -> Seq(Calls)]  BY <1>7, <1>8, LocalTypes DEF Without
<1> QED  BY <1>9, <1>10

(* A message is sent: it holds the lock of a free name, or waits.          *)
LEMMA LocalSent ==
  ASSUME LocalInv, NEW c \in Calls, NEW s \in Names, Local!Send(c, s)
  PROVE  LocalInv'
<1>1. /\ localCall[c] = "idle" /\ s \in Local!Open /\ localSessions[s] # None
      /\ localAbout' = [localAbout EXCEPT ![c] = s]
      /\ UNCHANGED <<localSessions, localMade, localActive, failures, dead>>
  BY DEF Local!Send, Local!Open
<1>2. localQueue \in [Names -> Seq(Calls)] /\ localAbout \in [Calls -> Names \cup {None}]
  BY LocalTypes
<1>3. Locks(localQueue, localCall, localAbout)  BY DEF LocalInv, LocalLocks
<1>4. CASE localQueue[s] = <<>>
  <2>1. /\ localQueue' = [localQueue EXCEPT ![s] = <<c>>]
        /\ localCall' = [localCall EXCEPT ![c] = "asks"]
        /\ localObject' = [localObject EXCEPT ![c] = localSessions[s]]
        /\ messages' = [messages EXCEPT ![localSessions[s]] = Append(@, <<c, "user">>)]
        /\ post' = [post EXCEPT ![c] = Attempts]
    BY <1>1, <1>4 DEF Local!Send, Local!Ask
  <2>2. localQueue' = [localQueue EXCEPT ![s] = Append(@, c)]  BY <1>4, <2>1
  <2>3. \A d \in Calls \ {c} : localCall'[d] = localCall[d]  BY <2>1, LocalTypes
  <2>4. localCall'[c] = IF localQueue[s] = <<>> THEN "asks" ELSE "waits"
    BY <1>4, <2>1, LocalTypes
  <2>5. Locks([localQueue EXCEPT ![s] = Append(@, c)], localCall', [localAbout EXCEPT ![c] = s])
    BY <1>1, <1>2, <1>3, <2>3, <2>4, LocksJoin
  <2>6. LocalLocks'  BY <1>1, <2>2, <2>5 DEF LocalLocks
  <2>7. localQueue' \in [Names -> Seq(Calls)]  BY <1>2, <2>1
  <2>8. \A d \in Calls : localCall[d] = "asks" => localAbout[d] # s  BY <1>4, LocalFree
  <2>9. localCall[c] \in {"idle", "waits"}  BY <1>1
  <2> QED  BY <1>1, <2>1, <2>6, <2>7, <2>8, <2>9, LocalAsked
<1>5. CASE localQueue[s] # <<>>
  <2>1. /\ localQueue' = [localQueue EXCEPT ![s] = Append(@, c)]
        /\ localCall' = [localCall EXCEPT ![c] = "waits"]
        /\ UNCHANGED <<localObject, messages, post>>
    BY <1>1, <1>5 DEF Local!Send
  <2>2. \A d \in Calls \ {c} : localCall'[d] = localCall[d] /\ localAbout'[d] = localAbout[d]
    BY <1>1, <2>1, LocalTypes
  <2>3. /\ localCall'[c] = "waits" /\ localObject[c] = None
        /\ localCall' \in [Calls -> Moments]
    BY <1>1, <2>1, LocalTypes DEF LocalInv, LocalCaptures, Moments
  <2>4. Locks([localQueue EXCEPT ![s] = Append(@, c)], localCall', [localAbout EXCEPT ![c] = s])
    <3>1. localCall'[c] = IF localQueue[s] = <<>> THEN "asks" ELSE "waits"  BY <1>5, <2>3
    <3> QED  BY <1>1, <1>2, <1>3, <2>2, <3>1, LocksJoin
  <2>5. LocalLocks'  BY <1>1, <2>1, <2>4 DEF LocalLocks
  <2>6. localQueue' \in [Names -> Seq(Calls)]  BY <1>2, <2>1
  <2>7. localAbout' \in [Calls -> Names \cup {None}]  BY <1>1, <1>2
  <2>8. Local!TypeOK'
    BY <1>1, <2>1, <2>3, <2>6, <2>7 DEF LocalInv, Local!TypeOK, Moments
  <2>9. LocalCaptures'  BY <2>1, <2>2, <2>3 DEF LocalInv, LocalCaptures
  <2>10. LocalOwned'
    <3>1. PICK own \in [Objects -> Names \cup {None}] : LocalOwner(own)
      BY DEF LocalInv, LocalOwned
    <3>2. LocalOwner(own)'  BY <1>1, <2>1, <2>2, <2>3, <3>1 DEF LocalOwner
    <3> QED  BY <3>2 DEF LocalOwned
  <2>11. LocalMessages'  BY <2>1 DEF LocalInv, LocalMessages
  <2>12. LocalQuestions'  BY <2>1, <2>2, <2>3 DEF LocalInv, LocalQuestions
  <2>13. LocalTold'  BY <2>1, <2>2, <2>3 DEF LocalInv, LocalTold
  <2> QED  BY <2>5, <2>8, <2>9, <2>10, <2>11, <2>12, <2>13 DEF LocalInv
<1> QED  BY <1>4, <1>5

(* A caller leaves and its question, if it put one, stays.                 *)
LEMMA LocalLeft ==
  ASSUME LocalInv, NEW c \in Calls, NEW status \in {"failed", "cancelled"},
         \/ localCall[c] = "waits"
         \/ localCall[c] = "asks" /\ status = "cancelled",
         localCall' = [localCall EXCEPT ![c] = status],
         LocalLocks', localQueue' \in [Names -> Seq(Calls)],
         UNCHANGED <<localSessions, messages, localMade, localActive, localAbout, localObject,
                     post, failures, dead>>
  PROVE  LocalInv'
<1>1. /\ localCall'[c] = status /\ localCall' \in [Calls -> Moments]
      /\ \A d \in Calls \ {c} : localCall'[d] = localCall[d]
  BY LocalTypes DEF Moments
<1>2. Local!TypeOK'  BY <1>1 DEF LocalInv, Local!TypeOK, Moments
<1>3. LocalCaptures'  BY <1>1 DEF LocalInv, LocalCaptures
<1>4. LocalOwned'
  <2>1. PICK own \in [Objects -> Names \cup {None}] : LocalOwner(own)
    BY DEF LocalInv, LocalOwned
  <2>2. LocalOwner(own)'  BY <2>1 DEF LocalOwner
  <2> QED  BY <2>2 DEF LocalOwned
<1>5. LocalMessages'  BY DEF LocalInv, LocalMessages
<1>6. LocalQuestions'  BY <1>1 DEF LocalInv, LocalQuestions
<1>7. LocalTold'
  <2>1. \A d \in Calls : localObject[d] # None => Leaves(localCall'[d]) = Leaves(localCall[d])
    BY <1>1 DEF Leaves, LocalInv, LocalCaptures
  <2> QED  BY <2>1 DEF LocalInv, LocalTold
<1> QED  BY <1>2, <1>3, <1>4, <1>5, <1>6, <1>7 DEF LocalInv

LEMMA LocalCancelled ==
  ASSUME LocalInv, NEW c \in Calls, Local!Cancel(c)
  PROVE  LocalInv'
<1>1. /\ localCall' = [localCall EXCEPT ![c] = "cancelled"]
      /\ UNCHANGED <<localSessions, messages, localMade, localActive, localAbout, localObject,
                     post, failures, dead>>
      /\ "cancelled" \in {"failed", "cancelled"} /\ "cancelled" \in {"told", "failed", "cancelled"}
  BY DEF Local!Cancel
<1>2. localAbout' = localAbout  BY <1>1
<1>3. CASE localCall[c] = "asks"
  <2>1. localQueue' = [localQueue EXCEPT ![localAbout[c]] = Tail(@)]
    BY <1>3 DEF Local!Cancel, Local!Release
  <2>2. LocalLocks' /\ localQueue' \in [Names -> Seq(Calls)]
    BY <1>1, <1>2, <1>3, <2>1, LocalReleased, Zenon
  <2> QED  BY <1>1, <1>3, <2>2, LocalLeft
<1>4. CASE localCall[c] # "asks"
  <2>1. localCall[c] = "waits" /\ Local!Withdraw(c)  BY <1>4 DEF Local!Cancel
  <2>2. LocalLocks' /\ localQueue' \in [Names -> Seq(Calls)]
    BY <1>1, <1>2, <2>1, LocalWithdrew, Zenon
  <2> QED  BY <1>1, <2>1, <2>2, LocalLeft
<1> QED  BY <1>3, <1>4

(* A waiter gets the lock: its session is there, or it is refused.         *)
LEMMA LocalEntered ==
  ASSUME LocalInv, NEW c \in Calls, Local!Enters(c)
  PROVE  LocalInv'
<1>1. PICK s \in Names : s = localAbout[c]
  <2>1. AtLock(localQueue, localCall, localAbout, c)  BY DEF LocalInv, LocalLocks, Locks
  <2> QED  BY <2>1 DEF AtLock, Local!Enters
<1>2. /\ localCall[c] = "waits" /\ Head(localQueue[s]) = c /\ localAbout' = localAbout
      /\ UNCHANGED <<localSessions, localMade, localActive, failures, dead>>
  BY <1>1 DEF Local!Enters
<1>3. localQueue \in [Names -> Seq(Calls)] /\ localAbout \in [Calls -> Names \cup {None}]
  BY LocalTypes
<1>4. CASE localSessions[s] = None
  <2>1. /\ localQueue' = [localQueue EXCEPT ![localAbout[c]] = Tail(@)]
        /\ localCall' = [localCall EXCEPT ![c] = "failed"]
        /\ UNCHANGED <<localObject, messages, post>>
    BY <1>1, <1>4 DEF Local!Enters, Local!Ask, Local!Open
  <2>2. \/ localCall[c] = "asks"
        \/ localCall[c] = "waits" /\ Head(localQueue[localAbout[c]]) = c
    BY <1>1, <1>2
  <2>3. "failed" \in {"told", "failed", "cancelled"} /\ "failed" \in {"failed", "cancelled"}  OBVIOUS
  <2>4. LocalLocks' /\ localQueue' \in [Names -> Seq(Calls)]
    BY <1>2, <2>1, <2>2, <2>3, LocalReleased, Zenon
  <2> QED  BY <1>2, <2>1, <2>3, <2>4, LocalLeft
<1>5. CASE localSessions[s] # None
  <2>1. /\ localQueue' = [localQueue EXCEPT ![s] = localQueue[s]]
        /\ localCall' = [localCall EXCEPT ![c] = "asks"]
        /\ localObject' = [localObject EXCEPT ![c] = localSessions[s]]
        /\ messages' = [messages EXCEPT ![localSessions[s]] = Append(@, <<c, "user">>)]
        /\ post' = [post EXCEPT ![c] = Attempts]
    BY <1>1, <1>5 DEF Local!Enters, Local!Ask, Local!Open
  <2>2. localQueue' = localQueue  BY <1>3, <2>1
  <2>3. localAbout' = [localAbout EXCEPT ![c] = s]  BY <1>1, <1>2, <1>3
  <2>4. LocalLocks'
    <3>1. \A d \in Calls \ {c} : localCall'[d] = localCall[d]  BY <2>1, LocalTypes
    <3>2. localCall'[c] = "asks"  BY <2>1, LocalTypes
    <3>3. Head(localQueue[localAbout[c]]) = c  BY <1>1, <1>2
    <3>4. Locks(localQueue, localCall', localAbout)
      BY <1>2, <1>3, <3>1, <3>2, <3>3, LocksTake DEF LocalInv, LocalLocks
    <3> QED  BY <1>2, <2>2, <3>4 DEF LocalLocks
  <2>5. \A d \in Calls : localCall[d] = "asks" => localAbout[d] # s
    BY <1>1, <1>2, LocalFree
  <2>6. localCall[c] \in {"idle", "waits"} /\ localQueue' \in [Names -> Seq(Calls)]
    BY <1>2, <1>3, <2>2
  <2> QED  BY <1>2, <1>5, <2>1, <2>3, <2>4, <2>5, <2>6, LocalAsked
<1> QED  BY <1>4, <1>5

(* What a thread, a probe or a selection does when no caller is awaiting.  *)
LEMMA LocalStays ==
  ASSUME LocalInv,
         UNCHANGED <<localSessions, messages, localMade, localQueue, localCall, localAbout,
                     localObject>>,
         post' \in [Calls -> 0 .. Attempts], failures' \in 0 .. Threshold - 1, dead' \in BOOLEAN,
         localActive' \in Names \cup {None},
         localActive' # None => localSessions[localActive'] # None
  PROVE  LocalInv'
<1>1. Local!TypeOK'  BY DEF LocalInv, Local!TypeOK
<1>2. LocalOwned'
  <2>1. PICK own \in [Objects -> Names \cup {None}] : LocalOwner(own)
    BY DEF LocalInv, LocalOwned
  <2>2. LocalOwner(own)'  BY <2>1 DEF LocalOwner
  <2> QED  BY <2>2 DEF LocalOwned
<1>3. LocalLocks' /\ LocalCaptures' /\ LocalMessages'
  BY DEF LocalInv, LocalLocks, LocalCaptures, LocalMessages
<1>4. LocalQuestions' /\ LocalTold'  BY DEF LocalInv, LocalQuestions, LocalTold
<1> QED  BY <1>1, <1>2, <1>3, <1>4 DEF LocalInv

LEMMA LocalStarted ==
  ASSUME LocalInv, NEW s \in Names, Local!Start(s)
  PROVE  LocalInv'
<1>1. /\ s \notin Local!Open /\ localMade < Cardinality(Objects) /\ localMade' = localMade + 1
      /\ localSessions' = [localSessions EXCEPT ![s] = localMade + 1] /\ localActive' = s
      /\ UNCHANGED <<messages, localQueue, localCall, localAbout, localObject, post, failures, dead>>
  <2>1. Local!Cardinality(Objects) = Cardinality(Objects)  BY LocalCounts, Zenon
  <2> QED  BY <2>1 DEF Local!Start
<1>2. PICK n \in Nat : n = Cardinality(Objects) /\ Objects = 1 .. n  BY LocalCounts
<1>3. PICK o \in Objects : o = localMade + 1
  <2>1. localMade \in Nat  BY LocalTypes
  <2>2. localMade + 1 \in 1 .. n  BY <1>1, <1>2, <2>1
  <2> QED  BY <1>2, <2>2
<1>4. o \in Nat /\ localMade \in Nat /\ ~(o <= localMade) /\ o # None /\ s # None /\ localMade' = o
  BY <1>1, <1>3, LocalTypes
<1>5. /\ localSessions' \in [Names -> Objects \cup {None}] /\ localSessions'[s] = o
      /\ \A t \in Names \ {s} : localSessions'[t] = localSessions[t]
  BY <1>1, <1>3, LocalTypes
<1>6. PICK own \in [Objects -> Names \cup {None}] : LocalOwner(own)
  BY DEF LocalInv, LocalOwned
<1>7. Local!TypeOK'
  <2>1. localMade' \in 0 .. Local!Cardinality(Objects)
    <3>1. PICK m : m = Local!Cardinality(Objects)  OBVIOUS
    <3>2. m = n  BY <1>2, <3>1, LocalCounts, Zenon
    <3>3. localMade' \in 0 .. m  BY <1>2, <1>4, <3>2
    <3> QED  BY <3>1, <3>3
  <2>2. localActive' \in Names \cup {None} /\ localSessions'[localActive'] # None
    BY <1>1, <1>4, <1>5
  <2> QED  BY <1>1, <1>5, <2>1, <2>2 DEF LocalInv, Local!TypeOK
<1>8. LocalOwned'
  <2>1. PICK new \in [Objects -> Names \cup {None}] : new = [own EXCEPT ![o] = s]  OBVIOUS
  <2>2. new[o] = s /\ \A p \in Objects \ {o} : new[p] = own[p]  BY <2>1
  <2>3. ASSUME NEW t \in Names, localSessions'[t] # None
        PROVE  new[localSessions'[t]] = t /\ localSessions'[t] <= localMade'
    <3>1. CASE t = s  BY <1>4, <1>5, <2>2, <3>1
    <3>2. CASE t # s
      <4>1. localSessions'[t] = localSessions[t] /\ localSessions[t] \in Objects /\ localSessions[t] # None
        BY <1>5, <2>3, <3>2, LocalTypes
      <4>2. own[localSessions[t]] = t /\ localSessions[t] <= localMade /\ localSessions[t] \in Nat
        BY <1>6, <4>1, LocalTypes DEF LocalOwner
      <4>3. localSessions[t] # o  BY <1>4, <4>2
      <4>4. localSessions[t] <= localMade'  BY <1>1, <1>4, <4>2
      <4> QED  BY <2>2, <4>1, <4>2, <4>3, <4>4
    <3> QED  BY <3>1, <3>2
  <2>4. ASSUME NEW c \in Calls, localObject[c] # None
        PROVE  new[localObject[c]] = localAbout[c] /\ localObject[c] <= localMade'
    <3>1. localObject[c] \in Objects /\ localObject[c] \in Nat  BY <2>4, LocalTypes
    <3>2. own[localObject[c]] = localAbout[c] /\ localObject[c] <= localMade
      BY <1>6, <2>4 DEF LocalOwner
    <3>3. localObject[c] # o  BY <1>4, <3>2
    <3>4. localObject[c] <= localMade'  BY <1>1, <1>4, <3>1, <3>2
    <3> QED  BY <2>2, <3>1, <3>2, <3>3, <3>4
  <2>5. LocalOwner(new)'  BY <1>1, <2>3, <2>4 DEF LocalOwner
  <2> QED  BY <2>5 DEF LocalOwned
<1>9. LocalLocks' /\ LocalCaptures' /\ LocalMessages'
  BY <1>1 DEF LocalInv, LocalLocks, LocalCaptures, LocalMessages
<1>10. LocalQuestions' /\ LocalTold'  BY <1>1 DEF LocalInv, LocalQuestions, LocalTold
<1> QED  BY <1>7, <1>8, <1>9, <1>10 DEF LocalInv

LEMMA LocalEnded ==
  ASSUME LocalInv, NEW s \in Names, Local!End(s)
  PROVE  LocalInv'
<1>1. /\ localSessions' = [localSessions EXCEPT ![s] = None]
      /\ UNCHANGED <<messages, localMade, localQueue, localCall, localAbout, localObject,
                     post, failures, dead>>
  BY DEF Local!End
<1>2. /\ localSessions' \in [Names -> Objects \cup {None}] /\ localSessions'[s] = None
      /\ \A t \in Names \ {s} : localSessions'[t] = localSessions[t]
  BY <1>1, LocalTypes
<1>3. Local!TypeOK'
  <2>1. /\ localActive' \in Names \cup {None}
        /\ localActive' # None => localSessions'[localActive'] # None
    <3>1. /\ localActive \in Names \cup {None}
          /\ localActive # None => localSessions[localActive] # None
      BY DEF LocalInv, Local!TypeOK
    <3>2. CASE localActive # s  BY <1>2, <3>1, <3>2 DEF Local!End
    <3>3. CASE localActive = s  BY <1>2, <3>3 DEF Local!End, Local!Open
    <3> QED  BY <3>2, <3>3
  <2> QED  BY <1>1, <1>2, <2>1 DEF LocalInv, Local!TypeOK
<1>4. LocalOwned'
  <2>1. PICK own \in [Objects -> Names \cup {None}] : LocalOwner(own)
    BY DEF LocalInv, LocalOwned
  <2>2. LocalOwner(own)'  BY <1>1, <1>2, <2>1 DEF LocalOwner
  <2> QED  BY <2>2 DEF LocalOwned
<1>5. LocalLocks' /\ LocalCaptures' /\ LocalMessages'
  BY <1>1 DEF LocalInv, LocalLocks, LocalCaptures, LocalMessages
<1>6. LocalQuestions' /\ LocalTold'  BY <1>1 DEF LocalInv, LocalQuestions, LocalTold
<1> QED  BY <1>3, <1>4, <1>5, <1>6 DEF LocalInv

(* The call that asks ends: its answer is put behind its question, or the  *)
(* question is taken back, which is the last message.                      *)
LEMMA LocalSettled ==
  ASSUME LocalInv, NEW c \in Calls, localCall[c] = "asks", Local!Release(c),
         NEW status \in {"told", "failed"}, localCall' = [localCall EXCEPT ![c] = status],
         messages' = [messages EXCEPT ![localObject[c]] =
                        IF status = "told" THEN Append(@, <<c, "assistant">>) ELSE Local!Front(@)],
         post' \in [Calls -> 0 .. Attempts], failures' \in 0 .. Threshold - 1, dead' \in BOOLEAN,
         UNCHANGED <<localSessions, localMade, localActive, localAbout, localObject>>
  PROVE  LocalInv'
<1>1. PICK o \in Objects : o = localObject[c]  BY LocalAlone
<1>2. PICK h \in Seq(Talks) : h = messages[o]  BY LocalTypes
<1>3. Len(h) > 0 /\ h[Len(h)] = <<c, "user">>
  BY <1>1, <1>2 DEF LocalInv, LocalQuestions
<1>4. PICK m \in Talks : m = <<c, "assistant">> /\ m[1] = c
  <2>1. <<c, "assistant">> \in Talks /\ <<c, "assistant">>[1] = c  BY DEF Talks
  <2> QED  BY <2>1
<1>5. PICK g : g = IF status = "told" THEN Append(h, m) ELSE Local!Front(h)  OBVIOUS
<1>6. /\ messages' = [messages EXCEPT ![o] = g] /\ localAbout' = localAbout
      /\ UNCHANGED <<localSessions, localMade, localActive, localObject>>
  BY <1>1, <1>2, <1>4, <1>5
<1>7. PICK j \in [Calls -> Moments] :
        /\ j = localCall' /\ j[c] = status /\ \A d \in Calls \ {c} : j[d] = localCall[d]
  <2>1. localCall \in [Calls -> Moments] /\ status \in Moments  BY LocalTypes DEF Moments
  <2>2. /\ [localCall EXCEPT ![c] = status] \in [Calls -> Moments]
        /\ [localCall EXCEPT ![c] = status][c] = status
        /\ \A d \in Calls \ {c} : [localCall EXCEPT ![c] = status][d] = localCall[d]
    BY <2>1
  <2> QED  BY <2>2
<1>8. LocalLocks' /\ localQueue' \in [Names -> Seq(Calls)]
  <2>1. status \in {"told", "failed", "cancelled"}  OBVIOUS
  <2>2. localQueue' = [localQueue EXCEPT ![localAbout[c]] = Tail(@)]  BY DEF Local!Release
  <2> QED  BY <1>6, <2>1, <2>2, LocalReleased, Zenon
<1>9. g \in Seq(Talks)
  <2>1. CASE status = "told"  BY <1>5, <2>1, Appended
  <2>2. CASE status # "told"  BY <1>3, <1>5, <2>2, WithoutLast
  <2> QED  BY <2>1, <2>2
<1>10. ASSUME NEW i \in DOMAIN g PROVE g[i] = m \/ \E l \in DOMAIN h : g[i] = h[l]
  <2>1. CASE status = "told"
    <3>1. /\ DOMAIN g = 1 .. Len(h) + 1 /\ DOMAIN h = 1 .. Len(h) /\ Len(h) \in Nat
          /\ g[Len(h) + 1] = m /\ \A l \in 1 .. Len(h) : g[l] = h[l]
      BY <1>5, <2>1, Appended
    <3>2. CASE i = Len(h) + 1  BY <3>1, <3>2
    <3>3. CASE i # Len(h) + 1
      <4>1. i \in 1 .. Len(h)  BY <3>1, <3>3
      <4> QED  BY <3>1, <4>1
    <3> QED  BY <3>2, <3>3
  <2>2. CASE status # "told"
    <3>1. /\ DOMAIN g = 1 .. Len(h) - 1 /\ DOMAIN h = 1 .. Len(h) /\ Len(h) \in Nat
          /\ \A l \in 1 .. Len(h) - 1 : g[l] = h[l]
      BY <1>3, <1>5, <2>2, WithoutLast
    <3>2. i \in DOMAIN h  BY <3>1
    <3> QED  BY <3>1, <3>2
  <2> QED  BY <2>1, <2>2
<1>11. /\ messages'[o] = g /\ messages' \in [Objects -> Seq(Talks)]
       /\ \A p \in Objects \ {o} : messages'[p] = messages[p]
  <2>1. messages \in [Objects -> Seq(Talks)]  BY LocalTypes
  <2> QED  BY ONLY <1>6, <1>9, <2>1, o \in Objects
<1>12. Local!TypeOK'
  <2>1. Local!TypeOK  BY DEF LocalInv
  <2>2. localCall' \in [Calls -> Moments]  BY <1>7
  <2> QED  BY ONLY <1>6, <1>8, <1>11, <2>1, <2>2, post' \in [Calls -> 0 .. Attempts],
    failures' \in 0 .. Threshold - 1, dead' \in BOOLEAN DEF Local!TypeOK, Talks, Moments
<1>13. LocalCaptures'
  <2>1. localObject[c] # None  BY <1>1, LocalTypes
  <2> QED  BY <1>6, <1>7, <2>1 DEF LocalInv, LocalCaptures
<1>14. LocalOwned'
  <2>1. PICK own \in [Objects -> Names \cup {None}] : LocalOwner(own)
    BY DEF LocalInv, LocalOwned
  <2>2. LocalOwner(own)'  BY <1>6, <2>1 DEF LocalOwner
  <2> QED  BY <2>2 DEF LocalOwned
<1>15. LocalMessages'
  <2>1. \A i \in DOMAIN g : localObject[g[i][1]] = o
    BY <1>1, <1>2, <1>4, <1>10 DEF LocalInv, LocalMessages
  <2>2. ASSUME NEW p \in Objects, NEW i \in DOMAIN messages'[p]
        PROVE  localObject'[messages'[p][i][1]] = p
    <3>1. CASE p = o  BY <1>6, <1>11, <2>1, <3>1
    <3>2. CASE p # o  BY <1>6, <1>11, <3>2 DEF LocalInv, LocalMessages
    <3> QED  BY <3>1, <3>2
  <2> QED  BY <2>2 DEF LocalMessages
<1>16. LocalQuestions'
  <2>1. ASSUME NEW d \in Calls, localCall'[d] = "asks"
        PROVE  LET said == messages'[localObject'[d]]
               IN  Len(said) > 0 /\ said[Len(said)] = <<d, "user">>
    <3>1. d # c /\ localCall[d] = "asks"  BY <1>7, <2>1
    <3>2. localObject[d] # o /\ localObject[d] \in Objects  BY <1>1, <3>1, LocalAlone
    <3> QED  BY <1>6, <1>11, <3>1, <3>2 DEF LocalInv, LocalQuestions
  <2> QED  BY <2>1 DEF LocalQuestions
<1>17. PICK k \in Nat : Stands(h, c, k, 1)
  <2>1. localObject[c] # None  BY <1>1, LocalTypes
  <2>2. Leaves(localCall[c]) = 1  BY DEF Leaves
  <2> QED  BY <1>1, <1>2, <2>1, <2>2 DEF LocalInv, LocalTold
<1>18. \E l \in Nat : Stands(g, c, l, Leaves(status))
  <2>1. CASE status = "told"
    <3>1. Leaves(status) = 2  BY <2>1 DEF Leaves
    <3> QED  BY <1>3, <1>4, <1>5, <1>17, <2>1, <3>1, StandsAnswered
  <2>2. CASE status # "told"
    <3>1. status = "failed"  BY <2>2
    <3>2. Leaves(status) = 0  BY <3>1 DEF Leaves
    <3> QED  BY <1>3, <1>5, <1>17, <2>2, <3>2, StandsGone
  <2> QED  BY <2>1, <2>2
<1>19. ASSUME NEW d \in Calls \ {c}, NEW n \in 0 .. 2, NEW l \in Nat, Stands(h, d, l, n)
       PROVE  \E q \in Nat : Stands(g, d, q, n)
  <2>1. CASE status = "told"  BY <1>4, <1>5, <1>19, <2>1, StandsOn
  <2>2. CASE status # "told"
    <3>1. h[Len(h)][1] # d
      <4>1. <<c, "user">>[1] = c  OBVIOUS
      <4> QED  BY <1>3, <4>1
    <3> QED  BY <1>3, <1>5, <1>19, <2>2, <3>1, StandsBack
  <2> QED  BY <2>1, <2>2
<1>20. LocalTold'
  <2>1. ASSUME NEW d \in Calls, localObject[d] # None
        PROVE  \E q \in Nat : Stands(messages'[localObject[d]], d, q, Leaves(j[d]))
    <3>1. CASE d = c  BY <1>1, <1>7, <1>11, <1>18, <3>1
    <3>2. CASE d # c
      <4>1. PICK l \in Nat : Stands(messages[localObject[d]], d, l, Leaves(localCall[d]))
        BY <2>1 DEF LocalInv, LocalTold
      <4>2. j[d] = localCall[d] /\ localObject[d] \in Objects  BY <1>7, <2>1, <3>2, LocalTypes
      <4>3. CASE localObject[d] = o
        <5>1. Leaves(localCall[d]) \in 0 .. 2  BY LeavesFew
        <5>2. \E q \in Nat : Stands(g, d, q, Leaves(localCall[d]))
          BY <1>2, <1>19, <3>2, <4>1, <4>3, <5>1
        <5> QED  BY <1>11, <4>2, <4>3, <5>2
      <4>4. CASE localObject[d] # o  BY <1>11, <4>1, <4>2, <4>4
      <4> QED  BY <4>3, <4>4
    <3> QED  BY <3>1, <3>2
  <2> QED  BY <1>6, <1>7, <2>1 DEF LocalTold
<1> QED  BY <1>8, <1>12, <1>13, <1>14, <1>15, <1>16, <1>20 DEF LocalInv

(* The thread of a call: the outcome reaches the caller when it is there.  *)
LEMMA LocalThreads ==
  ASSUME LocalInv, NEW c \in Calls, Local!Thread(c)
  PROVE  LocalInv'
<1>1. /\ UNCHANGED <<localSessions, localMade, localActive, localAbout, localObject>>
      /\ post' \in [Calls -> 0 .. Attempts]
  <2>1. CASE Local!TryAgain(c)
    <3>1. post[c] - 1 \in 0 .. Attempts
      <4>1. post[c] > 1 /\ post[c] \in 0 .. Attempts /\ Attempts \in Nat
        BY <2>1, LocalTypes DEF Local!TryAgain
      <4> QED  BY <4>1
    <3> QED  BY <2>1, <3>1, LocalTypes DEF Local!TryAgain
  <2>2. CASE Local!Replies(c) \/ Local!Refuses(c) \/ Local!Unreachable(c)
    <3>1. 0 \in 0 .. Attempts  BY LocalTypes
    <3> QED  BY <2>2, <3>1, LocalTypes DEF Local!Replies, Local!Refuses, Local!Unreachable
  <2> QED  BY <2>1, <2>2 DEF Local!Thread
<1>2. failures' \in 0 .. Threshold - 1 /\ dead' \in BOOLEAN
  <2>1. CASE Local!TryAgain(c) \/ Local!Replies(c) \/ Local!Refuses(c)
    BY <2>1, LocalTypes DEF Local!TryAgain, Local!Replies, Local!Refuses
  <2>2. CASE Local!Unreachable(c)
    <3>1. /\ failures \in 0 .. Threshold - 1 /\ Threshold \in Nat /\ Threshold >= 1
          /\ dead \in BOOLEAN
      BY LocalTypes
    <3>2. CASE failures + 1 = Threshold
      BY <2>2, <3>1, <3>2 DEF Local!Unreachable, Local!Count
    <3>3. CASE failures + 1 # Threshold
      <4>1. failures' = failures + 1 /\ dead' = dead
        BY <2>2, <3>3 DEF Local!Unreachable, Local!Count
      <4> QED  BY <3>1, <3>3, <4>1
    <3> QED  BY <3>2, <3>3
  <2> QED  BY <2>1, <2>2 DEF Local!Thread
<1>3. CASE UNCHANGED <<messages, localQueue, localCall>>
  BY <1>1, <1>2, <1>3, LocalStays DEF LocalInv, Local!TypeOK
<1>4. CASE ~UNCHANGED <<messages, localQueue, localCall>>
  <2>1. PICK status \in {"told", "failed"} :
          /\ localCall[c] = "asks" /\ Local!Release(c)
          /\ localCall' = [localCall EXCEPT ![c] = status]
          /\ messages' = [messages EXCEPT ![localObject[c]] =
                            IF status = "told" THEN Append(@, <<c, "assistant">>)
                            ELSE Local!Front(@)]
    <3>1. CASE Local!Replies(c)
      <4>1. "told" \in {"told", "failed"}  OBVIOUS
      <4> QED  BY <1>4, <3>1, <4>1 DEF Local!Replies, Local!Told
    <3>2. CASE Local!Refuses(c) \/ Local!Unreachable(c)
      <4>1. "failed" \in {"told", "failed"} /\ "failed" # "told"  OBVIOUS
      <4> QED  BY <1>4, <3>2, <4>1 DEF Local!Refuses, Local!Unreachable, Local!TakenBack
    <3>3. CASE Local!TryAgain(c)  BY <1>4, <3>3 DEF Local!TryAgain
    <3> QED  BY <3>1, <3>2, <3>3 DEF Local!Thread
  <2> QED  BY <1>1, <1>2, <2>1, LocalSettled
<1> QED  BY <1>3, <1>4

LEMMA LocalSteps ==
  ASSUME LocalInv, Local!Next \/ UNCHANGED localVars
  PROVE  LocalInv'
<1>1. ASSUME NEW s \in Names, Local!Start(s) \/ Local!End(s) PROVE LocalInv'
  BY <1>1, LocalStarted, LocalEnded
<1>2. ASSUME NEW c \in Calls, Local!Enters(c) \/ Local!Cancel(c) \/ Local!Thread(c) PROVE LocalInv'
  BY <1>2, LocalEntered, LocalCancelled, LocalThreads
<1>3. ASSUME NEW c \in Calls, NEW s \in Names, Local!Send(c, s) PROVE LocalInv'
  BY <1>3, LocalSent
<1>4. ASSUME NEW s \in Names, Local!SetActive(s) PROVE LocalInv'
  BY <1>4, LocalTypes, LocalStays DEF Local!SetActive, Local!Open
<1>5. CASE Local!Probed \/ Local!CooledOff \/ UNCHANGED localVars
  <2>1. /\ UNCHANGED <<localSessions, messages, localMade, localQueue, localCall, localAbout,
                       localObject, post, localActive>>
        /\ failures' = failures \/ failures' = 0
        /\ dead' \in BOOLEAN
    BY <1>5, LocalTypes DEF Local!Probed, Local!CooledOff, localVars
  <2>2. failures' \in 0 .. Threshold - 1  BY <2>1, LocalTypes
  <2> QED  BY <2>1, <2>2, LocalTypes, LocalStays DEF LocalInv, Local!TypeOK
<1> QED  BY <1>1, <1>2, <1>3, <1>4, <1>5 DEF Local!Next

LEMMA LocalAlways == Spec => []LocalInv
<1>1. Init => LocalInv  BY LocalInit DEF Init
<1>2. LocalInv /\ [Next]_vars => LocalInv'
  <2> SUFFICES ASSUME LocalInv, [Next]_vars PROVE LocalInv'  OBVIOUS
  <2>1. Local!Next \/ UNCHANGED localVars
    BY DEF Next, vars, RescueRuns, CodexRuns, LocalRuns, HttpRuns, GpuRuns, PeerRuns, EditsRuns
  <2> QED  BY <2>1, LocalSteps
<1> QED  BY <1>1, <1>2, PTL DEF Spec

LEMMA LocalKeeps == LocalInv => Local!HistoryIsTold
<1> SUFFICES ASSUME LocalInv, NEW c \in Calls, localObject[c] # None
             PROVE  \E k \in 0 .. Len(messages[localObject[c]]) - Len(Local!Left(c)) :
                      /\ \A i \in DOMAIN Local!Left(c) :
                           messages[localObject[c]][k + i] = <<c, Local!Left(c)[i]>>
                      /\ \A i \in DOMAIN messages[localObject[c]] :
                           messages[localObject[c]][i][1] = c => i - k \in DOMAIN Local!Left(c)
  BY DEF Local!HistoryIsTold
<1>1. PICK h \in Seq(Talks) : h = messages[localObject[c]]  BY LocalTypes
<1>2. PICK n \in 0 .. 2 : n = Leaves(localCall[c])  BY LeavesFew
<1>3. PICK k \in Nat : Stands(h, c, k, n)  BY <1>1, <1>2 DEF LocalInv, LocalTold
<1>4. PICK r : r = Local!Left(c)  OBVIOUS
<1>5. /\ DOMAIN r = 1 .. n /\ Len(r) = n
      /\ n >= 1 => r[1] = "user"
      /\ n = 2 => r[2] = "assistant"
  <2>1. CASE localCall[c] = "told"
    <3>1. n = 2 /\ r = <<"user", "assistant">>  BY <1>2, <1>4, <2>1 DEF Leaves, Local!Left
    <3> QED  BY <3>1
  <2>2. CASE localCall[c] \in {"asks", "cancelled"}
    <3>1. n = 1 /\ r = <<"user">>  BY <1>2, <1>4, <2>2 DEF Leaves, Local!Left
    <3> QED  BY <3>1
  <2>3. CASE localCall[c] \notin {"told", "asks", "cancelled"}
    <3>1. n = 0 /\ r = <<>>  BY <1>2, <1>4, <2>3 DEF Leaves, Local!Left
    <3> QED  BY <3>1
  <2> QED  BY <2>1, <2>2, <2>3
<1>6. k \in 0 .. Len(h) - n
  <2>1. k + n <= Len(h) /\ Len(h) \in Nat  BY <1>3 DEF Stands
  <2> QED  BY <2>1
<1>7. ASSUME NEW i \in 1 .. n PROVE h[k + i] = <<c, r[i]>>
  <2>1. i = 1 \/ (i = 2 /\ n = 2)  OBVIOUS
  <2>2. n >= 1  OBVIOUS
  <2> QED  BY <1>3, <1>5, <2>1, <2>2 DEF Stands
<1>8. ASSUME NEW i \in DOMAIN h, h[i][1] = c PROVE i - k \in 1 .. n
  <2>1. k < i /\ i <= k + n  BY <1>3, <1>8 DEF Stands
  <2>2. i \in Nat
    <3>1. DOMAIN h = 1 .. Len(h)  OBVIOUS
    <3> QED  BY <3>1
  <2> QED  BY <2>1, <2>2
<1> QED  BY <1>1, <1>4, <1>5, <1>6, <1>7, <1>8

(* Who answers for an object o, when one call starts or stops asking p.    *)
Taken(k, b, j, e, c, p, o) ==
  /\ o = p => Answering(k, b, o) = None /\ Answering(j, e, o) = c
  /\ o # p => Answering(j, e, o) = Answering(k, b, o)
Given(k, b, j, c, p, o) ==
  /\ o = p => Answering(k, b, o) = c /\ Answering(j, b, o) = None
  /\ o # p => Answering(j, b, o) = Answering(k, b, o)

LEMMA TurnTaken ==
  ASSUME NEW k, NEW b, NEW j, NEW e, NEW c \in Calls, NEW p, NEW o,
         \A d \in Calls : ~(k[d] = "asks" /\ b[d] = p), k[c] # "asks",
         \A d \in Calls \ {c} : j[d] = k[d] /\ e[d] = b[d], j[c] = "asks", e[c] = p
  PROVE  Taken(k, b, j, e, c, p, o)
<1>1. CASE o = p
  <2>1. Answering(k, b, o) = None  BY <1>1, NobodyAnswers
  <2>2. Answering(j, e, o) = c
    <3>1. \A d \in Calls : j[d] = "asks" /\ e[d] = o => d = c  BY <1>1
    <3>2. j[c] = "asks" /\ e[c] = o  BY <1>1
    <3> QED  BY <3>1, <3>2, OneAnswers
  <2> QED  BY <1>1, <2>1, <2>2 DEF Taken
<1>2. CASE o # p
  <2>1. \A d \in Calls : k[d] = "asks" /\ b[d] = o <=> j[d] = "asks" /\ e[d] = o  BY <1>2
  <2>2. Answering(k, b, o) = Answering(j, e, o)  BY <2>1, SameAnswers
  <2> QED  BY <1>2, <2>2 DEF Taken
<1> QED  BY <1>1, <1>2

LEMMA TurnLeft ==
  ASSUME NEW k, NEW b, NEW j, NEW c \in Calls, NEW p, NEW o,
         k[c] = "asks", b[c] = p, \A d \in Calls : k[d] = "asks" /\ b[d] = p => d = c,
         \A d \in Calls \ {c} : j[d] = k[d], j[c] # "asks"
  PROVE  Given(k, b, j, c, p, o)
<1>1. CASE o = p
  <2>1. Answering(k, b, o) = c  BY <1>1, OneAnswers
  <2>2. \A d \in Calls : ~(j[d] = "asks" /\ b[d] = o)  BY <1>1
  <2>3. Answering(j, b, o) = None  BY <2>2, NobodyAnswers
  <2> QED  BY <1>1, <2>1, <2>3 DEF Given
<1>2. CASE o # p
  <2>1. \A d \in Calls : k[d] = "asks" /\ b[d] = o <=> j[d] = "asks" /\ b[d] = o  BY <1>2
  <2>2. Answering(k, b, o) = Answering(j, b, o)  BY <2>1, SameAnswers
  <2> QED  BY <1>2, <2>2 DEF Given
<1> QED  BY <1>1, <1>2

LEMMA TurnKept ==
  ASSUME NEW k, NEW b, NEW j, NEW c \in Calls, NEW o,
         \A d \in Calls \ {c} : j[d] = k[d], j[c] # "asks", k[c] # "asks"
  PROVE  Answering(j, b, o) = Answering(k, b, o)
<1>1. \A d \in Calls : k[d] = "asks" /\ b[d] = o <=> j[d] = "asks" /\ b[d] = o  OBVIOUS
<1>2. Answering(k, b, o) = Answering(j, b, o)  BY <1>1, SameAnswers
<1> QED  BY <1>2

LocalSays(o) ==
  Says(messages[o], Answering(localCall, localObject, o),
       messages'[o], Answering(localCall', localObject', o))

LEMMA LocalTalks == ASSUME \A o \in Objects : LocalSays(o) PROVE Local!Talk!Next
<1>1. ASSUME NEW o \in Objects
      PROVE  /\ [p \in Objects |-> Local!Turn(p)][o] = Answering(localCall, localObject, o)
             /\ [p \in Objects |-> Local!Turn(p)]'[o] = Answering(localCall', localObject', o)
  BY DEF Local!Turn, Answering
<1> QED
  BY <1>1 DEF LocalSays, Says, Local!Talk!Next, Local!Talk!Ask, Local!Talk!Answer,
     Local!Talk!Answered, Local!Talk!GiveUp, Local!Talk!Restore, Local!Talk!Rests

LEMMA LocalAsks ==
  ASSUME LocalInv, NEW c \in Calls, NEW s \in Names, localCall[c] \in {"idle", "waits"},
         localSessions[s] # None,
         \A d \in Calls : localCall[d] = "asks" => localAbout[d] # s,
         localCall' = [localCall EXCEPT ![c] = "asks"],
         localObject' = [localObject EXCEPT ![c] = localSessions[s]],
         messages' = [messages EXCEPT ![localSessions[s]] = Append(@, <<c, "user">>)],
         NEW o \in Objects
  PROVE  LocalSays(o)
<1>1. PICK p \in Objects : p = localSessions[s]  BY LocalTypes
<1>2. PICK j : /\ j = localCall' /\ j[c] = "asks"
               /\ \A d \in Calls \ {c} : j[d] = localCall[d]
  <2>1. localCall'[c] = "asks" /\ \A d \in Calls \ {c} : localCall'[d] = localCall[d]
    BY LocalTypes
  <2>2. PICK j : j = localCall'  OBVIOUS
  <2> QED  BY <2>1, <2>2
<1>3. PICK e : /\ e = localObject' /\ e[c] = p
                /\ \A d \in Calls \ {c} : e[d] = localObject[d]
  <2>1. localObject'[c] = p /\ \A d \in Calls \ {c} : localObject'[d] = localObject[d]
    BY <1>1, LocalTypes
  <2>2. PICK e : e = localObject'  OBVIOUS
  <2> QED  BY <2>1, <2>2
<1>4. messages'[p] = Append(messages[p], <<c, "user">>) /\ \A q \in Objects \ {p} : messages'[q] = messages[q]
  BY <1>1, LocalTypes
<1>5. ASSUME NEW d \in Calls PROVE ~(localCall[d] = "asks" /\ localObject[d] = p)
  <2>1. PICK own \in [Objects -> Names \cup {None}] : LocalOwner(own)
    BY DEF LocalInv, LocalOwned
  <2>2. p # None  BY LocalTypes
  <2> QED  BY <1>1, <2>1, <2>2 DEF LocalOwner
<1>6. PICK k, b : k = localCall /\ b = localObject  OBVIOUS
<1>7. /\ \A d \in Calls : ~(k[d] = "asks" /\ b[d] = p)
      /\ \A d \in Calls \ {c} : j[d] = k[d] /\ e[d] = b[d]
      /\ k[c] # "asks" /\ j[c] = "asks" /\ e[c] = p
  BY <1>2, <1>3, <1>5, <1>6
<1>8. /\ o = p => Answering(k, b, o) = None /\ Answering(j, e, o) = c
      /\ o # p => Answering(j, e, o) = Answering(k, b, o)
  <2>1. Taken(k, b, j, e, c, p, o)  BY <1>7, TurnTaken
  <2> QED  BY <2>1 DEF Taken
<1>9. \A i \in DOMAIN messages[p] : messages[p][i][1] # c
  <2>1. p # None /\ localObject[c] = None  BY LocalTypes DEF LocalInv, LocalCaptures
  <2> QED  BY <2>1 DEF LocalInv, LocalMessages
<1>10. Says(messages[o], Answering(k, b, o), messages'[o], Answering(j, e, o))
  <2>1. CASE o = p  BY <1>4, <1>8, <1>9, <2>1 DEF Says
  <2>2. CASE o # p  BY <1>4, <1>8, <2>2 DEF Says
  <2> QED  BY <2>1, <2>2
<1> QED  BY <1>2, <1>3, <1>6, <1>10 DEF LocalSays

LEMMA LocalWaits ==
  ASSUME LocalInv, NEW c \in Calls, localCall[c] # "asks", NEW status, status # "asks",
         localCall' = [localCall EXCEPT ![c] = status],
         UNCHANGED <<messages, localObject>>, NEW o \in Objects
  PROVE  LocalSays(o)
<1>1. PICK j : /\ j = localCall' /\ j[c] # "asks"
               /\ \A d \in Calls \ {c} : j[d] = localCall[d]
  <2>1. localCall'[c] # "asks" /\ \A d \in Calls \ {c} : localCall'[d] = localCall[d]
    BY LocalTypes
  <2>2. PICK j : j = localCall'  OBVIOUS
  <2> QED  BY <2>1, <2>2
<1>2. PICK k, b : k = localCall /\ b = localObject  OBVIOUS
<1>3. /\ \A d \in Calls \ {c} : j[d] = k[d]
      /\ j[c] # "asks" /\ k[c] # "asks"
  BY <1>1, <1>2
<1>4. Answering(j, b, o) = Answering(k, b, o)  BY <1>3, TurnKept
<1>5. Says(messages[o], Answering(k, b, o), messages'[o], Answering(j, b, o))  BY <1>4 DEF Says
<1> QED  BY <1>1, <1>2, <1>5 DEF LocalSays

(* The call that asks leaves with an answer, or gives up.                  *)
LEMMA LocalSettles ==
  ASSUME LocalInv, NEW c \in Calls, localCall[c] = "asks",
         NEW status \in {"told", "failed", "cancelled"},
         localCall' = [localCall EXCEPT ![c] = status], localObject' = localObject,
         messages' = [messages EXCEPT ![localObject[c]] =
                        CASE status = "told" -> Append(@, <<c, "assistant">>)
                          [] status = "failed" -> Local!Front(@)
                          [] OTHER -> @],
         NEW o \in Objects
  PROVE  LocalSays(o)
<1>1. PICK p \in Objects : p = localObject[c]  BY LocalAlone
<1>2. PICK j : /\ j = localCall' /\ j[c] # "asks"
               /\ \A d \in Calls \ {c} : j[d] = localCall[d]
  <2>1. localCall'[c] # "asks" /\ \A d \in Calls \ {c} : localCall'[d] = localCall[d]
    BY LocalTypes
  <2>2. PICK j : j = localCall'  OBVIOUS
  <2> QED  BY <2>1, <2>2
<1>3. PICK k, b : k = localCall /\ b = localObject  OBVIOUS
<1>4. PICK h \in Seq(Talks) : h = messages[p]  BY LocalTypes
<1>5. Len(h) > 0 /\ h[Len(h)] = <<c, "user">> /\ h # <<>> /\ c # None
  <2>1. Len(h) > 0 /\ h[Len(h)] = <<c, "user">>
    BY <1>1, <1>4 DEF LocalInv, LocalQuestions
  <2> QED  BY <2>1, LocalTypes
<1>6. /\ messages'[p] = CASE status = "told" -> Append(h, <<c, "assistant">>)
                          [] status = "failed" -> Local!Front(h)
                          [] OTHER -> h
      /\ \A q \in Objects \ {p} : messages'[q] = messages[q]
  BY <1>1, <1>4, LocalTypes
<1>7. /\ \A d \in Calls : k[d] = "asks" /\ b[d] = p => d = c
      /\ k[c] = "asks" /\ b[c] = p
      /\ \A d \in Calls \ {c} : j[d] = k[d]
      /\ j[c] # "asks"
  BY <1>1, <1>2, <1>3, LocalAlone
<1>8. /\ o = p => Answering(k, b, o) = c /\ Answering(j, b, o) = None
      /\ o # p => Answering(j, b, o) = Answering(k, b, o)
  <2>1. Given(k, b, j, c, p, o)  BY <1>7, TurnLeft
  <2> QED  BY <2>1 DEF Given
<1>9. Says(messages[o], Answering(k, b, o), messages'[o], Answering(j, b, o))
  <2>1. CASE o # p  BY <1>6, <1>8, <2>1 DEF Says
  <2>2. CASE o = p
    <3>1. Answering(k, b, o) = c /\ Answering(j, b, o) = None /\ messages[o] = h
      BY <1>4, <1>8, <2>2
    <3>2. CASE status = "told"
      <4>1. messages'[o] = Append(h, <<c, "assistant">>)  BY <1>6, <2>2, <3>2
      <4> QED  BY <1>5, <3>1, <4>1 DEF Says
    <3>3. CASE status = "failed"
      <4>1. messages'[o] = SubSeq(h, 1, Len(h) - 1)  BY <1>5, <1>6, <2>2, <3>3, WithoutLast
      <4> QED  BY <1>5, <3>1, <4>1 DEF Says
    <3>4. CASE status = "cancelled"
      <4>1. messages'[o] = h  BY <1>6, <2>2, <3>4
      <4> QED  BY <1>5, <3>1, <4>1 DEF Says
    <3> QED  BY <3>2, <3>3, <3>4
  <2> QED  BY <2>1, <2>2
<1> QED  BY <1>2, <1>3, <1>9 DEF LocalSays

LEMMA LocalConverses ==
  ASSUME LocalInv, Local!Next \/ UNCHANGED localVars, NEW o \in Objects
  PROVE  LocalSays(o)
<1>1. ASSUME UNCHANGED <<messages, localCall, localObject>> PROVE LocalSays(o)
  BY <1>1 DEF LocalSays, Says
<1>2. ASSUME NEW c \in Calls, NEW s \in Names, Local!Send(c, s) PROVE LocalSays(o)
  <2>1. CASE localQueue[s] = <<>>
    <3>1. /\ localCall[c] \in {"idle", "waits"} /\ localSessions[s] # None
          /\ localCall' = [localCall EXCEPT ![c] = "asks"]
          /\ localObject' = [localObject EXCEPT ![c] = localSessions[s]]
          /\ messages' = [messages EXCEPT ![localSessions[s]] = Append(@, <<c, "user">>)]
      BY <1>2, <2>1 DEF Local!Send, Local!Ask, Local!Open
    <3>2. \A d \in Calls : localCall[d] = "asks" => localAbout[d] # s  BY <2>1, LocalFree
    <3> QED  BY <3>1, <3>2, LocalAsks
  <2>2. CASE localQueue[s] # <<>>
    <3>1. /\ localCall[c] # "asks" /\ localCall' = [localCall EXCEPT ![c] = "waits"]
          /\ UNCHANGED <<messages, localObject>>
      BY <1>2, <2>2 DEF Local!Send
    <3> QED  BY <3>1, LocalWaits
  <2> QED  BY <2>1, <2>2
<1>3. ASSUME NEW c \in Calls, Local!Enters(c) PROVE LocalSays(o)
  <2>1. PICK s \in Names : s = localAbout[c]
    <3>1. AtLock(localQueue, localCall, localAbout, c)  BY DEF LocalInv, LocalLocks, Locks
    <3> QED  BY <1>3, <3>1 DEF AtLock, Local!Enters
  <2>2. localCall[c] = "waits" /\ Head(localQueue[s]) = c  BY <1>3, <2>1 DEF Local!Enters
  <2>3. CASE localSessions[s] = None
    <3>1. /\ localCall' = [localCall EXCEPT ![c] = "failed"]
          /\ UNCHANGED <<messages, localObject>>
      BY <1>3, <2>1, <2>3 DEF Local!Enters, Local!Ask, Local!Open
    <3> QED  BY <2>2, <3>1, LocalWaits
  <2>4. CASE localSessions[s] # None
    <3>1. /\ localCall' = [localCall EXCEPT ![c] = "asks"]
          /\ localObject' = [localObject EXCEPT ![c] = localSessions[s]]
          /\ messages' = [messages EXCEPT ![localSessions[s]] = Append(@, <<c, "user">>)]
      BY <1>3, <2>1, <2>4 DEF Local!Enters, Local!Ask, Local!Open
    <3>2. \A d \in Calls : localCall[d] = "asks" => localAbout[d] # s
      BY <2>1, <2>2, LocalFree
    <3>3. localCall[c] \in {"idle", "waits"}  BY <2>2
    <3> QED  BY <2>4, <3>1, <3>2, <3>3, LocalAsks
  <2> QED  BY <2>3, <2>4
<1>4. ASSUME NEW c \in Calls, Local!Cancel(c) PROVE LocalSays(o)
  <2>1. localCall' = [localCall EXCEPT ![c] = "cancelled"] /\ UNCHANGED <<messages, localObject>>
    BY <1>4 DEF Local!Cancel
  <2>2. CASE localCall[c] # "asks"  BY <2>1, <2>2, LocalWaits
  <2>3. CASE localCall[c] = "asks"
    <3>1. "cancelled" \in {"told", "failed", "cancelled"}  OBVIOUS
    <3>2. messages' = [messages EXCEPT ![localObject[c]] =
                         CASE "cancelled" = "told" -> Append(@, <<c, "assistant">>)
                           [] "cancelled" = "failed" -> Local!Front(@)
                           [] OTHER -> @]
      BY <2>1, LocalTypes
    <3>3. localObject' = localObject  BY <2>1
    <3> QED  BY <2>1, <2>3, <3>1, <3>2, <3>3, LocalSettles
  <2> QED  BY <2>2, <2>3
<1>5. ASSUME NEW c \in Calls, Local!Thread(c) PROVE LocalSays(o)
  <2>1. CASE UNCHANGED <<messages, localCall>>
    BY <1>1, <1>5, <2>1 DEF Local!Thread, Local!TryAgain, Local!Replies, Local!Refuses,
       Local!Unreachable
  <2>2. CASE ~UNCHANGED <<messages, localCall>>
    <3>1. PICK status \in {"told", "failed", "cancelled"} :
            /\ localCall[c] = "asks" /\ localCall' = [localCall EXCEPT ![c] = status]
            /\ messages' = [messages EXCEPT ![localObject[c]] =
                              CASE status = "told" -> Append(@, <<c, "assistant">>)
                                [] status = "failed" -> Local!Front(@)
                                [] OTHER -> @]
      <4>1. CASE Local!Replies(c)
        <5>1. "told" \in {"told", "failed", "cancelled"}  OBVIOUS
        <5> QED  BY <2>2, <4>1, <5>1 DEF Local!Replies, Local!Told
      <4>2. CASE Local!Refuses(c) \/ Local!Unreachable(c)
        <5>1. "failed" \in {"told", "failed", "cancelled"} /\ "failed" # "told"  OBVIOUS
        <5> QED  BY <2>2, <4>2, <5>1 DEF Local!Refuses, Local!Unreachable, Local!TakenBack
      <4>3. CASE Local!TryAgain(c)  BY <2>2, <4>3 DEF Local!TryAgain
      <4> QED  BY <1>5, <4>1, <4>2, <4>3 DEF Local!Thread
    <3>2. localObject' = localObject
      BY <1>5 DEF Local!Thread, Local!TryAgain, Local!Replies, Local!Refuses, Local!Unreachable
    <3> QED  BY <3>1, <3>2, LocalSettles
  <2> QED  BY <2>1, <2>2
<1>6. ASSUME NEW s \in Names, Local!Start(s) \/ Local!SetActive(s) \/ Local!End(s)
      PROVE  UNCHANGED <<messages, localCall, localObject>>
  BY <1>6 DEF Local!Start, Local!SetActive, Local!End
<1>7. CASE Local!Probed \/ Local!CooledOff \/ UNCHANGED localVars
  BY <1>1, <1>7 DEF Local!Probed, Local!CooledOff, localVars
<1> QED  BY <1>1, <1>2, <1>3, <1>4, <1>5, <1>6, <1>7 DEF Local!Next

LEMMA LocalTakesTurns == Spec => Local!LocalTakesTurns
<1>1. Init => Local!Talk!Init
  <2> SUFFICES ASSUME Init PROVE Local!Talk!Init  OBVIOUS
  <2>1. \A o \in Objects : Local!Turn(o) = None  BY DEF Init, Local!Init, Local!Turn
  <2>2. messages = [o \in Objects |-> <<>>]  BY DEF Init, Local!Init
  <2> QED  BY <2>1, <2>2 DEF Local!Talk!Init
<1>2. LocalInv /\ [Next]_vars => [Local!Talk!Next]_Local!Talk!talk
  <2> SUFFICES ASSUME LocalInv, [Next]_vars PROVE Local!Talk!Next  OBVIOUS
  <2>1. Local!Next \/ UNCHANGED localVars
    BY DEF Next, vars, RescueRuns, CodexRuns, LocalRuns, HttpRuns, GpuRuns, PeerRuns, EditsRuns
  <2> QED  BY <2>1, LocalConverses, LocalTalks
<1> QED  BY <1>1, <1>2, LocalAlways, PTL DEF Spec, Local!LocalTakesTurns, Local!Talk!Spec

(* What an answered caller was told is in the file of its codex session    *)
(* while that session is the name's, and a local history is what its       *)
(* callers know, for any names, sessions, calls, crashes and cancellations. *)
THEOREM AnswersStay == Spec => []AnswersAreKept
<1>1. CodexInv /\ LocalInv => AnswersAreKept  BY CodexKeeps, LocalKeeps DEF AnswersAreKept
<1> QED  BY <1>1, CodexAlways, LocalAlways, PTL

(* Codex and local sessions implement the conversation they promise: of    *)
(* each session object the calls take turns, an answer stands directly     *)
(* behind its question, and what a restart brings back is the beginning.   *)
THEOREM TurnsAreTaken == Spec => SessionsTakeTurns
BY CodexTakesTurns, LocalTakesTurns, PTL DEF SessionsTakeTurns

=============================================================================
