----------------------------- MODULE RescueJobs -----------------------------
(* Background rescue jobs of CodexBridge (backends/codex.py): a job is       *)
(* launched with a record in memory and on disk and a task that runs one     *)
(* codex process; it is cancelled, it ends, or the bridge dies under it and  *)
(* loads the records again.                                                  *)
(* A codex thread is named by the job whose process opened it.               *)
EXTENDS Naturals, FiniteSets, FiniteSetsExt

CONSTANTS Jobs,       \* 1..n, the ids in the order they are drawn
          Dirs,       \* working directories
          None,
          MaxCrashes, \* bound on the deaths of the bridge
          MaxFaults   \* bound on the saves that fail

VARIABLES jobs,      \* self.jobs: the record of a job, or None
          jobFile,   \* the record in jobs_dir, or None
          dir,       \* working_dir, fixed when the job is made
          task,      \* self._job_tasks: none, created, runs, cancelling, done, dead
          child,     \* its process: no, runs, ok, bad (exit code), orphan
          alive,     \* the bridge is running
          moved,     \* threads somebody asked to resume by name
          crashes, faults

vars == <<jobs, jobFile, dir, task, child, alive, moved, crashes, faults>>

Final == {"completed", "failed", "cancelled"}
Record == [status: {"running"} \cup Final, bad: BOOLEAN, resume: Jobs \cup {None},
           thread: Jobs \cup {None}, finished: 0..Cardinality(Jobs)]

TypeOK ==
    /\ jobs \in [Jobs -> Record \cup {None}] /\ jobFile \in [Jobs -> Record \cup {None}]
    /\ dir \in [Jobs -> Dirs \cup {None}]
    /\ task \in [Jobs -> {"none", "created", "runs", "cancelling", "done", "dead"}]
    /\ child \in [Jobs -> {"no", "runs", "ok", "bad", "orphan"}]
    /\ alive \in BOOLEAN /\ moved \subseteq Jobs
    /\ crashes \in 0..MaxCrashes /\ faults \in 0..MaxFaults

Init ==
    /\ jobs = [j \in Jobs |-> None] /\ jobFile = jobs /\ dir = jobs
    /\ task = [j \in Jobs |-> "none"] /\ child = [j \in Jobs |-> "no"]
    /\ alive = TRUE /\ moved = {} /\ crashes = 0 /\ faults = 0

Known == {j \in Jobs : jobs[j] # None}
Busy(j) == task[j] \in {"created", "runs", "cancelling"}

(* A save writes the record or raises; ok says which. *)
Save(j, record, ok) ==
    /\ jobFile' = IF ok THEN [jobFile EXCEPT ![j] = record] ELSE jobFile
    /\ ok \/ faults < MaxFaults
    /\ faults' = IF ok THEN faults ELSE faults + 1

Bug_Recent(d) == {j \in Known : jobs[j].thread # None /\ jobs[j].status = "completed"}
Recent(d) == {j \in Known : /\ jobs[j].thread # None
                            /\ jobs[j].status = "completed" /\ dir[j] = d}
Latest(d) ==
    IF Recent(d) = {} THEN None
    ELSE jobs[CHOOSE j \in Recent(d) :
                 \A k \in Recent(d) : jobs[k].finished <= jobs[j].finished].thread

-----------------------------------------------------------------------------
Launch(d, resume, bad, ok) ==
    LET j == Cardinality({k \in Jobs : dir[k] # None}) + 1
        record == [status |-> "running", bad |-> bad, resume |-> resume,
                   thread |-> None, finished |-> 0]
    IN  /\ alive /\ j \in Jobs
        /\ jobs' = [jobs EXCEPT ![j] = record] /\ dir' = [dir EXCEPT ![j] = d]
        /\ Save(j, record, ok)
        /\ task' = IF ok THEN [task EXCEPT ![j] = "created"] ELSE task
        /\ UNCHANGED <<child, alive, crashes>>

(* rescue: the newest completed thread of the directory unless told otherwise *)
Rescue(d, bad, ok) == Launch(d, Latest(d), bad, ok) /\ UNCHANGED moved
Fresh(d, bad, ok)  == Launch(d, None, bad, ok) /\ UNCHANGED moved
Resume(d, t, ok)   == /\ t \in {jobs[j].thread : j \in Known} \ {None}
                      /\ Launch(d, t, FALSE, ok) /\ moved' = moved \cup {t}

(* The end of the task: the status and the rest of the record in memory,     *)
(* then the save of the finally clause, which may raise.                     *)
Stamp == 1 + Cardinality({k \in Known : jobs[k].finished > 0})
End(j, status, thread, ok) ==
    LET record == [jobs[j] EXCEPT !.status = status, !.thread = thread, !.finished = Stamp]
    IN  /\ jobs' = [jobs EXCEPT ![j] = record]
        /\ Save(j, record, ok) /\ task' = [task EXCEPT ![j] = "done"]

(* Before the try: the start time is saved; when that raises nobody is told. *)
Unsaved(j) ==
    /\ alive /\ task[j] = "created" /\ Save(j, jobs[j], FALSE)
    /\ task' = [task EXCEPT ![j] = "dead"]
    /\ UNCHANGED <<jobs, dir, child, alive, moved, crashes>>

Bug_Refused(j, ok) ==
    /\ alive /\ task[j] = "created" /\ Save(j, jobs[j], ok)
    /\ task' = [task EXCEPT ![j] = "done"] /\ UNCHANGED <<jobs, dir, child, alive, moved, crashes>>
(* The policy refuses the model or effort, or the process cannot be spawned. *)
Refused(j, ok) ==
    /\ alive /\ task[j] = "created" /\ End(j, "failed", None, ok)
    /\ UNCHANGED <<dir, child, alive, moved, crashes>>

Spawn(j) ==
    /\ alive /\ task[j] = "created" /\ ~jobs[j].bad
    /\ Save(j, jobs[j], TRUE)
    /\ task' = [task EXCEPT ![j] = "runs"] /\ child' = [child EXCEPT ![j] = "runs"]
    /\ UNCHANGED <<jobs, dir, alive, moved, crashes>>

Exits(j, code) ==
    /\ child[j] = "runs" /\ child' = [child EXCEPT ![j] = code]
    /\ UNCHANGED <<jobs, jobFile, dir, task, alive, moved, crashes, faults>>

(* A resumed thread keeps its name; an exit may leave no thread behind. *)
Reported(j) == {None, IF jobs[j].resume = None THEN j ELSE jobs[j].resume}
Ends(j, ok) ==
    /\ alive /\ task[j] = "runs" /\ child[j] \in {"ok", "bad"}
    /\ \E t \in Reported(j) :
          End(j, IF child[j] = "ok" THEN "completed" ELSE "failed", t, ok)
    /\ child' = [child EXCEPT ![j] = "no"] /\ UNCHANGED <<dir, alive, moved, crashes>>

(* No line within the stall timeout, or no end within the deadline. *)
TimesOut(j, ok) ==
    /\ alive /\ task[j] = "runs" /\ child[j] = "runs"
    /\ End(j, "failed", None, ok)
    /\ child' = [child EXCEPT ![j] = "no"] /\ UNCHANGED <<dir, alive, moved, crashes>>

Bug_Mark(j, ok) ==
    LET record == [jobs[j] EXCEPT !.status = "cancelled", !.finished = Stamp]
    IN  /\ jobs' = [jobs EXCEPT ![j] = record] /\ Save(j, record, ok) /\ UNCHANGED task
Mark(j, ok) ==
    LET record == [jobs[j] EXCEPT !.status = "cancelled", !.finished = Stamp]
    IN  /\ ~Busy(j) /\ jobs' = [jobs EXCEPT ![j] = record] /\ Save(j, record, ok)
        /\ UNCHANGED task

(* A task that has not taken its first step ends without entering the try. *)
Request(j) ==
    /\ Busy(j)
    /\ task' = [task EXCEPT ![j] = IF @ = "created" THEN "dead" ELSE "cancelling"]
    /\ UNCHANGED <<jobs, jobFile, faults>>

Cancel(j, ok) ==
    /\ alive /\ j \in Known /\ jobs[j].status = "running"
    /\ Request(j) \/ Mark(j, ok)
    /\ UNCHANGED <<dir, child, alive, moved, crashes>>

Kill(j) == child' = [child EXCEPT ![j] = "no"]

Cancelled(j, ok) ==
    /\ alive /\ task[j] = "cancelling" /\ End(j, "cancelled", jobs[j].thread, ok)
    /\ Kill(j) /\ UNCHANGED <<dir, alive, moved, crashes>>

-----------------------------------------------------------------------------
(* The bridge dies; the processes are in sessions of their own and go on. *)
Crash ==
    /\ alive /\ crashes < MaxCrashes
    /\ alive' = FALSE /\ crashes' = crashes + 1
    /\ jobs' = [j \in Jobs |-> None] /\ task' = [j \in Jobs |-> "none"]
    /\ child' = [j \in Jobs |-> IF child[j] \in {"runs", "orphan"} THEN "orphan" ELSE "no"]
    /\ UNCHANGED <<jobFile, dir, moved, faults>>

Bug_Loaded(record, stamp) == record
Loaded(record, stamp) ==
    IF record # None /\ record.status = "running"
    THEN [record EXCEPT !.status = "failed", !.finished = stamp] ELSE record

(* _load_jobs: a record that cannot be saved again is left out. *)
Load(skipped) ==
    LET stamp == Cardinality({j \in Jobs : jobFile[j] # None})
    IN  /\ ~alive /\ alive' = TRUE
        /\ skipped \subseteq {j \in Jobs : jobFile[j] # None /\ jobFile[j].status = "running"}
        /\ faults + Cardinality(skipped) <= MaxFaults
        /\ faults' = faults + Cardinality(skipped)
        /\ jobs' = [j \in Jobs |-> IF j \in skipped THEN None ELSE Loaded(jobFile[j], stamp)]
        /\ jobFile' = [j \in Jobs |-> IF j \in skipped THEN jobFile[j]
                                      ELSE Loaded(jobFile[j], stamp)]
        /\ UNCHANGED <<dir, task, child, moved, crashes>>

Body(j) ==
    \/ Unsaved(j) \/ Spawn(j)
    \/ \E ok \in BOOLEAN : Refused(j, ok) \/ Ends(j, ok) \/ TimesOut(j, ok) \/ Cancelled(j, ok)

Next ==
    \/ \E d \in Dirs, ok \in BOOLEAN :
          \/ \E bad \in BOOLEAN : Rescue(d, bad, ok) \/ Fresh(d, bad, ok)
          \/ \E t \in Jobs : Resume(d, t, ok)
    \/ \E j \in Jobs : Body(j) \/ \E code \in {"ok", "bad"} : Exits(j, code)
    \/ \E j \in Jobs, ok \in BOOLEAN : Cancel(j, ok)
    \/ Crash
    \/ \E skipped \in SUBSET Jobs : Load(skipped)

Fairness == \A j \in Jobs : WF_vars(Body(j))
Spec == Init /\ [][Next]_vars /\ Fairness

-----------------------------------------------------------------------------
(* A thread is taken up in another directory only when somebody named it:    *)
(* automatic resumption stays in the directory of the thread's first job.    *)
ThreadsStayHome ==
    \A j \in Known : jobs[j].resume \notin moved \cup {None} => dir[jobs[j].resume] = dir[j]

(* Whoever reads "running" can count on it: a task is behind the record,     *)
(* unless the task was cancelled or failed before it entered its try, or the *)
(* record could not be saved when the job was launched; and a record that    *)
(* says the job is over has no process of this bridge behind it.             *)
StatusIsTrue ==
    \A j \in Known :
        IF jobs[j].status = "running"
        THEN Busy(j) \/ task[j] = "dead" \/ jobFile[j] = None
        ELSE ~Busy(j) /\ child[j] \in {"no", "orphan"}

(* What the record of a job says of its task and of its thread is true.      *)
RecordsAreTrue == StatusIsTrue /\ ThreadsStayHome

(* What a caller was told is not taken back: a final status stays, until the *)
(* bridge dies, whatever is cancelled, ends or fails to be saved meanwhile.  *)
FinalStays ==
    [][\A j \in Known : jobs[j].status \in Final /\ alive' =>
          jobs'[j].status = jobs[j].status /\ jobs'[j].thread = jobs[j].thread]_vars

(* A job whose task took its first step ends: by its process, by a timeout,  *)
(* by a refusal or by being cancelled (or the bridge dies).                  *)
JobsEnd ==
    \A j \in Jobs :
        []<>(alive /\ (Busy(j) \/ task[j] = "done") => j \in Known /\ jobs[j].status \in Final)
=============================================================================
