------------------------------- MODULE GpuJobs -------------------------------
(* On-demand GPU servers: participants of a bridge that need a local model   *)
(* (rooms.py, _ensure_local_endpoint) kick chitta-gpu (gpu_serve.py) under a *)
(* lock per model and poll; chitta-gpu looks for a server, then for a job    *)
(* that is on its way, and submits one to SLURM only when it sees neither.   *)
(* The kick is cut off after 15 s, wherever chitta-gpu is by then.           *)
EXTENDS Naturals, Sequences, FiniteSets

CONSTANTS Models,       \* model names
          Clashes,      \* pairs <<m, n>>: m's job name is a prefix of n's, m # n
          Participants, \* coroutines of the bridge
          Jobs,         \* SLURM job ids; a job is also its node
          None,
          MaxBlind      \* bound on the squeue calls that fail

VARIABLES job,     \* none, pending, running, up (answers, pulls), ready, gone
          model,   \* the model a job was submitted for
          blind,   \* it was submitted after a squeue that failed
          loaded,  \* models its server has
          url,     \* the node in the url file of a model, or None
          asks,    \* the model a participant wants, or None
          queue,   \* _model_start_locks: holder, then waiters, of a model
          step,    \* of a participant: idle, queued, looks, kicks, polls, told
          start,   \* of its chitta-gpu: off, probes, checks, submits, waits, lingers
          sent,    \* an sbatch left behind by a chitta-gpu that was cut off
          faults

vars == <<job, model, blind, loaded, url, asks, queue, step, start, sent, faults>>

Active == {"pending", "running", "up", "ready"}
Answers == {"up", "ready"}

TypeOK ==
    /\ job \in [Jobs -> Active \cup {"none", "gone"}] /\ model \in [Jobs -> Models \cup {None}]
    /\ blind \in [Jobs -> BOOLEAN] /\ loaded \in [Jobs -> SUBSET Models]
    /\ url \in [Models -> Jobs \cup {None}] /\ asks \in [Participants -> Models \cup {None}]
    /\ queue \in [Models -> Seq(Participants)] /\ faults \in 0..MaxBlind
    /\ step \in [Participants -> {"idle", "queued", "looks", "kicks", "polls", "told"}]
    /\ start \in [Participants -> {"off", "probes", "checks", "blind", "submits", "waits", "lingers"}]
    /\ sent \in [Participants -> BOOLEAN]
    /\ \A p \in Participants : start[p] # "off" => step[p] = "kicks"

Init ==
    /\ job = [j \in Jobs |-> "none"] /\ model = [j \in Jobs |-> None]
    /\ blind = [j \in Jobs |-> FALSE] /\ loaded = [j \in Jobs |-> {}]
    /\ url = [m \in Models |-> None] /\ asks = [p \in Participants |-> None]
    /\ queue = [m \in Models |-> <<>>] /\ step = [p \in Participants |-> "idle"]
    /\ start = [p \in Participants |-> "off"] /\ sent = [p \in Participants |-> FALSE]
    /\ faults = 0

(* _find_jobs goes by the prefix of the name. *)
Found(m) == {j \in Jobs : job[j] \in Active /\ (model[j] = m \/ <<m, model[j]>> \in Clashes)}
Servers == {j \in Jobs : job[j] \in Answers}
Serves(m) == {j \in Servers : m \in loaded[j]}

-----------------------------------------------------------------------------
(* _ensure_local_endpoint *)
Asks(p, m) ==
    /\ step[p] = "idle" /\ step' = [step EXCEPT ![p] = "queued"]
    /\ asks' = [asks EXCEPT ![p] = m] /\ queue' = [queue EXCEPT ![m] = Append(@, p)]
    /\ UNCHANGED <<job, model, blind, loaded, url, start, sent, faults>>

Enters(p) ==
    /\ step[p] = "queued" /\ Head(queue[asks[p]]) = p
    /\ step' = [step EXCEPT ![p] = "looks"]
    /\ UNCHANGED <<job, model, blind, loaded, url, asks, queue, start, sent, faults>>

Returns(p) ==
    /\ step' = [step EXCEPT ![p] = "told"]
    /\ queue' = [queue EXCEPT ![asks[p]] = Tail(@)]

(* Another coroutine may have started it. *)
Looks(p) ==
    /\ step[p] = "looks"
    /\ IF Serves(asks[p]) # {}
       THEN Returns(p) /\ UNCHANGED start
       ELSE /\ step' = [step EXCEPT ![p] = "kicks"] /\ start' = [start EXCEPT ![p] = "probes"]
            /\ UNCHANGED queue
    /\ UNCHANGED <<job, model, blind, loaded, url, asks, sent, faults>>

(* subprocess.run gives up: chitta-gpu is killed, an sbatch it runs is not.  *)
CutOff(p) ==
    /\ step[p] = "kicks" /\ step' = [step EXCEPT ![p] = "polls"]
    /\ start' = [start EXCEPT ![p] = "off"]
    /\ sent' = [sent EXCEPT ![p] = start[p] = "submits"]
    /\ UNCHANGED <<job, model, blind, loaded, url, asks, queue, faults>>

Sees(p) ==
    /\ step[p] = "polls" /\ Serves(asks[p]) # {} /\ Returns(p)
    /\ UNCHANGED <<job, model, blind, loaded, url, asks, start, sent, faults>>
(* 90 s are over; an sbatch is done by then. *)
Bug_Deadline(p) ==
    /\ step[p] = "polls" /\ ~sent[p] /\ step' = [step EXCEPT ![p] = "kicks"]
    /\ start' = [start EXCEPT ![p] = "probes"]
    /\ UNCHANGED <<job, model, blind, loaded, url, asks, queue, sent, faults>>
Deadline(p) ==
    /\ step[p] = "polls" /\ ~sent[p] /\ Returns(p)
    /\ UNCHANGED <<job, model, blind, loaded, url, asks, start, sent, faults>>

-----------------------------------------------------------------------------
(* chitta-gpu start: cmd_start, _start_slurm *)
Quits(p) == start' = [start EXCEPT ![p] = "off"] /\ step' = [step EXCEPT ![p] = "polls"]
Goes(p, from, to) ==
    /\ start[p] = from /\ start' = [start EXCEPT ![p] = to]
    /\ UNCHANGED <<job, model, blind, loaded, url, asks, queue, step, sent>>

(* A url file or a running job leads to a server with the model, or to one   *)
(* the model is pulled on, which may fail; the url file then names it.       *)
Finds(p, j) ==
    /\ start[p] = "probes" /\ j \in Servers
    /\ Serves(asks[p]) # {} => j \in Serves(asks[p])
    /\ \/ loaded' = [loaded EXCEPT ![j] = @ \cup {asks[p]}]
       \/ UNCHANGED loaded
    /\ url' = [url EXCEPT ![asks[p]] = j] /\ Quits(p)
    /\ UNCHANGED <<job, model, blind, asks, queue, sent, faults>>
FindsNone(p) == Servers = {} /\ Goes(p, "probes", "checks") /\ UNCHANGED faults
Overlooks(p) ==
    /\ faults < MaxBlind /\ faults' = faults + 1 /\ Goes(p, "probes", "checks")
    /\ \A m \in Models : url[m] \notin Serves(asks[p])

Blocked(p) ==
    /\ start[p] = "checks" /\ Found(asks[p]) # {} /\ Quits(p)
    /\ UNCHANGED <<job, model, blind, loaded, url, asks, queue, sent, faults>>
Bug_Clear(p) ==
    /\ \A j \in Found(asks[p]) : job[j] = "pending"
    /\ Goes(p, "checks", "submits") /\ UNCHANGED faults
Clear(p) == Found(asks[p]) = {} /\ Goes(p, "checks", "submits") /\ UNCHANGED faults
(* squeue fails or is slow: no job is seen. *)
Misses(p) == faults < MaxBlind /\ Goes(p, "checks", "blind") /\ faults' = faults + 1

Submitted(p, j, unseen) ==
    /\ job[j] = "none" /\ \A k \in Jobs : k < j => job[k] # "none"
    /\ job' = [job EXCEPT ![j] = "pending"] /\ model' = [model EXCEPT ![j] = asks[p]]
    /\ blind' = [blind EXCEPT ![j] = unseen]
    /\ UNCHANGED <<loaded, url, asks, queue, faults>>
Submits(p, j) ==
    /\ start[p] \in {"submits", "blind"} /\ Submitted(p, j, start[p] = "blind")
    /\ start' = [start EXCEPT ![p] = "waits"] /\ UNCHANGED <<step, sent>>
SubmitFails(p) ==
    /\ start[p] \in {"submits", "blind"} /\ Quits(p)
    /\ UNCHANGED <<job, model, blind, loaded, url, asks, queue, sent, faults>>
Lands(p, j) ==
    /\ sent[p] /\ sent' = [sent EXCEPT ![p] = FALSE] /\ Submitted(p, j, FALSE)
    /\ UNCHANGED <<step, start>>
Vanishes(p) ==
    /\ sent[p] /\ sent' = [sent EXCEPT ![p] = FALSE]
    /\ UNCHANGED <<job, model, blind, loaded, url, asks, queue, step, start, faults>>

(* It waits until a job of the name runs, then until the server answers; the *)
(* url file is written also when it never does.                              *)
Runs(p) == /\ \E j \in Found(asks[p]) : job[j] # "pending"
           /\ Goes(p, "waits", "lingers") /\ UNCHANGED faults
Writes(p, j) ==
    /\ start[p] = "lingers" /\ job[j] \in {"running", "up", "ready", "gone"}
    /\ url' = [url EXCEPT ![asks[p]] = j] /\ Quits(p)
    /\ UNCHANGED <<job, model, blind, loaded, asks, queue, sent, faults>>

-----------------------------------------------------------------------------
(* SLURM and the job's script: serve, pull, write the url file. *)
Advances(j) ==
    /\ job[j] \in {"pending", "running", "up"}
    /\ job' = [job EXCEPT ![j] = CASE @ = "pending" -> "running" [] @ = "running" -> "up" [] OTHER -> "ready"]
    /\ \/ job[j] = "up" /\ loaded' = [loaded EXCEPT ![j] = @ \cup {model[j]}]
       \/ UNCHANGED loaded
    /\ url' = IF job[j] = "up" THEN [url EXCEPT ![model[j]] = j] ELSE url
    /\ UNCHANGED <<model, blind, asks, queue, step, start, sent, faults>>
Dies(j) ==
    /\ job[j] \in Active /\ job' = [job EXCEPT ![j] = "gone"]
    /\ loaded' = [loaded EXCEPT ![j] = {}]
    /\ UNCHANGED <<model, blind, url, asks, queue, step, start, sent, faults>>

(* chitta-gpu stop: every job whose name begins like the model's. *)
Stop(m) ==
    /\ Found(m) # {} \/ url[m] # None
    /\ job' = [j \in Jobs |-> IF j \in Found(m) THEN "gone" ELSE job[j]]
    /\ loaded' = [j \in Jobs |-> IF j \in Found(m) THEN {} ELSE loaded[j]]
    /\ url' = [url EXCEPT ![m] = None]
    /\ UNCHANGED <<model, blind, asks, queue, step, start, sent, faults>>

Ensure(p) == Enters(p) \/ Looks(p) \/ CutOff(p) \/ Sees(p) \/ Deadline(p)
ChittaGpu(p) ==
    \/ FindsNone(p) \/ Overlooks(p) \/ Blocked(p) \/ Clear(p) \/ Misses(p) \/ SubmitFails(p) \/ Runs(p) \/ Vanishes(p)
    \/ \E j \in Jobs : Finds(p, j) \/ Submits(p, j) \/ Lands(p, j) \/ Writes(p, j)

Next ==
    \/ \E p \in Participants : Ensure(p) \/ ChittaGpu(p) \/ \E m \in Models : Asks(p, m)
    \/ \E j \in Jobs : Advances(j) \/ Dies(j)
    \/ \E m \in Models : Stop(m)

(* Every wait of a coroutine has a bound, and so has an sbatch.              *)
Fairness == \A p \in Participants : WF_vars(Ensure(p) \/ Vanishes(p))
Spec == Init /\ [][Next]_vars /\ Fairness

-----------------------------------------------------------------------------
(* However many participants need a model that nobody serves, one job is on  *)
(* its way for it at a time: neither concurrent participants nor one that    *)
(* asks after the first kick was cut off submit another, unless squeue could *)
(* not be read.                                                              *)
OneJobPerModel ==
    \A m \in Models :
        Cardinality({j \in Jobs : job[j] \in Active /\ model[j] = m /\ ~blind[j]}) <= 1

(* Nobody waits forever for a GPU: a participant gets its endpoints, or      *)
(* learns that there are none, although others are before it at the lock.    *)
EnsureEnds == \A p \in Participants : []<>(step[p] \in {"idle", "told"})
=============================================================================
