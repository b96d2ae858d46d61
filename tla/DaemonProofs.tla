---------------------------- MODULE DaemonProofs ----------------------------
(* Proofs about the parts of MCServices that live beside the sessions, the *)
(* HTTP daemon, the GPU jobs, the peers' inbox and the edits of files, and *)
(* with SessionsProofs about all of them.                                  *)
EXTENDS SessionsProofs

(* A step of the services is a step of the component or leaves it alone.   *)
LEMMA ComponentSteps ==
  [Next]_vars => /\ [Http!Next]_httpVars /\ [Gpu!Next]_gpuVars
                 /\ [Peer!Next]_peersVars /\ [Edits!Next]_editsVars
BY DEF Next, vars, httpVars, gpuVars, peersVars, editsVars, RescueRuns, CodexRuns, LocalRuns, HttpRuns,
       GpuRuns, PeerRuns, EditsRuns

(* The instances count as the services do.                                 *)
LEMMA SameCardinality ==
  \A S : Gpu!Cardinality(S) = Cardinality(S) /\ Peer!Cardinality(S) = Cardinality(S)
BY Zenon DEF Gpu!Cardinality, Peer!Cardinality, Cardinality

(* A set without two different elements has one at most.                   *)
LEMMA AtMostOne ==
  ASSUME NEW S, \A x, y \in S : x = y
  PROVE  IsFiniteSet(S) /\ Cardinality(S) <= 1
<1>1. CASE S = {}  BY <1>1, FS_EmptySet
<1>2. CASE S # {}
  <2>1. PICK x : S = {x}  BY <1>2
  <2>2. IsFiniteSet(S) /\ Cardinality(S) = 1  BY <2>1, FS_Singleton
  <2> QED  BY <2>2
<1> QED  BY <1>1, <1>2

-----------------------------------------------------------------------------
(* The HTTP daemon.                                                        *)

LEMMA HttpTypeInit == Http!Init => Http!TypeOK
<1> SUFFICES ASSUME Http!Init PROVE Http!TypeOK  OBVIOUS
<1>1. \A p \in Daemons : ~signalled[p]  BY DEF Http!Init
<1> QED  BY <1>1 DEF Http!Init, Http!TypeOK, Http!Running

LEMMA HttpTypeStep == Http!TypeOK /\ [Http!Next]_httpVars => Http!TypeOK'
<1> SUFFICES ASSUME Http!TypeOK, [Http!Next]_httpVars PROVE Http!TypeOK'  OBVIOUS
<1> USE DEF Http!TypeOK, Http!Running, Http!Starting, Http!Goes, Http!Live, Http!Free
<1>1. ASSUME NEW p \in Daemons, Http!Launch(p) PROVE Http!TypeOK'
  BY <1>1 DEF Http!Launch
<1>2. ASSUME NEW p \in Daemons, Http!Start(p) PROVE Http!TypeOK'
  <2>1. CASE Http!PortsFree(p)  BY <2>1 DEF Http!PortsFree
  <2>2. CASE Http!BindDashboard(p)  BY <2>2 DEF Http!BindDashboard
  <2>3. CASE Http!Serve(p)  BY <2>3 DEF Http!Serve
  <2>4. CASE Http!StartFails(p)  BY <2>4 DEF Http!StartFails, Http!Shut
  <2>5. ASSUME NEW registered \in BOOLEAN, Http!StartServices(p, registered) PROVE Http!TypeOK'
    BY <2>5 DEF Http!StartServices
  <2> QED  BY <1>2, <2>1, <2>2, <2>3, <2>4, <2>5 DEF Http!Start
<1>3. ASSUME NEW p \in Daemons, Http!Asked(p) PROVE Http!TypeOK'
  BY <1>3 DEF Http!Asked, Http!Shut, Http!Armed
<1>4. ASSUME NEW p \in Daemons, Http!FirstSignal(p) PROVE Http!TypeOK'
  BY <1>4 DEF Http!FirstSignal, Http!Shut, Http!Armed
<1>5. ASSUME NEW p \in Daemons, Http!ForceExit(p) PROVE Http!TypeOK'
  BY <1>5 DEF Http!ForceExit
<1>6. ASSUME NEW p \in Daemons, Http!ServeEnds(p) PROVE Http!TypeOK'
  BY <1>6 DEF Http!ServeEnds, Http!Shut
<1>7. ASSUME NEW p \in Daemons, Http!StopsEnd(p) PROVE Http!TypeOK'
  <2>1. \/ phase' = [phase EXCEPT ![p] = "unlinks"] /\ portFile = p
        \/ phase' = [phase EXCEPT ![p] = "reads"] /\ portFile # p
    BY <1>7 DEF Http!StopsEnd
  <2> QED  BY <1>7, <2>1 DEF Http!StopsEnd
<1>10. ASSUME NEW p \in Daemons, Http!Unlink(p) PROVE Http!TypeOK'
  BY <1>10 DEF Http!Unlink
<1>8. ASSUME NEW p \in Daemons, Http!Streams(p) \/ Http!Events(p) \/ Http!Over(p)
      PROVE  Http!TypeOK'
  BY <1>8 DEF Http!Streams, Http!Events, Http!Starts, Http!Over
<1>11. ASSUME NEW p \in Daemons, NEW to \in {"mcp", "dashboard"}, Http!Admit(p, to)
       PROVE  Http!TypeOK'
  BY <1>11 DEF Http!Admit
<1>9. CASE UNCHANGED httpVars  BY <1>9 DEF httpVars
<1> QED
  BY <1>1, <1>2, <1>3, <1>4, <1>5, <1>6, <1>7, <1>8, <1>9, <1>10, <1>11
  DEF Http!Next, Http!Stop, Http!SecondSignal, Http!TimerFires

(* That a registry entry or a stream is in order depends on how far its    *)
(* daemon has come: a record exists only between the start and the stop of *)
(* the services, the discovery file names a daemon that serves, finishes   *)
(* or is about to remove it, a daemon that serves and has not been told to *)
(* go holds the MCP port, and only the dashboard has streams it never told.*)
HttpPhases ==
  /\ \A p \in httpListed : phase[p] \in {"binds", "serves", "finishes"}
  /\ \A p \in Daemons : portFile = p => phase[p] \in {"serves", "finishes", "unlinks"}
  /\ \A p \in Daemons : phase[p] = "serves" /\ ~shutting[p] => mcp = p
  /\ \A p \in Daemons : request[p] = "untold" => port[p] = "dashboard"

HttpInv == Http!TypeOK /\ HttpPhases /\ Http!Discoverable /\ Http!StreamsAreTold

LEMMA HttpInit == Http!Init => HttpInv
<1> SUFFICES ASSUME Http!Init PROVE HttpInv  OBVIOUS
<1>1. Http!TypeOK  BY HttpTypeInit
<1> QED
  BY <1>1, NamesAreNotNone
  DEF HttpInv, HttpPhases, Http!Init, Http!Discoverable, Http!StreamsAreTold, Http!Starting

LEMMA HttpStep == HttpInv /\ [Http!Next]_httpVars => HttpInv'
<1> SUFFICES ASSUME HttpInv, [Http!Next]_httpVars PROVE HttpInv'  OBVIOUS
<1>t. Http!TypeOK'  BY HttpTypeStep DEF HttpInv
<1> USE <1>t, NamesAreNotNone
    DEF HttpInv, HttpPhases, Http!TypeOK, Http!Discoverable, Http!StreamsAreTold,
        Http!Running, Http!Starting, Http!Goes, Http!Live, Http!Free
<1>1. ASSUME NEW p \in Daemons, Http!Launch(p) PROVE HttpInv'
  BY <1>1 DEF Http!Launch
<1>2. ASSUME NEW p \in Daemons, Http!Start(p) PROVE HttpInv'
  <2>1. CASE Http!PortsFree(p)  BY <2>1 DEF Http!PortsFree
  <2>2. CASE Http!BindDashboard(p)  BY <2>2 DEF Http!BindDashboard
  <2>3. CASE Http!Serve(p)  BY <2>3 DEF Http!Serve
  <2>4. CASE Http!StartFails(p)  BY <2>4 DEF Http!StartFails, Http!Shut
  <2>5. ASSUME NEW registered \in BOOLEAN, Http!StartServices(p, registered) PROVE HttpInv'
    BY <2>5 DEF Http!StartServices
  <2> QED  BY <1>2, <2>1, <2>2, <2>3, <2>4, <2>5 DEF Http!Start
<1>3. ASSUME NEW p \in Daemons, Http!Asked(p) PROVE HttpInv'
  BY <1>3 DEF Http!Asked, Http!Shut, Http!Armed
<1>4. ASSUME NEW p \in Daemons, Http!FirstSignal(p) PROVE HttpInv'
  BY <1>4 DEF Http!FirstSignal, Http!Shut, Http!Armed
<1>5. ASSUME NEW p \in Daemons, Http!ForceExit(p) PROVE HttpInv'
  BY <1>5 DEF Http!ForceExit
<1>6. ASSUME NEW p \in Daemons, Http!ServeEnds(p) PROVE HttpInv'
  BY <1>6 DEF Http!ServeEnds, Http!Shut
<1>7. ASSUME NEW p \in Daemons, Http!StopsEnd(p) PROVE HttpInv'
  <2>1. \/ phase' = [phase EXCEPT ![p] = "unlinks"] /\ portFile = p
        \/ phase' = [phase EXCEPT ![p] = "reads"] /\ portFile # p
    BY <1>7 DEF Http!StopsEnd
  <2>2. httpListed' = httpListed \ {p} /\ phase[p] = "finishes"
        /\ UNCHANGED <<shutting, mcp, portFile, request, port, httpRaced>>
    BY <1>7 DEF Http!StopsEnd
  <2>3. HttpPhases'  BY <2>1, <2>2
  <2>4. Http!Discoverable' /\ Http!StreamsAreTold'  BY <2>1, <2>2
  <2> QED  BY <2>3, <2>4 DEF HttpInv
<1>10. ASSUME NEW p \in Daemons, Http!Unlink(p) PROVE HttpInv'
  <2>1. phase[p] = "unlinks" => httpRaced' \/ portFile \in {p, None}
    BY <1>10 DEF Http!Unlink
  <2>2. /\ phase[p] \in {"reads", "unlinks"} /\ phase' = [phase EXCEPT ![p] = "exited"]
        /\ portFile' = IF phase[p] = "unlinks" THEN None ELSE portFile
        /\ httpRaced => httpRaced'
        /\ request' = [request EXCEPT ![p] = "over"]
        /\ UNCHANGED <<shutting, mcp, httpListed, port>>
    BY <1>10 DEF Http!Unlink
  <2>3. HttpPhases'  BY <2>2
  <2>4. Http!Discoverable' /\ Http!StreamsAreTold'  BY <2>1, <2>2
  <2> QED  BY <2>3, <2>4 DEF HttpInv
<1>8. ASSUME NEW p \in Daemons, Http!Streams(p) \/ Http!Events(p) \/ Http!Over(p)
      PROVE  HttpInv'
  BY <1>8 DEF Http!Streams, Http!Events, Http!Starts, Http!Over
<1>11. ASSUME NEW p \in Daemons, NEW to \in {"mcp", "dashboard"}, Http!Admit(p, to)
       PROVE  HttpInv'
  BY <1>11 DEF Http!Admit
<1>9. CASE UNCHANGED httpVars  BY <1>9 DEF httpVars
<1> QED
  BY <1>1, <1>2, <1>3, <1>4, <1>5, <1>6, <1>7, <1>8, <1>9, <1>10, <1>11
  DEF Http!Next, Http!Stop, Http!SecondSignal, Http!TimerFires

LEMMA HttpAlways == Spec => []HttpInv
<1>1. Init => HttpInv  BY HttpInit DEF Init
<1>2. HttpInv /\ [Next]_vars => HttpInv'  BY ComponentSteps, HttpStep
<1> QED  BY <1>1, <1>2, PTL DEF Spec

(* A daemon that goes leaves no stale entry and takes nothing from its     *)
(* successor, however it goes and however many daemons there are.          *)
THEOREM DaemonsLeaveCleanly == Spec => []LeavesCleanly
<1>1. HttpInv => LeavesCleanly
  BY DEF HttpInv, HttpPhases, LeavesCleanly, Http!LeavesCleanly, Http!NoStaleEntry
<1> QED  BY <1>1, HttpAlways, PTL

-----------------------------------------------------------------------------
(* The GPU jobs.                                                           *)

GpuTypes ==
  /\ Gpu!TypeOK
  /\ \A p \in Participants : step[p] # "idle" => asks[p] \in Models
  /\ \A p \in Participants : sent[p] => step[p] # "idle"
  /\ \A j \in Jobs : job[j] # "none" => model[j] \in Models

(* The lock of a model: who looks, kicks or polls is the head of its queue,*)
(* who waits is in it.                                                     *)
GpuLocks ==
  \A p \in Participants :
    /\ step[p] \in {"looks", "kicks", "polls"} =>
         gpuQueue[asks[p]] # <<>> /\ Head(gpuQueue[asks[p]]) = p
    /\ step[p] = "queued" => \E i \in 1 .. Len(gpuQueue[asks[p]]) : gpuQueue[asks[p]][i] = p

(* Between a look at the jobs and an sbatch nothing changes for the model: *)
(* only its own job can have loaded it, once squeue has shown no job there *)
(* is none, and an sbatch that was left behind is of one who still polls.  *)
Asking(p) == start[p] \in {"probes", "checks", "submits"} \/ sent[p]
Cleared(p) == start[p] = "submits" \/ sent[p]
GpuLooks ==
  /\ \A j \in Jobs : loaded[j] # {} => job[j] \in Gpu!Answers
  /\ \A p \in Participants : sent[p] => step[p] = "polls"
  /\ \A p \in Participants, j \in Jobs :
       Asking(p) /\ asks[p] \in loaded[j] => model[j] = asks[p]
  /\ \A p \in Participants, j \in Jobs :
       Cleared(p) /\ job[j] \in Gpu!Active => model[j] # asks[p]

GpuOnce ==
  \A j, k \in Jobs :
    /\ job[j] \in Gpu!Active /\ ~blind[j] /\ job[k] \in Gpu!Active /\ ~blind[k]
    /\ model[j] = model[k]
    => j = k

GpuInv == GpuTypes /\ GpuLocks /\ GpuLooks /\ GpuOnce

LEMMA GpuInit == Gpu!Init => GpuInv
BY BoundsAreNatural
DEF Gpu!Init, GpuInv, GpuTypes, Gpu!TypeOK, GpuLocks, GpuLooks, GpuOnce, Asking, Cleared,
    Gpu!Active, Gpu!Answers

(* Leaving the lock leaves the others where they are in the queue.          *)
LEMMA GpuReturns ==
  ASSUME GpuTypes, GpuLocks, NEW p \in Participants, step[p] \in {"looks", "polls"},
         Gpu!Returns(p), UNCHANGED asks
  PROVE  GpuLocks' /\ gpuQueue' \in [Models -> Seq(Participants)]
<1> DEFINE q == gpuQueue[asks[p]]
<1>1. /\ asks[p] \in Models /\ q \in Seq(Participants) /\ q # <<>> /\ Head(q) = p
      /\ gpuQueue' = [gpuQueue EXCEPT ![asks[p]] = Tail(q)]
      /\ step' = [step EXCEPT ![p] = "told"]
  BY DEF GpuTypes, Gpu!TypeOK, GpuLocks, Gpu!Returns
<1>2. /\ Tail(q) \in Seq(Participants) /\ Len(Tail(q)) = Len(q) - 1 /\ Len(q) \in Nat
      /\ \A i \in 2 .. Len(q) : Tail(q)[i - 1] = q[i]
      /\ Head(q) = q[1]
  BY <1>1
<1>3. ASSUME NEW r \in Participants, step'[r] \in {"looks", "kicks", "polls"}
      PROVE  gpuQueue'[asks[r]] # <<>> /\ Head(gpuQueue'[asks[r]]) = r
  <2>1. r # p /\ step[r] = step'[r]  BY <1>1, <1>3 DEF GpuTypes, Gpu!TypeOK
  <2>2. asks[r] # asks[p]  BY <1>1, <1>3, <2>1 DEF GpuLocks
  <2> QED  BY <1>1, <1>3, <2>1, <2>2 DEF GpuLocks, GpuTypes, Gpu!TypeOK
<1>4. ASSUME NEW r \in Participants, step'[r] = "queued"
      PROVE  \E i \in 1 .. Len(gpuQueue'[asks[r]]) : gpuQueue'[asks[r]][i] = r
  <2>1. r # p /\ step[r] = "queued"  BY <1>1, <1>4 DEF GpuTypes, Gpu!TypeOK
  <2>2. PICK i \in 1 .. Len(gpuQueue[asks[r]]) : gpuQueue[asks[r]][i] = r
    BY <2>1 DEF GpuLocks
  <2>3. CASE asks[r] = asks[p]
    <3>1. i # 1 /\ i \in 2 .. Len(q)  BY <1>1, <1>2, <2>1, <2>2, <2>3
    <3>2. gpuQueue'[asks[r]] = Tail(q)  BY <1>1, <2>3 DEF GpuTypes, Gpu!TypeOK
    <3>3. i - 1 \in 1 .. Len(Tail(q)) /\ Tail(q)[i - 1] = r
      BY <1>2, <2>2, <2>3, <3>1
    <3> QED  BY <3>2, <3>3
  <2>4. CASE asks[r] # asks[p]
    <3>1. gpuQueue'[asks[r]] = gpuQueue[asks[r]]
      BY <1>1, <2>1, <2>4 DEF GpuLocks, GpuTypes, Gpu!TypeOK
    <3> QED  BY <2>2, <3>1
  <2> QED  BY <2>3, <2>4
<1>5. gpuQueue' \in [Models -> Seq(Participants)]  BY <1>1, <1>2 DEF GpuTypes, Gpu!TypeOK
<1> HIDE DEF q
<1> QED  BY <1>3, <1>4, <1>5 DEF GpuLocks

LEMMA GpuTypeStep == GpuTypes /\ GpuLocks /\ [Gpu!Next]_gpuVars => GpuTypes'
<1> SUFFICES ASSUME GpuTypes, GpuLocks, [Gpu!Next]_gpuVars PROVE GpuTypes'  OBVIOUS
<1> USE DEF GpuTypes, Gpu!TypeOK, Gpu!Active, Gpu!Answers
<1>1. ASSUME NEW p \in Participants, Gpu!Ensure(p) PROVE GpuTypes'
  <2>1. CASE Gpu!Enters(p)  BY <2>1 DEF Gpu!Enters
  <2>2. CASE Gpu!Looks(p) \/ Gpu!Sees(p) \/ Gpu!Deadline(p)
    <3>1. CASE Gpu!Returns(p) /\ UNCHANGED <<start, asks, job, model, blind, loaded, url, sent, gpuFaults>>
                /\ start[p] = "off"
      <4>1. gpuQueue' \in [Models -> Seq(Participants)]
        BY <2>2, <3>1, GpuReturns DEF Gpu!Looks, Gpu!Sees, Gpu!Deadline
      <4>2. step' = [step EXCEPT ![p] = "told"] /\ step[p] \in {"looks", "polls"}
        BY <2>2, <3>1 DEF Gpu!Returns, Gpu!Looks, Gpu!Sees, Gpu!Deadline
      <4>3. step \in [Participants -> {"idle", "queued", "looks", "kicks", "polls", "told"}]
        OBVIOUS
      <4>4. /\ step' \in [Participants -> {"idle", "queued", "looks", "kicks", "polls", "told"}]
            /\ \A q \in Participants \ {p} : step'[q] = step[q]
            /\ step[p] # "idle"
        <5> HIDE DEF GpuTypes, Gpu!TypeOK
        <5> QED  BY <4>2, <4>3
      <4> QED  BY <3>1, <4>1, <4>2, <4>4
    <3>2. CASE Gpu!Looks(p) /\ UNCHANGED gpuQueue /\ step' = [step EXCEPT ![p] = "kicks"]
                /\ start' = [start EXCEPT ![p] = "probes"]
      BY <3>2 DEF Gpu!Looks
    <3> QED  BY <2>2, <3>1, <3>2 DEF Gpu!Looks, Gpu!Sees, Gpu!Deadline
  <2>3. CASE Gpu!CutOff(p)  BY <2>3 DEF Gpu!CutOff
  <2> QED  BY <1>1, <2>1, <2>2, <2>3 DEF Gpu!Ensure
<1>2. ASSUME NEW p \in Participants, Gpu!ChittaGpu(p) PROVE GpuTypes'
  <2>1. CASE Gpu!FindsNone(p) \/ Gpu!Clear(p) \/ Gpu!Runs(p)
    BY <2>1 DEF Gpu!FindsNone, Gpu!Clear, Gpu!Runs, Gpu!Goes
  <2>2. CASE Gpu!Overlooks(p) \/ Gpu!Misses(p)
    <3>1. gpuFaults' \in 0 .. MaxBlind
      BY <2>2, BoundsAreNatural DEF Gpu!Overlooks, Gpu!Misses
    <3>2. \/ Gpu!Goes(p, "probes", "checks")
          \/ Gpu!Goes(p, "checks", "blind")
      BY <2>2 DEF Gpu!Overlooks, Gpu!Misses
    <3> QED  BY <3>1, <3>2 DEF Gpu!Goes
  <2>3. CASE Gpu!Blocked(p) \/ Gpu!SubmitFails(p)
    <3>1. Gpu!Quits(p) /\ UNCHANGED <<job, model, blind, loaded, url, asks, gpuQueue, sent, gpuFaults>>
      BY <2>3 DEF Gpu!Blocked, Gpu!SubmitFails
    <3>2. start[p] # "off"  BY <2>3 DEF Gpu!Blocked, Gpu!SubmitFails
    <3>3. asks[p] \in Models  BY <3>2
    <3>4. /\ start' \in [Participants -> {"off", "probes", "checks", "blind", "submits", "waits", "lingers"}]
          /\ step' \in [Participants -> {"idle", "queued", "looks", "kicks", "polls", "told"}]
          /\ start'[p] = "off" /\ step'[p] = "polls"
          /\ \A q \in Participants \ {p} : start'[q] = start[q] /\ step'[q] = step[q]
      BY <3>1 DEF Gpu!Quits
    <3> QED  BY <3>1, <3>3, <3>4
  <2>4. CASE Gpu!Vanishes(p)  BY <2>4 DEF Gpu!Vanishes
  <2>5. ASSUME NEW j \in Jobs, Gpu!Finds(p, j) PROVE GpuTypes'
    <3>1. asks[p] \in Models  BY <2>5 DEF Gpu!Finds
    <3>2. loaded' \in [Jobs -> SUBSET Models]
      <4>1. \/ loaded' = [loaded EXCEPT ![j] = @ \cup {asks[p]}]
            \/ loaded' = loaded
        BY <2>5 DEF Gpu!Finds
      <4>2. loaded \in [Jobs -> SUBSET Models]  OBVIOUS
      <4> HIDE DEF GpuTypes
      <4> QED  BY <3>1, <4>1, <4>2
    <3> QED  BY <2>5, <3>1, <3>2 DEF Gpu!Finds, Gpu!Quits
  <2>6. ASSUME NEW j \in Jobs, Gpu!Writes(p, j) PROVE GpuTypes'
    <3>1. asks[p] \in Models  BY <2>6 DEF Gpu!Writes
    <3> QED  BY <2>6, <3>1 DEF Gpu!Writes, Gpu!Quits
  <2>7. ASSUME NEW j \in Jobs, Gpu!Submits(p, j) PROVE GpuTypes'
    <3>1. asks[p] \in Models  BY <2>7 DEF Gpu!Submits
    <3> QED  BY <2>7, <3>1 DEF Gpu!Submits, Gpu!Submitted
  <2>8. ASSUME NEW j \in Jobs, Gpu!Lands(p, j) PROVE GpuTypes'
    <3>1. asks[p] \in Models  BY <2>8 DEF Gpu!Lands
    <3> QED  BY <2>8, <3>1 DEF Gpu!Lands, Gpu!Submitted
  <2> QED  BY <1>2, <2>1, <2>2, <2>3, <2>4, <2>5, <2>6, <2>7, <2>8 DEF Gpu!ChittaGpu

<1>3. ASSUME NEW p \in Participants, NEW m \in Models, Gpu!Asks(p, m) PROVE GpuTypes'
  BY <1>3 DEF Gpu!Asks
<1>4. ASSUME NEW j \in Jobs, Gpu!Advances(j) PROVE GpuTypes'
  <2>1. model[j] \in Models  BY <1>4 DEF Gpu!Advances
  <2>2. /\ job' \in [Jobs -> Gpu!Active \cup {"none", "gone"}]
        /\ \A k \in Jobs : job'[k] # "none" => job[k] # "none"
    BY <1>4 DEF Gpu!Advances
  <2>3. loaded' \in [Jobs -> SUBSET Models]
    <3>1. \/ loaded' = [loaded EXCEPT ![j] = @ \cup {model[j]}]
          \/ loaded' = loaded
      BY <1>4 DEF Gpu!Advances
    <3>2. loaded \in [Jobs -> SUBSET Models]  OBVIOUS
    <3> HIDE DEF GpuTypes
    <3> QED  BY <2>1, <3>1, <3>2
  <2>4. url' \in [Models -> Jobs \cup {None}]  BY <1>4, <2>1 DEF Gpu!Advances
  <2> QED  BY <1>4, <2>2, <2>3, <2>4 DEF Gpu!Advances
<1>5. ASSUME NEW j \in Jobs, Gpu!Dies(j) PROVE GpuTypes'  BY <1>5 DEF Gpu!Dies
<1>6. ASSUME NEW m \in Models, Gpu!Stop(m) PROVE GpuTypes'
  BY <1>6 DEF Gpu!Stop, Gpu!Found
<1>7. CASE UNCHANGED gpuVars  BY <1>7 DEF gpuVars
<1> QED  BY <1>1, <1>2, <1>3, <1>4, <1>5, <1>6, <1>7 DEF Gpu!Next

(* What a queue keeps when somebody joins it.                               *)
LEMMA AppendFacts ==
  ASSUME NEW S, NEW q \in Seq(S), NEW e \in S
  PROVE  /\ Append(q, e) # <<>> /\ Len(Append(q, e)) = Len(q) + 1 /\ Len(q) \in Nat
         /\ q # <<>> => Head(Append(q, e)) = Head(q)
         /\ \A i \in 1 .. Len(q) : Append(q, e)[i] = q[i]
         /\ Append(q, e)[Len(q) + 1] = e
<1>1. /\ Append(q, e) \in Seq(S) /\ Len(Append(q, e)) = Len(q) + 1 /\ Len(q) \in Nat
      /\ \A i \in 1 .. Len(q) : Append(q, e)[i] = q[i]
      /\ Append(q, e)[Len(q) + 1] = e
  OBVIOUS
<1>2. Append(q, e) # <<>>  BY <1>1
<1>3. ASSUME q # <<>> PROVE Head(Append(q, e)) = Head(q)
  <2>1. 1 \in 1 .. Len(q) /\ Head(q) = q[1]  BY <1>3, <1>1
  <2>2. Head(Append(q, e)) = Append(q, e)[1]  BY <1>1, <1>2
  <2> QED  BY <1>1, <2>1, <2>2
<1> QED  BY <1>1, <1>2, <1>3

LEMMA GpuLocksStep == GpuTypes /\ GpuLocks /\ [Gpu!Next]_gpuVars => GpuLocks'
<1> SUFFICES ASSUME GpuTypes, GpuLocks, [Gpu!Next]_gpuVars PROVE GpuLocks'  OBVIOUS
<1>1. ASSUME NEW p \in Participants, Gpu!Ensure(p) PROVE GpuLocks'
  <2>1. CASE Gpu!Enters(p)
    <3>1. gpuQueue[asks[p]] # <<>>  BY <2>1 DEF Gpu!Enters, GpuLocks, GpuTypes, Gpu!TypeOK
    <3> QED  BY <2>1, <3>1 DEF Gpu!Enters, GpuLocks, GpuTypes, Gpu!TypeOK
  <2>2. CASE Gpu!Looks(p) \/ Gpu!Sees(p) \/ Gpu!Deadline(p)
    <3>1. CASE Gpu!Returns(p)
      BY <2>2, <3>1, GpuReturns DEF Gpu!Looks, Gpu!Sees, Gpu!Deadline
    <3>2. CASE Gpu!Looks(p) /\ UNCHANGED gpuQueue /\ step' = [step EXCEPT ![p] = "kicks"]
      BY <3>2 DEF Gpu!Looks, GpuLocks, GpuTypes, Gpu!TypeOK
    <3> QED  BY <2>2, <3>1, <3>2 DEF Gpu!Looks, Gpu!Sees, Gpu!Deadline
  <2>3. CASE Gpu!CutOff(p)  BY <2>3 DEF Gpu!CutOff, GpuLocks, GpuTypes, Gpu!TypeOK
  <2> QED  BY <1>1, <2>1, <2>2, <2>3 DEF Gpu!Ensure
<1>2. ASSUME NEW p \in Participants, Gpu!ChittaGpu(p) PROVE GpuLocks'
  <2>1. /\ UNCHANGED <<gpuQueue, asks>>
        /\ \/ UNCHANGED step
           \/ step' = [step EXCEPT ![p] = "polls"] /\ step[p] = "kicks"
    BY <1>2 DEF Gpu!ChittaGpu, Gpu!FindsNone, Gpu!Clear, Gpu!Runs, Gpu!Goes, Gpu!Overlooks,
                Gpu!Misses, Gpu!Blocked, Gpu!SubmitFails, Gpu!Quits, Gpu!Vanishes, Gpu!Finds,
                Gpu!Writes, Gpu!Submits, Gpu!Lands, Gpu!Submitted, GpuTypes, Gpu!TypeOK
  <2> QED  BY <2>1 DEF GpuLocks, GpuTypes, Gpu!TypeOK
<1>3. ASSUME NEW p \in Participants, NEW m \in Models, Gpu!Asks(p, m) PROVE GpuLocks'
  <2> DEFINE q == gpuQueue[m]
  <2>1. /\ q \in Seq(Participants) /\ gpuQueue' = [gpuQueue EXCEPT ![m] = Append(q, p)]
        /\ step[p] = "idle" /\ step' = [step EXCEPT ![p] = "queued"]
        /\ asks' = [asks EXCEPT ![p] = m]
    BY <1>3 DEF Gpu!Asks, GpuTypes, Gpu!TypeOK
  <2>2. /\ Append(q, p) # <<>> /\ Len(Append(q, p)) = Len(q) + 1 /\ Len(q) \in Nat
        /\ q # <<>> => Head(Append(q, p)) = Head(q)
        /\ \A i \in 1 .. Len(q) : Append(q, p)[i] = q[i]
        /\ Append(q, p)[Len(q) + 1] = p
    BY <2>1, AppendFacts
  <2>3. ASSUME NEW r \in Participants, step'[r] \in {"looks", "kicks", "polls"}
        PROVE  gpuQueue'[asks'[r]] # <<>> /\ Head(gpuQueue'[asks'[r]]) = r
    <3>1. /\ r # p /\ asks'[r] = asks[r] /\ asks[r] \in Models
          /\ gpuQueue[asks[r]] # <<>> /\ Head(gpuQueue[asks[r]]) = r
      BY <2>1, <2>3 DEF GpuLocks, GpuTypes, Gpu!TypeOK
    <3> QED  BY <2>1, <2>2, <3>1 DEF GpuTypes, Gpu!TypeOK
  <2>4. ASSUME NEW r \in Participants, step'[r] = "queued"
        PROVE  \E i \in 1 .. Len(gpuQueue'[asks'[r]]) : gpuQueue'[asks'[r]][i] = r
    <3>1. CASE r = p
      <4>1. gpuQueue'[asks'[r]] = Append(q, p)  BY <2>1, <3>1 DEF GpuTypes, Gpu!TypeOK
      <4> HIDE DEF q
      <4> QED  BY <2>2, <3>1, <4>1
    <3>2. CASE r # p
      <4>1. asks'[r] = asks[r] /\ asks[r] \in Models /\ step[r] = "queued"
        BY <2>1, <2>4, <3>2 DEF GpuTypes, Gpu!TypeOK
      <4>2. PICK i \in 1 .. Len(gpuQueue[asks[r]]) : gpuQueue[asks[r]][i] = r
        BY <4>1 DEF GpuLocks
      <4>3. i \in 1 .. Len(gpuQueue'[asks[r]]) /\ gpuQueue'[asks[r]][i] = r
        BY <2>1, <2>2, <4>1, <4>2 DEF GpuTypes, Gpu!TypeOK
      <4> QED  BY <4>1, <4>3
    <3> QED  BY <3>1, <3>2
  <2> HIDE DEF q
  <2> QED  BY <2>3, <2>4 DEF GpuLocks
<1>4. CASE UNCHANGED <<step, asks, gpuQueue>>  BY <1>4 DEF GpuLocks
<1> QED
  BY <1>1, <1>2, <1>3, <1>4 DEF Gpu!Next, Gpu!Advances, Gpu!Dies, Gpu!Stop, gpuVars

(* Who asks SLURM holds the lock of its model, alone.                       *)
LEMMA GpuAlone ==
  ASSUME GpuTypes, GpuLocks, GpuLooks, NEW p \in Participants, NEW r \in Participants,
         Asking(p), step[r] \in {"looks", "kicks", "polls"}, asks[p] = asks[r]
  PROVE  p = r
<1>1. step[p] \in {"kicks", "polls"}
  BY DEF Asking, GpuTypes, Gpu!TypeOK, GpuLooks
<1> QED  BY <1>1 DEF GpuLocks

(* A model that is served has no kick that was cleared: what the poll of a  *)
(* participant sees is not its own sbatch, still on its way.                *)
LEMMA GpuServed ==
  ASSUME GpuTypes, GpuLooks, NEW p \in Participants, NEW j \in Jobs, asks[p] \in loaded[j]
  PROVE  ~Cleared(p) /\ job[j] \in Gpu!Answers
<1>1. job[j] \in Gpu!Answers  BY DEF GpuLooks
<1>2. job[j] \in Gpu!Active  BY <1>1 DEF Gpu!Answers, Gpu!Active
<1>3. Cleared(p) => Asking(p)  BY DEF Cleared, Asking
<1> QED  BY <1>1, <1>2, <1>3 DEF GpuLooks

(* A step that leaves the jobs alone, and lets nobody ask who did not.      *)
LEMMA GpuCalm ==
  ASSUME GpuLooks, UNCHANGED <<job, model, loaded>>,
         \A r \in Participants : sent'[r] => step'[r] = "polls",
         \A r \in Participants : Asking(r)' => Asking(r) /\ asks'[r] = asks[r],
         \A r \in Participants : Cleared(r)' => Cleared(r)
  PROVE  GpuLooks'
<1>1. \A r \in Participants : Cleared(r)' => Asking(r)'  BY DEF Cleared, Asking
<1>2. \A r \in Participants, j \in Jobs :
        Asking(r)' /\ asks'[r] \in loaded'[j] => model'[j] = asks'[r]
  BY DEF GpuLooks
<1>3. \A r \in Participants, j \in Jobs :
        Cleared(r)' /\ job'[j] \in Gpu!Active => model'[j] # asks'[r]
  BY <1>1 DEF GpuLooks
<1>4. \A j \in Jobs : loaded'[j] # {} => job'[j] \in Gpu!Answers  BY DEF GpuLooks
<1> QED  BY <1>2, <1>3, <1>4 DEF GpuLooks

LEMMA GpuLooksEnsure ==
  ASSUME GpuTypes, GpuLocks, GpuLooks, NEW p \in Participants, Gpu!Ensure(p)
  PROVE  GpuLooks'
<1> USE DEF GpuTypes, Gpu!TypeOK
<1>1. UNCHANGED <<job, model, loaded, asks>>
  BY DEF Gpu!Ensure, Gpu!Enters, Gpu!Looks, Gpu!CutOff, Gpu!Sees, Gpu!Deadline
<1>2. CASE Gpu!Enters(p)
  <2>1. \A r \in Participants : sent'[r] => step'[r] = "polls"
    BY <1>2 DEF Gpu!Enters, GpuLooks
  <2> QED  BY <1>1, <1>2, <2>1, GpuCalm DEF Gpu!Enters, Asking, Cleared
<1>3. CASE Gpu!Looks(p) /\ Gpu!Serves(asks[p]) = {}
  <2>1. /\ step' = [step EXCEPT ![p] = "kicks"] /\ start' = [start EXCEPT ![p] = "probes"]
        /\ sent' = sent /\ ~sent[p]
    BY <1>3 DEF Gpu!Looks, GpuLooks
  <2>2. \A j \in Jobs : asks[p] \notin loaded[j]
    BY <1>3 DEF GpuLooks, Gpu!Serves, Gpu!Servers
  <2>3. \A r \in Participants : r # p => (Asking(r)' <=> Asking(r)) /\ (Cleared(r)' <=> Cleared(r))
    BY <2>1 DEF Asking, Cleared
  <2>4. ~Cleared(p)'  BY <2>1 DEF Cleared
  <2>5. \A r \in Participants : sent'[r] => step'[r] = "polls"  BY <2>1 DEF GpuLooks
  <2> HIDE DEF GpuTypes, Gpu!TypeOK
  <2> QED  BY <1>1, <2>2, <2>3, <2>4, <2>5 DEF GpuLooks
<1>4. CASE Gpu!Returns(p) /\ UNCHANGED <<start, sent>> /\ ~sent[p]
  <2>1. \A r \in Participants : sent'[r] => step'[r] = "polls"
    BY <1>4 DEF Gpu!Returns, GpuLooks
  <2> QED  BY <1>1, <1>4, <2>1, GpuCalm DEF Asking, Cleared
<1>5. Gpu!Sees(p) => ~sent[p]
  BY GpuServed DEF Gpu!Sees, Gpu!Serves, Gpu!Servers, Cleared
<1>6. Gpu!Looks(p) => ~sent[p]  BY DEF Gpu!Looks, GpuLooks
<1>7. CASE Gpu!CutOff(p)
  <2>1. /\ step' = [step EXCEPT ![p] = "polls"] /\ start' = [start EXCEPT ![p] = "off"]
        /\ sent' = [sent EXCEPT ![p] = (start[p] = "submits")]
    BY <1>7 DEF Gpu!CutOff
  <2>2. \A r \in Participants : sent'[r] => step'[r] = "polls"  BY <2>1 DEF GpuLooks
  <2>3. \A r \in Participants : (Asking(r)' => Asking(r)) /\ (Cleared(r)' => Cleared(r))
    BY <2>1 DEF Asking, Cleared
  <2> QED  BY <1>1, <2>2, <2>3, GpuCalm
<1> QED
  BY <1>2, <1>3, <1>4, <1>5, <1>6, <1>7
  DEF Gpu!Ensure, Gpu!Looks, Gpu!Sees, Gpu!Deadline

(* A job that is new, and of a model no other asks SLURM about.             *)
LEMMA GpuLooksSubmitted ==
  ASSUME GpuTypes, GpuLocks, GpuLooks, NEW p \in Participants, NEW j \in Jobs, NEW unseen,
         Gpu!Submitted(p, j, unseen), step[p] \in {"kicks", "polls"}, ~Asking(p)',
         \A r \in Participants : r # p => start'[r] = start[r] /\ sent'[r] = sent[r],
         \A r \in Participants : sent'[r] => step'[r] = "polls"
  PROVE  GpuLooks'
<1>1. /\ job' = [job EXCEPT ![j] = "pending"] /\ model' = [model EXCEPT ![j] = asks[p]]
      /\ UNCHANGED <<loaded, asks>> /\ job[j] = "none"
  BY DEF Gpu!Submitted
<1>2. loaded[j] = {}  BY <1>1 DEF GpuLooks, Gpu!Answers
<1>3. \A r \in Participants :
        r # p => /\ (Asking(r)' <=> Asking(r)) /\ (Cleared(r)' <=> Cleared(r))
                 /\ Asking(r) => asks[r] # asks[p]
  BY GpuAlone DEF Asking, Cleared
<1>4. ~Cleared(p)'  BY DEF Asking, Cleared
<1>5. \A r \in Participants : Cleared(r) => Asking(r)  BY DEF Cleared, Asking
<1>6. DOMAIN job = Jobs /\ DOMAIN model = Jobs  BY DEF GpuTypes, Gpu!TypeOK
<1>7. \A k \in Jobs : loaded'[k] # {} => job'[k] \in Gpu!Answers
  BY <1>1, <1>2, <1>6 DEF GpuLooks
<1>8. \A r \in Participants, k \in Jobs : Asking(r)' /\ asks'[r] \in loaded'[k] => model'[k] = asks'[r]
  BY <1>1, <1>2, <1>3, <1>6 DEF GpuLooks
<1>9. \A r \in Participants, k \in Jobs :
        Cleared(r)' /\ job'[k] \in Gpu!Active => model'[k] # asks'[r]
  BY <1>1, <1>3, <1>4, <1>5, <1>6 DEF GpuLooks
<1> QED  BY <1>7, <1>8, <1>9 DEF GpuLooks

LEMMA GpuLooksChitta ==
  ASSUME GpuTypes, GpuLocks, GpuLooks, NEW p \in Participants, Gpu!ChittaGpu(p)
  PROVE  GpuLooks'
<1> USE DEF GpuTypes, Gpu!TypeOK
<1>1. CASE Gpu!FindsNone(p) \/ Gpu!Overlooks(p) \/ Gpu!Misses(p) \/ Gpu!Runs(p)
  <2>1. /\ start[p] \in {"probes", "checks", "waits"} /\ UNCHANGED <<job, model, loaded, asks, step, sent>>
        /\ \/ start' = [start EXCEPT ![p] = "checks"] /\ start[p] = "probes"
           \/ start' = [start EXCEPT ![p] = "blind"]
           \/ start' = [start EXCEPT ![p] = "lingers"]
    BY <1>1 DEF Gpu!FindsNone, Gpu!Overlooks, Gpu!Misses, Gpu!Runs, Gpu!Goes
  <2>2. \A r \in Participants : sent'[r] => step'[r] = "polls"  BY <2>1 DEF GpuLooks
  <2>3. \A r \in Participants : (Asking(r)' => Asking(r)) /\ (Cleared(r)' => Cleared(r))
    BY <2>1 DEF Asking, Cleared
  <2> QED  BY <2>1, <2>2, <2>3, GpuCalm
<1>2. CASE Gpu!Clear(p)
  <2>1. /\ start[p] = "checks" /\ start' = [start EXCEPT ![p] = "submits"]
        /\ UNCHANGED <<job, model, loaded, asks, step, sent>>
    BY <1>2 DEF Gpu!Clear, Gpu!Goes
  <2>2. \A j \in Jobs : job[j] \in Gpu!Active => model[j] # asks[p]
    BY <1>2 DEF Gpu!Clear, Gpu!Found
  <2>3. \A r \in Participants :
          /\ Asking(r)' => Asking(r)
          /\ r # p => (Cleared(r)' => Cleared(r))
    BY <2>1 DEF Asking, Cleared
  <2> HIDE DEF GpuTypes, Gpu!TypeOK
  <2> QED  BY <2>1, <2>2, <2>3 DEF GpuLooks
<1>3. CASE \/ Gpu!Blocked(p) \/ Gpu!SubmitFails(p) \/ Gpu!Vanishes(p)
           \/ \E j \in Jobs : Gpu!Writes(p, j)
  <2>1. /\ UNCHANGED <<job, model, loaded, asks>>
        /\ \/ start' = [start EXCEPT ![p] = "off"] /\ step' = [step EXCEPT ![p] = "polls"] /\ sent' = sent
           \/ sent' = [sent EXCEPT ![p] = FALSE] /\ UNCHANGED <<start, step>>
    BY <1>3 DEF Gpu!Blocked, Gpu!SubmitFails, Gpu!Vanishes, Gpu!Writes, Gpu!Quits
  <2>2. \A r \in Participants : sent'[r] => step'[r] = "polls"
    <3>1. sent \in [Participants -> BOOLEAN] /\ DOMAIN step = Participants  OBVIOUS
    <3>2. \A r \in Participants : sent[r] => step[r] = "polls"  BY DEF GpuLooks
    <3> HIDE DEF GpuTypes, Gpu!TypeOK
    <3>3. CASE step' = [step EXCEPT ![p] = "polls"] /\ sent' = sent  BY <3>1, <3>2, <3>3
    <3>4. CASE sent' = [sent EXCEPT ![p] = FALSE] /\ step' = step  BY <3>1, <3>2, <3>4
    <3> QED  BY <2>1, <3>3, <3>4
  <2>3. \A r \in Participants : (Asking(r)' => Asking(r)) /\ (Cleared(r)' => Cleared(r))
    BY <2>1 DEF Asking, Cleared
  <2> QED  BY <2>1, <2>2, <2>3, GpuCalm
<1>4. ASSUME NEW j \in Jobs, Gpu!Finds(p, j) PROVE GpuLooks'
  <2>1. /\ start[p] = "probes" /\ start' = [start EXCEPT ![p] = "off"]
        /\ step' = [step EXCEPT ![p] = "polls"] /\ UNCHANGED <<job, model, asks, sent>>
        /\ \/ loaded' = [loaded EXCEPT ![j] = loaded[j] \cup {asks[p]}]
           \/ loaded' = loaded
        /\ job[j] \in Gpu!Answers /\ step[p] = "kicks" /\ ~sent[p]
    BY <1>4 DEF Gpu!Finds, Gpu!Quits, Gpu!Servers, GpuLooks
  <2>2. ~Asking(p)' /\ ~Cleared(p)'  BY <2>1 DEF Asking, Cleared
  <2>3. \A r \in Participants :
          r # p => /\ (Asking(r)' <=> Asking(r)) /\ (Cleared(r)' <=> Cleared(r))
                   /\ Asking(r) => asks[r] # asks[p]
    BY <2>1, GpuAlone DEF Asking, Cleared
  <2>4. \A r \in Participants : sent'[r] => step'[r] = "polls"  BY <2>1 DEF GpuLooks
  <2>5. DOMAIN loaded = Jobs  OBVIOUS
  <2> HIDE DEF GpuTypes, Gpu!TypeOK
  <2>6. \A k \in Jobs : \A m : m \in loaded'[k] => m \in loaded[k] \/ (k = j /\ m = asks[p])
    BY <2>1, <2>5
  <2>7. \A k \in Jobs : loaded'[k] # {} => job[k] \in Gpu!Answers
    BY <2>1, <2>6 DEF GpuLooks
  <2> QED  BY <2>1, <2>2, <2>3, <2>4, <2>6, <2>7 DEF GpuLooks
<1>5. ASSUME NEW j \in Jobs, Gpu!Submits(p, j) PROVE GpuLooks'
  <2>1. /\ Gpu!Submitted(p, j, start[p] = "blind") /\ start[p] \in {"submits", "blind"}
        /\ start' = [start EXCEPT ![p] = "waits"] /\ UNCHANGED <<step, sent>>
        /\ step[p] = "kicks" /\ ~sent[p]
    BY <1>5 DEF Gpu!Submits, GpuLooks
  <2>2. ~Asking(p)'  BY <2>1 DEF Asking
  <2>3. \A r \in Participants : sent'[r] => step'[r] = "polls"  BY <2>1 DEF GpuLooks
  <2> QED  BY <2>1, <2>2, <2>3, GpuLooksSubmitted
<1>6. ASSUME NEW j \in Jobs, Gpu!Lands(p, j) PROVE GpuLooks'
  <2>1. /\ Gpu!Submitted(p, j, FALSE) /\ sent' = [sent EXCEPT ![p] = FALSE]
        /\ UNCHANGED <<step, start>> /\ step[p] = "polls" /\ start[p] = "off"
    BY <1>6 DEF Gpu!Lands, GpuLooks
  <2>2. ~Asking(p)'  BY <2>1 DEF Asking
  <2>3. \A r \in Participants : sent'[r] => step'[r] = "polls"  BY <2>1 DEF GpuLooks
  <2> QED  BY <2>1, <2>2, <2>3, GpuLooksSubmitted
<1> QED  BY <1>1, <1>2, <1>3, <1>4, <1>5, <1>6 DEF Gpu!ChittaGpu

LEMMA GpuLooksStep == GpuTypes /\ GpuLocks /\ GpuLooks /\ [Gpu!Next]_gpuVars => GpuLooks'
<1> SUFFICES ASSUME GpuTypes, GpuLocks, GpuLooks, [Gpu!Next]_gpuVars PROVE GpuLooks'  OBVIOUS
<1>1. ASSUME NEW p \in Participants, NEW m \in Models, Gpu!Asks(p, m) PROVE GpuLooks'
  <2>1. /\ step[p] = "idle" /\ step' = [step EXCEPT ![p] = "queued"]
        /\ asks' = [asks EXCEPT ![p] = m] /\ UNCHANGED <<job, model, loaded, start, sent>>
        /\ start[p] = "off" /\ ~sent[p]
    BY <1>1 DEF Gpu!Asks, GpuTypes, Gpu!TypeOK
  <2>2. \A r \in Participants : sent'[r] => step'[r] = "polls"
    BY <2>1 DEF GpuLooks, GpuTypes, Gpu!TypeOK
  <2>3. \A r \in Participants :
          /\ Asking(r)' => Asking(r) /\ asks'[r] = asks[r]
          /\ Cleared(r)' => Cleared(r)
    BY <2>1 DEF Asking, Cleared, GpuTypes, Gpu!TypeOK
  <2> QED  BY <2>1, <2>2, <2>3, GpuCalm
<1>2. ASSUME NEW j \in Jobs, Gpu!Advances(j) PROVE GpuLooks'
  <2>1. /\ UNCHANGED <<model, asks, step, start, sent>>
        /\ \A k \in Jobs : job'[k] \in Gpu!Active => job[k] \in Gpu!Active
        /\ \A k \in Jobs : job[k] \in Gpu!Answers => job'[k] \in Gpu!Answers
        /\ \/ job'[j] = "ready" /\ loaded' = [loaded EXCEPT ![j] = loaded[j] \cup {model[j]}]
           \/ loaded' = loaded
    BY <1>2 DEF Gpu!Advances, Gpu!Active, Gpu!Answers, GpuTypes, Gpu!TypeOK
  <2>2. DOMAIN loaded = Jobs  BY DEF GpuTypes, Gpu!TypeOK
  <2>3. \A k \in Jobs : \A m : m \in loaded'[k] => m \in loaded[k] \/ (k = j /\ m = model[j])
    BY <2>1, <2>2
  <2>4. \A k \in Jobs : loaded'[k] # {} => job'[k] \in Gpu!Answers
    BY <2>1, <2>2 DEF GpuLooks, Gpu!Answers
  <2>5. \A r \in Participants : (Asking(r)' <=> Asking(r)) /\ (Cleared(r)' <=> Cleared(r))
    BY <2>1 DEF Asking, Cleared
  <2> QED  BY <2>1, <2>3, <2>4, <2>5 DEF GpuLooks
<1>3. CASE (\E j \in Jobs : Gpu!Dies(j)) \/ (\E m \in Models : Gpu!Stop(m))
  <2>1. /\ UNCHANGED <<model, asks, step, start, sent>>
        /\ \A k \in Jobs : \/ job'[k] = job[k] /\ loaded'[k] = loaded[k]
                           \/ job'[k] = "gone" /\ loaded'[k] = {}
    BY <1>3 DEF Gpu!Dies, Gpu!Stop, GpuTypes, Gpu!TypeOK
  <2>2. \A r \in Participants : (Asking(r)' <=> Asking(r)) /\ (Cleared(r)' <=> Cleared(r))
    BY <2>1 DEF Asking, Cleared
  <2> QED  BY <2>1, <2>2 DEF GpuLooks, Gpu!Active
<1>4. CASE UNCHANGED gpuVars  BY <1>4 DEF gpuVars, GpuLooks, Asking, Cleared
<1> QED
  BY <1>1, <1>2, <1>3, <1>4, GpuLooksEnsure, GpuLooksChitta DEF Gpu!Next

(* The jobs that are on their way: none is new unless its model was clear.  *)
LEMMA GpuOnceStep == GpuTypes /\ GpuLooks /\ GpuOnce /\ [Gpu!Next]_gpuVars => GpuOnce'
<1> SUFFICES ASSUME GpuTypes, GpuLooks, GpuOnce, [Gpu!Next]_gpuVars PROVE GpuOnce'  OBVIOUS
<1>1. CASE \E p \in Participants, j \in Jobs : Gpu!Submits(p, j) \/ Gpu!Lands(p, j)
  <2>1. PICK p \in Participants, j \in Jobs : Gpu!Submits(p, j) \/ Gpu!Lands(p, j)  BY <1>1
  <2>2. PICK unseen \in BOOLEAN :
          /\ job' = [job EXCEPT ![j] = "pending"] /\ model' = [model EXCEPT ![j] = asks[p]]
          /\ blind' = [blind EXCEPT ![j] = unseen]
          /\ unseen \/ Cleared(p)
    BY <2>1 DEF Gpu!Submits, Gpu!Lands, Gpu!Submitted, Cleared
  <2>3. unseen \/ \A k \in Jobs : job[k] \in Gpu!Active => model[k] # asks[p]
    BY <2>2 DEF GpuLooks
  <2>4. DOMAIN job = Jobs /\ DOMAIN model = Jobs /\ DOMAIN blind = Jobs
    BY DEF GpuTypes, Gpu!TypeOK
  <2> QED  BY <2>2, <2>3, <2>4 DEF GpuOnce
<1>2. CASE /\ UNCHANGED <<model, blind>>
           /\ \A k \in Jobs : job'[k] \in Gpu!Active => job[k] \in Gpu!Active
  BY <1>2 DEF GpuOnce
<1>3. \A j \in Jobs :
        Gpu!Advances(j) \/ Gpu!Dies(j) =>
          /\ UNCHANGED <<model, blind>>
          /\ \A k \in Jobs : job'[k] \in Gpu!Active => job[k] \in Gpu!Active
  BY DEF Gpu!Advances, Gpu!Dies, Gpu!Active, GpuTypes, Gpu!TypeOK
<1>4. \A m \in Models :
        Gpu!Stop(m) =>
          /\ UNCHANGED <<model, blind>>
          /\ \A k \in Jobs : job'[k] \in Gpu!Active => job[k] \in Gpu!Active
  BY DEF Gpu!Stop, Gpu!Active
<1>5. \A p \in Participants :
        \/ Gpu!Ensure(p) \/ \E m \in Models : Gpu!Asks(p, m)
        \/ Gpu!FindsNone(p) \/ Gpu!Overlooks(p) \/ Gpu!Blocked(p) \/ Gpu!Clear(p)
        \/ Gpu!Misses(p) \/ Gpu!SubmitFails(p) \/ Gpu!Runs(p) \/ Gpu!Vanishes(p)
        \/ \E j \in Jobs : Gpu!Finds(p, j) \/ Gpu!Writes(p, j)
        => UNCHANGED <<job, model, blind>>
  BY DEF Gpu!Ensure, Gpu!Enters, Gpu!Looks, Gpu!CutOff, Gpu!Sees, Gpu!Deadline, Gpu!Asks,
         Gpu!FindsNone, Gpu!Overlooks, Gpu!Blocked, Gpu!Clear, Gpu!Misses, Gpu!SubmitFails,
         Gpu!Runs, Gpu!Vanishes, Gpu!Finds, Gpu!Writes, Gpu!Goes
<1> QED
  BY <1>1, <1>2, <1>3, <1>4, <1>5 DEF Gpu!Next, Gpu!ChittaGpu, gpuVars

LEMMA GpuStep == GpuInv /\ [Gpu!Next]_gpuVars => GpuInv'
BY GpuTypeStep, GpuLocksStep, GpuLooksStep, GpuOnceStep DEF GpuInv

LEMMA GpuAlways == Spec => []GpuInv
<1>1. Init => GpuInv  BY GpuInit DEF Init
<1>2. GpuInv /\ [Next]_vars => GpuInv'  BY ComponentSteps, GpuStep
<1> QED  BY <1>1, <1>2, PTL DEF Spec

(* Participants that need a model nobody serves have one job on its way     *)
(* for it, however many ask, whenever a kick is cut off.                    *)
THEOREM OneJobOnItsWay == Spec => []OneJobPerModel
<1>1. GpuInv => OneJobPerModel
  <2> DEFINE S(m) == {j \in Jobs : job[j] \in Gpu!Active /\ model[j] = m /\ ~blind[j]}
  <2>1. ASSUME GpuInv, NEW m \in Models PROVE Cardinality(S(m)) <= 1
    <3>1. \A x, y \in S(m) : x = y  BY <2>1 DEF GpuInv, GpuOnce
    <3> HIDE DEF S
    <3> QED  BY <3>1, AtMostOne
  <2>2. (\A m \in Models : Cardinality(S(m)) <= 1) => OneJobPerModel
    BY SameCardinality, Zenon DEF OneJobPerModel, Gpu!OneJobPerModel
  <2> HIDE DEF S
  <2> QED  BY <2>1, <2>2
<1> QED  BY <1>1, GpuAlways, PTL

-----------------------------------------------------------------------------
(* The inbox of a peer.                                                    *)

LEMMA PeersTypeInit == Peer!Init => Peer!TypeOK
<1> SUFFICES ASSUME Peer!Init PROVE Peer!TypeOK  OBVIOUS
<1>1. 0 \in 0 .. MaxCrashes /\ 0 \in 0 .. MaxSweeps  BY BoundsAreNatural
<1>2. \A m \in Messages : message[m] = "unsent"  BY DEF Peer!Init
<1> QED  BY <1>1, <1>2 DEF Peer!Init, Peer!TypeOK

LEMMA PeersTypeStep == Peer!TypeOK /\ [Peer!Next]_peersVars => Peer!TypeOK'
<1> SUFFICES ASSUME Peer!TypeOK, [Peer!Next]_peersVars PROVE Peer!TypeOK'  OBVIOUS
<1> USE BoundsAreNatural DEF Peer!TypeOK, Peer!file
<1>1. ASSUME NEW p \in Pids, Peer!Register(p) PROVE Peer!TypeOK'
  BY <1>1 DEF Peer!Register, Peer!Reaped
<1>2. ASSUME NEW p \in Pids, Peer!Listens(p) PROVE Peer!TypeOK'
  BY <1>2 DEF Peer!Listens, Peer!Written, Peer!Stale
<1>3. ASSUME NEW p \in Pids, Peer!Exits(p) PROVE Peer!TypeOK'  BY <1>3 DEF Peer!Exits
<1>4. ASSUME NEW p \in Pids, Peer!Swept(p) PROVE Peer!TypeOK'  BY <1>4 DEF Peer!Swept
<1>5. ASSUME NEW p \in Pids, Peer!Heartbeat(p) PROVE Peer!TypeOK'
  BY <1>5 DEF Peer!Heartbeat, Peer!Written
<1>6. ASSUME NEW p \in Pids, NEW m \in Messages, Peer!Append(p, m) PROVE Peer!TypeOK'
  <2>1. peersOvertaken' \subseteq Messages  BY <1>6 DEF Peer!Append
  <2>2. spoilt' \subseteq Messages  BY <1>6 DEF Peer!Append
  <2>3. \A n \in Messages : message'[n] \in {message[n], "kept"}  BY <1>6 DEF Peer!Append
  <2>4. /\ mailbox' = mailbox \cup {m} /\ torn' = FALSE
        /\ UNCHANGED <<process, tracked, peersListed, draining, shown, unreturned, peersCrashes, sweeps>>
    BY <1>6 DEF Peer!Append
  <2> QED  BY <2>1, <2>2, <2>3, <2>4
<1>7. ASSUME NEW m \in Messages, Peer!Send(m) PROVE Peer!TypeOK'
  <2>1. PICK to \in Pids \cup {"refused"} : message' = [message EXCEPT ![m] = to]
    BY <1>7 DEF Peer!Send, Peer!Reachable
  <2> QED  BY <1>7, <2>1 DEF Peer!Send
<1>8. CASE Peer!Stop
  <2>1. tracked \in Pids  BY <1>8 DEF Peer!Stop
  <2>2. Peer!Terminated(tracked) \in {"none", "starting", "listening", "dying", "zombie", "gone"}
    BY <2>1 DEF Peer!Terminated
  <2> QED  BY <1>8, <2>2 DEF Peer!Stop
<1>9. ASSUME NEW cleared \in BOOLEAN, Peer!Crash(cleared) PROVE Peer!TypeOK'
  <2>1. /\ mailbox' \subseteq Messages /\ unreturned' \subseteq Messages /\ torn' \in BOOLEAN
        /\ peersCrashes' \in 0 .. MaxCrashes
    <3>1. peersCrashes' \in 0 .. MaxCrashes
      <4>1. MaxCrashes \in Nat /\ peersCrashes' = peersCrashes + 1 /\ peersCrashes < MaxCrashes
        BY <1>9 DEF Peer!Crash
      <4> QED  BY <4>1
    <3>2. CASE cleared /\ draining # None
      BY <1>9, <3>1, <3>2 DEF Peer!Crash, Peer!Empties
    <3>3. CASE ~(cleared /\ draining # None)
      BY <1>9, <3>1, <3>3 DEF Peer!Crash
    <3> QED  BY <3>2, <3>3
  <2>2. /\ draining' = None /\ tracked' = None
        /\ UNCHANGED <<peersListed, message, shown, peersOvertaken, spoilt, sweeps>>
    BY <1>9 DEF Peer!Crash
  <2>3. process' \in [Pids -> {"none", "starting", "listening", "dying", "zombie", "gone"}]
    BY <1>9 DEF Peer!Crash, Peer!Reaped
  <2>4. \A m \in Messages : message'[m] = message[m]  BY <2>2
  <2> QED  BY <2>1, <2>2, <2>3, <2>4
<1>10. CASE Peer!Drain  BY <1>10 DEF Peer!Drain
<1>11. CASE Peer!Clear
  <2>1. \A whole \in Peer!Replies : whole \subseteq Messages
    BY <1>11 DEF Peer!Clear, Peer!Replies
  <2> QED  BY <1>11, <2>1 DEF Peer!Clear, Peer!Empties
<1>12. CASE UNCHANGED peersVars  BY <1>12 DEF peersVars
<1> QED
  BY <1>1, <1>2, <1>3, <1>4, <1>5, <1>6, <1>7, <1>8, <1>9, <1>10, <1>11, <1>12 DEF Peer!Next

(* Mail that check_messages is about to clear it has read, or it came after *)
(* the read and is counted as overtaken.                                    *)
PeersDrain == draining = None \/ mailbox \subseteq draining \cup peersOvertaken

(* Until the bridge crashes, the one inbox is the one it tracks.            *)
Inboxes == {p \in Pids : process[p] \in {"starting", "listening"}}
PeersTracked == peersCrashes = 0 => Inboxes \subseteq {tracked}

(* What is in the file or is being read has been appended.                  *)
PeersAppended ==
  /\ DOMAIN message = Messages
  /\ \A m \in mailbox : message[m] = "kept"
  /\ draining # None => \A m \in draining : message[m] = "kept"

PeersMail == Peer!MailIsKept /\ Peer!MailIsReturned /\ PeersDrain /\ PeersAppended

PeersInv == Peer!TypeOK /\ PeersMail /\ PeersTracked

LEMMA PeersInit == Peer!Init => PeersInv
BY PeersTypeInit
DEF Peer!Init, PeersInv, PeersMail, Peer!MailIsKept, Peer!MailIsReturned, PeersDrain, PeersAppended,
    PeersTracked, Inboxes

(* Appended mail stays appended, and no step but a clearing or a crash      *)
(* changes what was not returned.                                           *)
LEMMA PeersReturnedStep ==
  ASSUME Peer!TypeOK, Peer!MailIsReturned, unreturned' = unreturned, spoilt \subseteq spoilt',
         peersCrashes' = peersCrashes, \A m \in Messages : message[m] = "kept" => message'[m] = "kept"
  PROVE  Peer!MailIsReturned'
<1> SUFFICES ASSUME NEW m \in unreturned' \ spoilt'
             PROVE  peersCrashes' > 0 \/ \E long \in TooLong :
                      m \in long /\ \A other \in long : message'[other] = "kept"
  BY DEF Peer!MailIsReturned
<1>1. m \in unreturned \ spoilt  OBVIOUS
<1>2. CASE peersCrashes > 0  BY <1>2
<1>3. ASSUME NEW long \in TooLong, m \in long, \A other \in long : message[other] = "kept"
      PROVE  \A other \in long : message'[other] = "kept"
  <2>1. long \subseteq Messages  BY RepliesAreMail
  <2> QED  BY <1>3, <2>1
<1> QED  BY <1>1, <1>2, <1>3 DEF Peer!MailIsReturned

LEMMA PeersMailStep ==
  Peer!TypeOK /\ PeersMail /\ [Peer!Next]_peersVars => PeersMail'
<1> SUFFICES ASSUME Peer!TypeOK, PeersMail, [Peer!Next]_peersVars PROVE PeersMail'
  OBVIOUS
<1> USE DEF PeersMail, Peer!MailIsKept, PeersDrain, PeersAppended
<1>1. CASE UNCHANGED <<mailbox, draining, message, shown, peersOvertaken, spoilt, unreturned, peersCrashes>>
  BY <1>1, PeersReturnedStep
<1>2. ASSUME NEW p \in Pids, Peer!Exits(p) PROVE PeersMail'
  <2>1. DOMAIN message' = Messages /\ \A m \in Messages : message'[m] = "kept" <=> message[m] = "kept"
    BY <1>2, PidsAreNoStates DEF Peer!Exits
  <2>2. /\ mailbox' = mailbox /\ draining' = draining /\ shown' = shown /\ spoilt' = spoilt
        /\ unreturned' = unreturned /\ peersOvertaken' = peersOvertaken
        /\ peersCrashes' = peersCrashes
    BY <1>2 DEF Peer!Exits
  <2>3. Peer!MailIsReturned'  BY <2>1, <2>2, PeersReturnedStep
  <2>4. mailbox \subseteq Messages /\ (draining # None => draining \subseteq Messages)
    BY DEF Peer!TypeOK
  <2> QED  BY <2>1, <2>2, <2>3, <2>4
<1>3. ASSUME NEW p \in Pids, NEW m \in Messages, Peer!Append(p, m) PROVE PeersMail'
  <2>1. \A n \in Messages : message'[n] = IF n = m THEN "kept" ELSE message[n]
    <3>1. message' = [message EXCEPT ![m] = "kept"] /\ message[m] = p  BY <1>3 DEF Peer!Append
    <3> QED  BY <3>1
  <2>2. Peer!MailIsReturned'
    <3>1. spoilt \subseteq spoilt'  BY <1>3 DEF Peer!Append
    <3> QED  BY <1>3, <2>1, <3>1, PeersReturnedStep DEF Peer!Append
  <2>3. /\ mailbox' = mailbox \cup {m} /\ draining' = draining /\ shown' = shown
        /\ unreturned' = unreturned /\ peersOvertaken \subseteq peersOvertaken'
        /\ draining # None => m \in peersOvertaken'
    BY <1>3 DEF Peer!Append, Peer!TypeOK
  <2>4. (\A n \in mailbox' : message'[n] = "kept") /\ Peer!MailIsKept'
    BY <2>1, <2>3 DEF Peer!TypeOK
  <2>5. draining' # None => \A n \in draining' : message'[n] = "kept"
    BY <2>1, <2>3 DEF Peer!TypeOK
  <2>6. DOMAIN message' = Messages  BY <1>3 DEF Peer!Append
  <2> QED  BY <2>2, <2>3, <2>4, <2>5, <2>6
<1>4. ASSUME NEW m \in Messages, Peer!Send(m) PROVE PeersMail'
  <2>1. PICK to \in Pids \cup {"refused"} : message' = [message EXCEPT ![m] = to]
    BY <1>4 DEF Peer!Send, Peer!Reachable, Peer!TypeOK
  <2>2. to # "kept" /\ message[m] = "unsent"  BY <1>4, <2>1, PidsAreNoStates DEF Peer!Send
  <2>3. \A n \in Messages : message'[n] = "kept" <=> message[n] = "kept"
    BY <2>1, <2>2
  <2>4. Peer!MailIsReturned'
    BY <1>4, <2>3, PeersReturnedStep DEF Peer!Send, Peer!file
  <2> QED  BY <1>4, <2>3, <2>4 DEF Peer!Send, Peer!file, Peer!TypeOK
<1>5. ASSUME NEW cleared \in BOOLEAN, Peer!Crash(cleared) PROVE PeersMail'
  <2>1. peersCrashes' > 0  BY <1>5, BoundsAreNatural DEF Peer!Crash, Peer!TypeOK
  <2>2. Peer!MailIsReturned'  BY <2>1 DEF Peer!MailIsReturned
  <2> QED  BY <1>5, <2>2 DEF Peer!Crash, Peer!Empties, Peer!TypeOK
<1>6. CASE Peer!Drain
  <2>1. Peer!MailIsReturned'  BY <1>6, PeersReturnedStep DEF Peer!Drain
  <2> QED  BY <1>6, <2>1 DEF Peer!Drain
<1>7. CASE Peer!Clear
  <2>1. PICK whole \in Peer!Replies :
            shown' = shown \cup whole /\ unreturned' = unreturned \cup (draining \ whole)
    BY <1>7 DEF Peer!Clear
  <2>2. draining \ spoilt \in TooLong \/ whole = draining \ spoilt
    BY <2>1 DEF Peer!Replies
  <2>3. /\ draining # None /\ draining' = None /\ mailbox' = {} /\ message' = message
        /\ spoilt' = spoilt /\ peersOvertaken' = peersOvertaken /\ peersCrashes' = peersCrashes
    BY <1>7 DEF Peer!Clear, Peer!Empties
  <2>4. Peer!MailIsReturned'
    <3> SUFFICES ASSUME NEW m \in draining \ whole, m \notin spoilt
                 PROVE  \E long \in TooLong : m \in long /\ \A other \in long : message[other] = "kept"
      BY <2>1, <2>3 DEF Peer!MailIsReturned
    <3>1. draining \ spoilt \in TooLong  BY <2>2
    <3>2. \A other \in draining \ spoilt : message[other] = "kept"  BY <2>3
    <3> QED  BY <3>1, <3>2
  <2> QED  BY <2>1, <2>3, <2>4
<1> QED
  BY <1>1, <1>2, <1>3, <1>4, <1>5, <1>6, <1>7
  DEF Peer!Next, Peer!Register, Peer!Listens, Peer!Swept, Peer!Heartbeat, Peer!Stop, peersVars,
      Peer!file

LEMMA PeersTrackedStep ==
  Peer!TypeOK /\ PeersTracked /\ [Peer!Next]_peersVars => PeersTracked'
<1> SUFFICES ASSUME Peer!TypeOK, PeersTracked, [Peer!Next]_peersVars PROVE PeersTracked'
  OBVIOUS
<1> USE DEF PeersTracked, Inboxes, Peer!TypeOK
<1>1. CASE UNCHANGED <<process, tracked, peersCrashes>>  BY <1>1
<1>2. ASSUME NEW p \in Pids, Peer!Register(p) PROVE PeersTracked'
  <2>1. peersCrashes = 0 => \A q \in Pids : process[q] \notin {"starting", "listening"}
    BY <1>2, NamesAreNotNone DEF Peer!Register, Peer!Fresh
  <2> QED  BY <1>2, <2>1 DEF Peer!Register, Peer!Reaped
<1>3. ASSUME NEW p \in Pids, Peer!Listens(p) PROVE PeersTracked'
  BY <1>3 DEF Peer!Listens
<1>4. ASSUME NEW p \in Pids, Peer!Exits(p) PROVE PeersTracked'
  BY <1>4 DEF Peer!Exits
<1>5. CASE Peer!Stop  BY <1>5 DEF Peer!Stop, Peer!Terminated
<1>6. ASSUME NEW cleared \in BOOLEAN, Peer!Crash(cleared) PROVE PeersTracked'
  BY <1>6, BoundsAreNatural DEF Peer!Crash
<1> QED
  BY <1>1, <1>2, <1>3, <1>4, <1>5, <1>6
  DEF Peer!Next, Peer!Swept, Peer!Heartbeat, Peer!Append, Peer!Send, Peer!Drain,
      Peer!Clear, Peer!file, peersVars

LEMMA PeersAlways == Spec => []PeersInv
<1>1. Init => PeersInv  BY PeersInit DEF Init
<1>2. PeersInv /\ [Next]_vars => PeersInv'
  BY ComponentSteps, PeersTypeStep, PeersMailStep, PeersTrackedStep DEF PeersInv
<1> QED  BY <1>1, <1>2, PTL DEF Spec

(* Mail that an inbox has appended stays in the mailbox until it is shown   *)
(* or cleared; it is cleared without being shown only when its line does    *)
(* not parse, when it came with more mail than a reply holds or when the    *)
(* bridge has crashed; and a bridge that has not crashed runs one inbox of  *)
(* a name, over any number of stops, restarts and workers.                  *)
THEOREM MailStaysInOneInbox == Spec => []InboxIsKept
<1>1. PeersInv => InboxIsKept
  <2> SUFFICES ASSUME PeersInv PROVE Peer!MailIsKept /\ Peer!MailIsReturned /\ Peer!OneInbox
    BY DEF InboxIsKept, Peer!InboxIsKept
  <2>1. ASSUME peersCrashes = 0 PROVE Cardinality(Inboxes) <= 1
    <3>1. \A x, y \in Inboxes : x = y  BY <2>1 DEF PeersInv, PeersTracked
    <3> HIDE DEF Inboxes
    <3> QED  BY <3>1, AtMostOne
  <2>2. Cardinality(Inboxes) <= 1 => Peer!Cardinality(Inboxes) <= 1  BY SameCardinality, Zenon
  <2> QED  BY <2>1, <2>2 DEF PeersInv, PeersMail, Peer!OneInbox, Inboxes
<1> QED  BY <1>1, PeersAlways, PTL

-----------------------------------------------------------------------------
(* The edits of files.                                                     *)

EditRecord == [kind : Edits!Threads \cup Edits!OnLoop, src : Files, dst : Files,
               step : Edits!Steps, text : [Files -> Edits!Texts], left : SUBSET Files, at : Files]

EditsTypes == Edits!TypeOK /\ DOMAIN editsCall = Calls /\ DOMAIN cache = Files

LEMMA EditsTypeInit == Edits!Init => EditsTypes
<1> SUFFICES ASSUME Edits!Init PROVE EditsTypes  OBVIOUS
<1>1. disk \in [Files -> Edits!Texts]
  BY DEF Edits!Init, Edits!Texts, Edits!Parts, Edits!Symbols
<1> QED  BY <1>1, BoundsAreNatural DEF Edits!Init, EditsTypes, Edits!TypeOK, Edits!Texts

(* Only the record of c changes.                                            *)
Alone(c) ==
  /\ DOMAIN editsCall' = Calls
  /\ \A d \in Calls \ {c} : editsCall'[d] = editsCall[d]

(* It is still the same call, at another step.                              *)
Goes(c, s, x, text, left) ==
  LET k == editsCall[c]
      r == editsCall'[c]
  IN  /\ Alone(c) /\ r \in EditRecord
      /\ r.kind = k.kind /\ r.src = k.src /\ r.dst = k.dst
      /\ r.step = s /\ r.at = x /\ r.text = text /\ r.left = left

LEMMA EditsGoes ==
  ASSUME EditsTypes, NEW c \in Calls, NEW s \in Edits!Steps, editsCall[c] \in EditRecord
  PROVE  /\ \A f \in Files, text \in Edits!Texts :
              editsCall' = [editsCall EXCEPT ![c].text[f] = text, ![c].step = s]
              => Goes(c, s, editsCall[c].at, [editsCall[c].text EXCEPT ![f] = text], editsCall[c].left)
         /\ editsCall' = [editsCall EXCEPT ![c].step = s]
              => Goes(c, s, editsCall[c].at, editsCall[c].text, editsCall[c].left)
         /\ \A x \in Files :
              editsCall' = [editsCall EXCEPT ![c].step = s, ![c].at = x]
              => Goes(c, s, x, editsCall[c].text, editsCall[c].left)
         /\ \A left \in SUBSET Files :
              editsCall' = [editsCall EXCEPT ![c] = [editsCall[c] EXCEPT !.left = left, !.step = s]]
              => Goes(c, s, editsCall[c].at, editsCall[c].text, left)
<1> DEFINE k == editsCall[c]
<1>1. c \in DOMAIN editsCall /\ DOMAIN editsCall = Calls  BY DEF EditsTypes
<1>2. k \in EditRecord  OBVIOUS
<1>3. ASSUME NEW r, editsCall' = [editsCall EXCEPT ![c] = r], r \in EditRecord,
             r.kind = k.kind, r.src = k.src, r.dst = k.dst, r.step = s
      PROVE  Goes(c, s, r.at, r.text, r.left)
  BY <1>1, <1>3 DEF Goes, Alone
<1>4. ASSUME NEW f \in Files, NEW text \in Edits!Texts,
             editsCall' = [editsCall EXCEPT ![c].text[f] = text, ![c].step = s]
      PROVE  Goes(c, s, k.at, [k.text EXCEPT ![f] = text], k.left)
  <2> DEFINE r == [k EXCEPT !.text[f] = text, !.step = s]
  <2>1. r \in EditRecord  BY <1>2 DEF EditRecord
  <2>2. r.kind = k.kind /\ r.src = k.src /\ r.dst = k.dst /\ r.step = s
        /\ r.at = k.at /\ r.left = k.left /\ r.text = [k.text EXCEPT ![f] = text]
    BY <1>2 DEF EditRecord
  <2>3. editsCall' = [editsCall EXCEPT ![c] = r]  BY <1>1, <1>4
  <2> HIDE DEF r, k
  <2> QED  BY <1>3, <2>1, <2>2, <2>3
<1>5. ASSUME editsCall' = [editsCall EXCEPT ![c].step = s]
      PROVE  Goes(c, s, k.at, k.text, k.left)
  <2> DEFINE r == [k EXCEPT !.step = s]
  <2>1. r \in EditRecord  BY <1>2 DEF EditRecord
  <2>2. r.kind = k.kind /\ r.src = k.src /\ r.dst = k.dst /\ r.step = s
        /\ r.at = k.at /\ r.left = k.left /\ r.text = k.text
    BY <1>2 DEF EditRecord
  <2>3. editsCall' = [editsCall EXCEPT ![c] = r]  BY <1>1, <1>5
  <2> HIDE DEF r, k
  <2> QED  BY <1>3, <2>1, <2>2, <2>3
<1>6. ASSUME NEW x \in Files, editsCall' = [editsCall EXCEPT ![c].step = s, ![c].at = x]
      PROVE  Goes(c, s, x, k.text, k.left)
  <2> DEFINE r == [k EXCEPT !.step = s, !.at = x]
  <2>1. r \in EditRecord  BY <1>2 DEF EditRecord
  <2>2. r.kind = k.kind /\ r.src = k.src /\ r.dst = k.dst /\ r.step = s
        /\ r.at = x /\ r.left = k.left /\ r.text = k.text
    BY <1>2 DEF EditRecord
  <2>3. editsCall' = [editsCall EXCEPT ![c] = r]  BY <1>1, <1>6
  <2> HIDE DEF r, k
  <2> QED  BY <1>3, <2>1, <2>2, <2>3
<1>7. ASSUME NEW left \in SUBSET Files,
             editsCall' = [editsCall EXCEPT ![c] = [editsCall[c] EXCEPT !.left = left, !.step = s]]
      PROVE  Goes(c, s, k.at, k.text, left)
  <2> DEFINE r == [k EXCEPT !.left = left, !.step = s]
  <2>1. r \in EditRecord  BY <1>2 DEF EditRecord
  <2>2. r.kind = k.kind /\ r.src = k.src /\ r.dst = k.dst /\ r.step = s
        /\ r.at = k.at /\ r.left = left /\ r.text = k.text
    BY <1>2 DEF EditRecord
  <2>3. editsCall' = [editsCall EXCEPT ![c] = r]  BY <1>7
  <2> HIDE DEF r, k
  <2> QED  BY <1>3, <2>1, <2>2, <2>3
<1> QED  BY <1>4, <1>5, <1>6, <1>7

LEMMA EditsAreAtWork ==
  ASSUME EditsTypes, NEW c \in Calls, Edits!Step(c)
  PROVE  Edits!Live(c) /\ editsCall[c] \in EditRecord
<1>1. Edits!Live(c)
  BY DEF Edits!Step, Edits!Take, Edits!Refuse, Edits!TakeAndKeep, Edits!TakeSecond, Edits!Check,
     Edits!Rename, Edits!CutSource, Edits!WriteFails, Edits!PutsInCache, Edits!Scan, Edits!Verify,
     Edits!Apply, Edits!At
<1> QED  BY <1>1 DEF EditsTypes, Edits!TypeOK, EditRecord, Edits!Live

LEMMA EditsDropType ==
  ASSUME EditsTypes, NEW c PROVE Edits!Drop(c) \in [Files -> Calls \cup {None}]
BY DEF EditsTypes, Edits!TypeOK, Edits!Drop

LEMMA EditsNewText ==
  ASSUME EditsTypes, NEW c \in Calls, editsCall[c] \in EditRecord
  PROVE  Edits!NewText(c) \in Edits!Texts
<1> DEFINE k == editsCall[c]
<1>1. k.text[k.at] \in Edits!Texts  BY DEF EditRecord
<1>2. c \in Edits!Parts /\ SymbolOf[k.src] \in Edits!Parts
  BY DEF Edits!Parts, Edits!Symbols, EditRecord
<1> HIDE DEF k
<1>3. /\ {c} \in Edits!Texts
      /\ k.text[k.at] \cup {c} \in Edits!Texts
      /\ k.text[k.at] \cup {SymbolOf[k.src]} \in Edits!Texts
      /\ Edits!Without(k.text[k.at], k.src) \in Edits!Texts
  BY <1>1, <1>2 DEF Edits!Texts, Edits!Without
<1> QED  BY <1>3 DEF Edits!NewText, k

LEMMA EditsPutType ==
  ASSUME EditsTypes, NEW f \in Files, NEW text \in Edits!Texts, Edits!Put(f, text)
  PROVE  disk' \in [Files -> Edits!Texts] /\ stamp' \in [Files -> Nat]
BY DEF EditsTypes, Edits!TypeOK, Edits!Put

(* What each step makes of the record of its call.                         *)
LEMMA EditsStepGoes ==
  ASSUME EditsTypes, NEW c \in Calls, editsCall[c] \in EditRecord
  PROVE  LET k == editsCall[c]
         IN  /\ Edits!Over(c) => Alone(c) /\ editsCall'[c] = Ended
             /\ Edits!Take(c) =>
                  Goes(c, IF k.kind = "move" THEN "second" ELSE "check", k.at,
                       [k.text EXCEPT ![k.src] = disk[k.src]], k.left)
             /\ Edits!TakeAndKeep(c) => Goes(c, "rename", k.at, k.text, k.left)
             /\ Edits!TakeSecond(c) =>
                  Goes(c, "check", k.at, [k.text EXCEPT ![k.dst] = disk[k.dst]], k.left)
             /\ Edits!Check(c) =>
                  \/ Edits!Over(c)
                  \/ /\ UNCHANGED lock /\ Goes(c, "rename", k.dst, k.text, k.left)
                     /\ Edits!Unchanged(c, k.src)
                     /\ k.dst # k.src /\ disk[k.dst] # {} => Edits!Unchanged(c, k.dst)
             /\ Edits!CutSource(c) => Goes(c, "put", k.at, k.text, k.left)
             /\ Edits!Scan(c) =>
                  \/ Alone(c) /\ editsCall'[c] = Ended
                  \/ \E text, left : Goes(c, "verify", k.at, text, left)
             /\ Edits!Verify(c) =>
                  \/ Alone(c) /\ editsCall'[c] = Ended
                  \/ Goes(c, "apply", k.at, k.text, k.left)
             /\ \A f \in Files : Edits!Apply(c, f) =>
                  \/ Edits!Over(c)
                  \/ /\ lock[f] = None /\ lock' = [lock EXCEPT ![f] = c]
                     /\ Goes(c, "rename", f, k.text, k.left) /\ Edits!Unchanged(c, f)
             /\ Edits!Rename(c) =>
                  /\ k.kind = "move" => Goes(c, "cut", k.at, k.text, k.left)
                  /\ k.kind = "project" =>
                       \/ Alone(c) /\ editsCall'[c] = Ended
                       \/ \E left : Goes(c, "apply", k.at, k.text, left)
                  /\ k.kind \in Edits!OnLoop => Alone(c) /\ editsCall'[c] = Ended
                  /\ k.kind \in Edits!Threads \ {"move", "project"} =>
                       Goes(c, "put", k.at, k.text, k.left)
<1> DEFINE k == editsCall[c]
<1>1. DOMAIN editsCall = Calls /\ \A f \in Files : disk[f] \in Edits!Texts
  BY DEF EditsTypes, Edits!TypeOK
<1>2. k.src \in Files /\ k.dst \in Files /\ k.left \subseteq Files /\ k \in EditRecord
  BY DEF EditRecord
<1>3. \A s \in {"second", "check", "rename", "cut", "put", "verify", "apply"} : s \in Edits!Steps
  BY DEF Edits!Steps
<1>4. ASSUME editsCall' = [editsCall EXCEPT ![c] = Ended] PROVE Alone(c) /\ editsCall'[c] = Ended
  BY <1>1, <1>4 DEF Alone
<1>5. Edits!Over(c) => Alone(c) /\ editsCall'[c] = Ended  BY <1>4 DEF Edits!Over
<1>6. ASSUME Edits!Take(c)
      PROVE  Goes(c, IF k.kind = "move" THEN "second" ELSE "check", k.at,
                  [k.text EXCEPT ![k.src] = disk[k.src]], k.left)
  <2>1. editsCall' = [editsCall EXCEPT ![c].text[k.src] = disk[k.src],
                                       ![c].step = IF k.kind = "move" THEN "second" ELSE "check"]
    BY <1>6 DEF Edits!Take
  <2> QED  BY <1>1, <1>2, <1>3, <2>1, EditsGoes
<1>7. ASSUME Edits!TakeAndKeep(c) PROVE Goes(c, "rename", k.at, k.text, k.left)
  BY <1>2, <1>3, <1>7, EditsGoes DEF Edits!TakeAndKeep
<1>8. ASSUME Edits!TakeSecond(c)
      PROVE  Goes(c, "check", k.at, [k.text EXCEPT ![k.dst] = disk[k.dst]], k.left)
  <2>1. editsCall' = [editsCall EXCEPT ![c].text[k.dst] = disk[k.dst], ![c].step = "check"]
    BY <1>8 DEF Edits!TakeSecond
  <2> QED  BY <1>1, <1>2, <1>3, <2>1, EditsGoes
<1>9. ASSUME Edits!Check(c), ~Edits!Over(c)
      PROVE  /\ UNCHANGED lock /\ Goes(c, "rename", k.dst, k.text, k.left)
             /\ Edits!Unchanged(c, k.src)
             /\ k.dst # k.src /\ disk[k.dst] # {} => Edits!Unchanged(c, k.dst)
  <2>1. /\ UNCHANGED lock
        /\ editsCall' = [editsCall EXCEPT ![c].step = "rename", ![c].at = k.dst]
        /\ Edits!Unchanged(c, k.src)
        /\ k.dst # k.src /\ disk[k.dst] # {} => Edits!Unchanged(c, k.dst)
    BY <1>9 DEF Edits!Check
  <2> QED  BY <1>2, <1>3, <2>1, EditsGoes
<1>10. ASSUME Edits!CutSource(c) PROVE Goes(c, "put", k.at, k.text, k.left)
  BY <1>2, <1>3, <1>10, EditsGoes DEF Edits!CutSource
<1>11. ASSUME Edits!Scan(c)
       PROVE  \/ Alone(c) /\ editsCall'[c] = Ended
              \/ \E text, left : Goes(c, "verify", k.at, text, left)
  <2> DEFINE found == {f \in Files : Edits!Mentions(f)}
             text == [f \in Files |-> IF f \in found THEN disk[f] ELSE {}]
             r == [k EXCEPT !.step = "verify", !.left = found, !.text = text]
  <2>1. CASE found = {}  BY <1>4, <1>11, <2>1 DEF Edits!Scan
  <2>2. CASE found # {}
    <3>1. editsCall' = [editsCall EXCEPT ![c] = r]  BY <1>11, <2>2 DEF Edits!Scan
    <3>2. text \in [Files -> Edits!Texts]  BY <1>1 DEF Edits!Texts
    <3> HIDE DEF text
    <3>3. r \in EditRecord  BY <1>2, <1>3, <3>2 DEF EditRecord
    <3>4. r.kind = k.kind /\ r.src = k.src /\ r.dst = k.dst /\ r.step = "verify" /\ r.at = k.at
      BY <1>2 DEF EditRecord
    <3> HIDE DEF r, k
    <3>5. Goes(c, "verify", k.at, r.text, r.left)
      BY <1>1, <3>1, <3>3, <3>4 DEF Goes, Alone, k
    <3> QED  BY <3>5
  <2> QED  BY <2>1, <2>2
<1>12. ASSUME Edits!Verify(c)
       PROVE  \/ Alone(c) /\ editsCall'[c] = Ended
              \/ Goes(c, "apply", k.at, k.text, k.left)
  <2>1. CASE \A f \in k.left : Edits!Unchanged(c, f)
    <3>1. editsCall' = [editsCall EXCEPT ![c].step = "apply"]  BY <1>12, <2>1 DEF Edits!Verify
    <3> QED  BY <1>2, <1>3, <3>1, EditsGoes
  <2>2. CASE ~\A f \in k.left : Edits!Unchanged(c, f)  BY <1>4, <1>12, <2>2 DEF Edits!Verify
  <2> QED  BY <2>1, <2>2
<1>13. ASSUME NEW f \in Files, Edits!Apply(c, f), ~Edits!Over(c)
       PROVE  /\ lock[f] = None /\ lock' = [lock EXCEPT ![f] = c]
              /\ Goes(c, "rename", f, k.text, k.left) /\ Edits!Unchanged(c, f)
  <2>1. /\ lock[f] = None /\ lock' = [lock EXCEPT ![f] = c] /\ Edits!Unchanged(c, f)
        /\ editsCall' = [editsCall EXCEPT ![c].step = "rename", ![c].at = f]
    BY <1>13 DEF Edits!Apply
  <2> QED  BY <1>2, <1>3, <2>1, EditsGoes
<1>14. ASSUME Edits!Rename(c), k.kind = "move" PROVE Goes(c, "cut", k.at, k.text, k.left)
  <2>1. editsCall' = [editsCall EXCEPT ![c].step = "cut"]
    BY <1>14 DEF Edits!Rename, Edits!OnLoop
  <2> QED  BY <1>2, <1>3, <2>1, EditsGoes
<1>15. ASSUME Edits!Rename(c), k.kind = "project"
       PROVE  \/ Alone(c) /\ editsCall'[c] = Ended
              \/ \E left : Goes(c, "apply", k.at, k.text, left)
  <2> DEFINE left == k.left \ {k.at}
  <2>1. editsCall' = [editsCall EXCEPT ![c] = IF left = {} THEN Ended
                                              ELSE [@ EXCEPT !.left = left, !.step = "apply"]]
    BY <1>15 DEF Edits!Rename, Edits!OnLoop
  <2>2. CASE left = {}
    <3>1. editsCall' = [editsCall EXCEPT ![c] = Ended]  BY <2>1, <2>2
    <3> QED  BY <1>4, <3>1
  <2>3. CASE left # {}
    <3>1. left \in SUBSET Files  BY <1>2
    <3>2. editsCall' = [editsCall EXCEPT ![c] = [k EXCEPT !.left = left, !.step = "apply"]]
      BY <2>1, <2>3
    <3> HIDE DEF left
    <3>3. Goes(c, "apply", k.at, k.text, left)  BY <1>2, <1>3, <3>1, <3>2, EditsGoes
    <3> QED  BY <3>3
  <2> QED  BY <2>2, <2>3
<1>16. ASSUME Edits!Rename(c), k.kind \in Edits!OnLoop PROVE Alone(c) /\ editsCall'[c] = Ended
  <2>1. k.kind # "move" /\ k.kind # "project"  BY <1>16 DEF Edits!OnLoop
  <2>2. Edits!Over(c)  BY <1>16, <2>1 DEF Edits!Rename, Edits!OnLoop, Edits!Threads
  <2> QED  BY <1>5, <2>2
<1>17. ASSUME Edits!Rename(c), k.kind \in Edits!Threads \ {"move", "project"}
       PROVE  Goes(c, "put", k.at, k.text, k.left)
  <2>1. k.kind # "move" /\ k.kind # "project" /\ k.kind \notin Edits!OnLoop
    BY <1>17 DEF Edits!OnLoop, Edits!Threads
  <2>2. editsCall' = [editsCall EXCEPT ![c].step = "put"]
    BY <1>17, <2>1 DEF Edits!Rename
  <2> QED  BY <1>2, <1>3, <2>2, EditsGoes
<1> HIDE DEF k
<1> QED
  BY <1>5, <1>6, <1>7, <1>8, <1>9, <1>10, <1>11, <1>12, <1>13, <1>14, <1>15, <1>16, <1>17 DEF k

LEMMA EditsTypeStep == EditsTypes /\ [Edits!Next]_editsVars => EditsTypes'
<1> SUFFICES ASSUME EditsTypes, [Edits!Next]_editsVars PROVE EditsTypes'  OBVIOUS
<1> DEFINE Typed == /\ \A d \in Calls : editsCall[d] \in {None, Ended} \/ editsCall[d] \in EditRecord
                    /\ DOMAIN editsCall = Calls
           CacheTyped == /\ DOMAIN cache = Files
                         /\ \A f \in Files : \/ cache[f] = None
                                             \/ cache[f] \in [stamp : Nat, text : Edits!Texts]
           Locked == lock \in [Files -> Calls \cup {None}]
           Written == disk \in [Files -> Edits!Texts] /\ stamp \in [Files -> Nat]
           Kept == bak \in [Files -> Edits!Texts]
           Counted == /\ seen \subseteq Files /\ saved \subseteq Editors /\ editsRaced \subseteq saved
                      /\ editsCrashes \in 0 .. MaxCrashes
           Passed == editsOvertaken \subseteq Files
<1>t. Typed /\ CacheTyped /\ Locked /\ Written /\ Kept /\ Counted /\ Passed
  BY DEF EditsTypes, Edits!TypeOK, EditRecord
<1>a. Typed' /\ CacheTyped' /\ Locked' /\ Written' /\ Kept' /\ Counted' /\ Passed' => EditsTypes'
  BY DEF EditsTypes, Edits!TypeOK, EditRecord
<1>l. ASSUME UNCHANGED lock PROVE Locked'  BY <1>t, <1>l
<1>w. ASSUME UNCHANGED <<disk, stamp>> PROVE Written'  BY <1>t, <1>w
<1>k. ASSUME UNCHANGED bak PROVE Kept'  BY <1>t, <1>k
<1>n. ASSUME UNCHANGED <<seen, saved, editsRaced, editsCrashes>> PROVE Counted'  BY <1>t, <1>n
<1>p. ASSUME UNCHANGED editsOvertaken PROVE Passed'  BY <1>t, <1>p
<1>h. ASSUME UNCHANGED cache PROVE CacheTyped'  BY <1>t, <1>h
<1>o. ASSUME NEW c, NEW f \in Files, Edits!Overtakes(c, f) PROVE Passed'
  BY <1>t, <1>o DEF Edits!Overtakes
<1>d. ASSUME NEW c, lock' = Edits!Drop(c) PROVE Locked'  BY <1>d, EditsDropType
<1>g. ASSUME NEW c \in Calls, Alone(c), editsCall'[c] \in {None, Ended} \/ editsCall'[c] \in EditRecord
      PROVE  Typed'
  BY <1>t, <1>g DEF Alone
<1>e. ASSUME NEW c \in Calls, Edits!Over(c) PROVE Typed' /\ Locked'
  BY <1>t, <1>d, <1>e DEF Edits!Over
<1>s. ASSUME NEW c \in Calls, NEW s, NEW x, NEW text, NEW left, Goes(c, s, x, text, left)
      PROVE  Typed'
  BY <1>g, <1>s DEF Goes
<1> HIDE DEF Typed, CacheTyped, Locked, Written, Kept, Counted, Passed
<1>1. ASSUME NEW c \in Calls, NEW plan \in Plans[c], Edits!Start(c, plan[1], plan[2], plan[3])
      PROVE  EditsTypes'
  <2>1. /\ plan[1] \in Edits!Threads \cup Edits!OnLoop /\ plan[2] \in Files /\ plan[3] \in Files
    BY PlansAreEdits
  <2> DEFINE r == [kind |-> plan[1], src |-> plan[2], dst |-> plan[3], at |-> plan[2],
                   step |-> IF plan[1] = "project" THEN "scan" ELSE "lock",
                   text |-> [h \in Files |-> {}], left |-> {}]
  <2>2. r \in EditRecord  BY <2>1 DEF EditRecord, Edits!Steps, Edits!Texts
  <2>3. editsCall' = [editsCall EXCEPT ![c] = r]  BY <1>1 DEF Edits!Start
  <2>4. Typed'  BY <1>t, <2>2, <2>3 DEF Typed
  <2> QED
    BY <1>1, <1>t, <1>a, <1>l, <1>w, <1>k, <1>n, <1>p, <1>h, <2>4 DEF Edits!Start
<1>2. ASSUME NEW c \in Calls, Edits!Step(c) PROVE EditsTypes'
  <2> DEFINE k == editsCall[c]
  <2>1. k \in EditRecord  BY <1>2, EditsAreAtWork
  <2>2. /\ k.src \in Files /\ k.dst \in Files /\ k.at \in Files /\ k.left \subseteq Files
        /\ k.text \in [Files -> Edits!Texts]
    BY <2>1 DEF EditRecord
  <2>3. \A f \in Files : disk[f] \in Edits!Texts  BY <1>t DEF Written
  <2>4. ASSUME NEW f \in Files PROVE [lock EXCEPT ![f] = c] \in [Files -> Calls \cup {None}]
    BY <1>t DEF Locked
  <2>5. ASSUME UNCHANGED <<disk, bak, stamp, cache, seen, saved, editsRaced, editsOvertaken, editsCrashes>>,
               Typed', Locked'
        PROVE  EditsTypes'
    BY <1>a, <1>w, <1>k, <1>n, <1>p, <1>h, <2>5
  <2> HIDE DEF k
  <2>6. CASE Edits!Take(c)
    <3>1. Typed'  BY <1>s, <2>1, <2>6, EditsStepGoes DEF k
    <3>2. Locked'  BY <2>2, <2>4, <2>6 DEF Edits!Take, Locked, k
    <3> QED  BY <2>5, <2>6, <3>1, <3>2 DEF Edits!Take
  <2>7. CASE Edits!Refuse(c)
    BY <1>e, <2>5, <2>7 DEF Edits!Refuse
  <2>8. CASE Edits!TakeAndKeep(c)
    <3>1. Typed'  BY <1>s, <2>1, <2>8, EditsStepGoes DEF k
    <3>2. Locked'  BY <2>2, <2>4, <2>8 DEF Edits!TakeAndKeep, Locked, k
    <3>3. Kept'  BY <1>t, <2>2, <2>3, <2>8 DEF Edits!TakeAndKeep, Kept, k
    <3> QED  BY <1>a, <1>w, <1>n, <1>p, <1>h, <2>8, <3>1, <3>2, <3>3 DEF Edits!TakeAndKeep
  <2>9. CASE Edits!TakeSecond(c)
    <3>1. Typed'  BY <1>s, <2>1, <2>9, EditsStepGoes DEF k
    <3>2. Locked'  BY <2>2, <2>4, <2>9 DEF Edits!TakeSecond, Locked, k
    <3> QED  BY <2>5, <2>9, <3>1, <3>2 DEF Edits!TakeSecond
  <2>10. CASE Edits!Check(c)
    <3>1. Typed' /\ Locked'  BY <1>e, <1>l, <1>s, <2>1, <2>10, EditsStepGoes DEF k
    <3> QED  BY <2>5, <2>10, <3>1 DEF Edits!Check
  <2>11. CASE Edits!Rename(c)
    <3>1. Edits!Put(k.at, Edits!NewText(c)) /\ Edits!Overtakes(c, k.at)
          /\ UNCHANGED <<bak, seen, saved, editsRaced, editsCrashes>>
      BY <2>11 DEF Edits!Rename, k
    <3>2. Written'  BY <2>1, <2>2, <3>1, EditsNewText, EditsPutType DEF Written, k
    <3>3. Passed'  BY <1>o, <2>2, <3>1
    <3>4. k.kind \in Edits!OnLoop \cup Edits!Threads  BY <2>1 DEF EditRecord, k
    <3>5. Typed'
      BY <1>g, <1>s, <2>1, <2>11, <3>4, EditsStepGoes DEF k
    <3>6. UNCHANGED lock \/ lock' = Edits!Drop(c)  BY <2>11 DEF Edits!Rename, Edits!Over
    <3>7. Locked'  BY <1>l, <1>d, <3>6
    <3>8. UNCHANGED cache \/ cache' = Edits!Popped({k.at})  BY <2>11 DEF Edits!Rename, k
    <3>9. CacheTyped'  BY <1>t, <3>8 DEF CacheTyped, Edits!Popped
    <3> QED  BY <1>a, <1>k, <1>n, <3>1, <3>2, <3>3, <3>5, <3>7, <3>9
  <2>12. CASE Edits!CutSource(c)
    <3>1. /\ Edits!Put(k.src, Edits!Without(k.text[k.src], k.src)) /\ Edits!Overtakes(c, k.src)
          /\ lock' = Edits!Drop(c) /\ UNCHANGED <<bak, cache, seen, saved, editsRaced, editsCrashes>>
      BY <2>12 DEF Edits!CutSource, k
    <3>2. Edits!Without(k.text[k.src], k.src) \in Edits!Texts
      BY <2>2 DEF Edits!Without, Edits!Texts
    <3>3. Written'  BY <2>2, <3>1, <3>2, EditsPutType DEF Written
    <3>4. Typed'  BY <1>s, <2>1, <2>12, EditsStepGoes DEF k
    <3> QED  BY <1>a, <1>d, <1>h, <1>k, <1>n, <1>o, <2>2, <3>1, <3>3, <3>4
  <2>13. CASE Edits!WriteFails(c)
    BY <1>e, <2>5, <2>13 DEF Edits!WriteFails
  <2>14. CASE Edits!PutsInCache(c)
    <3>1. Edits!Over(c) /\ UNCHANGED <<disk, bak, stamp, seen, saved, editsRaced, editsOvertaken, editsCrashes>>
          /\ \/ cache' = [cache EXCEPT ![k.src] = [stamp |-> stamp[k.src],
                                                  text |-> k.text[k.src] \cup {c}]]
             \/ cache' = Edits!Popped({k.src, k.dst})
      BY <2>14 DEF Edits!PutsInCache, k
    <3>2. k.text[k.src] \cup {c} \in Edits!Texts /\ stamp[k.src] \in Nat
      BY <1>t, <2>2 DEF Edits!Texts, Edits!Parts, Written
    <3>3. CacheTyped'
      <4>1. CASE cache' = Edits!Popped({k.src, k.dst})
        BY <1>t, <4>1 DEF CacheTyped, Edits!Popped
      <4>2. CASE cache' = [cache EXCEPT ![k.src] = [stamp |-> stamp[k.src],
                                                    text |-> k.text[k.src] \cup {c}]]
        BY <1>t, <3>2, <4>2 DEF CacheTyped
      <4> QED  BY <3>1, <4>1, <4>2
    <3> QED  BY <1>a, <1>e, <1>w, <1>k, <1>n, <1>p, <3>1, <3>3
  <2>15. CASE Edits!Scan(c)
    <3>1. Typed'  BY <1>g, <1>s, <2>1, <2>15, EditsStepGoes DEF k
    <3> QED  BY <1>l, <2>5, <2>15, <3>1 DEF Edits!Scan
  <2>16. CASE Edits!Verify(c)
    <3>1. Typed'  BY <1>g, <1>s, <2>1, <2>16, EditsStepGoes DEF k
    <3> QED  BY <1>l, <2>5, <2>16, <3>1 DEF Edits!Verify
  <2>17. ASSUME NEW f \in Files, Edits!Apply(c, f) PROVE EditsTypes'
    <3>1. \/ Edits!Over(c)
          \/ lock' = [lock EXCEPT ![f] = c] /\ \E x, text, left : Goes(c, "rename", x, text, left)
      BY <2>1, <2>17, EditsStepGoes DEF k
    <3>2. Typed' /\ Locked'  BY <1>e, <1>s, <2>4, <3>1 DEF Locked
    <3> QED  BY <2>5, <2>17, <3>2 DEF Edits!Apply
  <2> QED
    BY <1>2, <2>6, <2>7, <2>8, <2>9, <2>10, <2>11, <2>12, <2>13, <2>14, <2>15, <2>16, <2>17
    DEF Edits!Step
<1>3. ASSUME NEW f \in Files, Edits!ReadFile(f) PROVE EditsTypes'
  <2>1. Counted'  BY <1>3, <1>t DEF Edits!ReadFile, Counted
  <2>2. Typed'  BY <1>3, <1>t DEF Edits!ReadFile, Typed
  <2> QED  BY <1>3, <1>a, <1>l, <1>w, <1>k, <1>p, <1>h, <2>1, <2>2 DEF Edits!ReadFile
<1>4. ASSUME NEW f \in Files, NEW e \in Editors, Edits!Save(e, f) PROVE EditsTypes'
  <2>1. Edits!Put(f, disk[f] \cup {e}) /\ Edits!Overtakes(None, f)
        /\ UNCHANGED <<bak, lock, editsCall, cache, seen, editsCrashes>>
        /\ saved' = saved \cup {e} /\ editsRaced' \in {editsRaced, editsRaced \cup {e}}
    BY <1>4 DEF Edits!Save
  <2>2. disk[f] \cup {e} \in Edits!Texts  BY <1>t DEF Written, Edits!Texts, Edits!Parts
  <2>3. Written'  BY <2>1, <2>2, EditsPutType DEF Written
  <2>4. Counted'  BY <1>t, <2>1 DEF Counted
  <2>5. Typed'  BY <1>t, <2>1 DEF Typed
  <2> QED  BY <1>a, <1>h, <1>k, <1>l, <1>o, <2>1, <2>3, <2>4, <2>5
<1>5. CASE Edits!Crash
  <2>1. Typed'  BY <1>5, <1>t DEF Edits!Crash, Typed
  <2>2. Locked' /\ CacheTyped'  BY <1>5, <1>t DEF Edits!Crash, Locked, CacheTyped
  <2>3. Counted'  BY <1>5, <1>t, BoundsAreNatural DEF Edits!Crash, Counted
  <2> QED  BY <1>5, <1>a, <1>w, <1>k, <1>p, <2>1, <2>2, <2>3 DEF Edits!Crash
<1>6. CASE UNCHANGED editsVars
  <2>1. Typed'  BY <1>6, <1>t DEF editsVars, Typed
  <2> QED  BY <1>6, <1>a, <1>h, <1>k, <1>l, <1>n, <1>p, <1>w, <2>1 DEF editsVars
<1> QED  BY <1>1, <1>2, <1>3, <1>4, <1>5, <1>6 DEF Edits!Next

(* What a call does next fits the tool that it is.                          *)
EditsPlaced(c) ==
  LET k == editsCall[c]
  IN  /\ k.kind # "move" => k.dst = k.src
      /\ k.step \in {"second", "cut"} => k.kind = "move"
      /\ k.step = "check" => k.kind \notin {"project", "write"}
      /\ k.step \in {"scan", "verify", "apply"} => k.kind = "project"
      /\ k.step = "lock" => k.kind # "project" /\ k.at = k.src
      /\ k.step = "rename" /\ k.kind # "project" => k.at = k.dst
      /\ k.step \in {"check", "rename", "cut"} /\ k.kind = "move" => k.dst # k.src

(* It holds the locks of the files that it compares or writes.              *)
EditsHeld(c) ==
  LET k == editsCall[c]
  IN  /\ k.step \in {"second", "check", "rename", "cut"} /\ k.kind # "project" => lock[k.src] = c
      /\ k.step \in {"check", "rename", "cut"} /\ k.kind = "move" => lock[k.dst] = c
      /\ k.step = "rename" => lock[k.at] = c

(* From its last comparison on, it knows what it is about to replace, but   *)
(* for the parts of editors that raced; a move cuts a symbol out of its     *)
(* source only after the destination has it.                                *)
EditsRead(c) ==
  LET k == editsCall[c]
  IN  /\ k.step = "rename" /\ k.kind = "write" => disk[k.src] \subseteq bak[k.src] \cup editsRaced
      /\ k.step = "rename" /\ k.kind # "write" => disk[k.at] \subseteq k.text[k.at] \cup editsRaced
      /\ k.step \in {"rename", "cut"} /\ k.kind = "move" =>
           disk[k.src] \subseteq k.text[k.src] \cup editsRaced
      /\ k.step = "cut" => SymbolOf[k.src] \in disk[k.dst]

(* The body that it is about to cache is on disk unless it was overtaken.   *)
EditsPuts(c) ==
  LET k == editsCall[c]
  IN  k.step = "put" /\ k.kind = "edit" =>
        disk[k.src] = k.text[k.src] \cup {c} \/ k.src \in editsOvertaken

EditsCall(c) ==
  Edits!Live(c) => EditsPlaced(c) /\ EditsHeld(c) /\ EditsRead(c) /\ EditsPuts(c)

EditsCalls == \A c \in Calls : EditsCall(c)

(* A cached body that has the time of the file is on disk.                  *)
EditsCache ==
  \A f \in Files :
    cache[f] # None =>
      /\ cache[f].stamp <= stamp[f]
      /\ cache[f].stamp = stamp[f] => cache[f].text = disk[f] \/ f \in editsOvertaken

EditsInv == EditsTypes /\ EditsCalls /\ EditsCache

LEMMA EditsInit == Edits!Init => EditsInv
<1> SUFFICES ASSUME Edits!Init PROVE EditsInv  OBVIOUS
<1>1. \A c \in Calls : ~Edits!Live(c)  BY DEF Edits!Init, Edits!Live
<1>2. EditsCalls  BY <1>1 DEF EditsCalls, EditsCall
<1>3. EditsCache  BY DEF Edits!Init, EditsCache
<1> QED  BY <1>2, <1>3, EditsTypeInit DEF EditsInv

LEMMA EditsLiveRecord ==
  ASSUME EditsTypes, NEW c \in Calls, Edits!Live(c) PROVE editsCall[c] \in EditRecord
BY DEF EditsTypes, Edits!TypeOK, EditRecord, Edits!Live

(* What others do to a call: its files change only if an editor raced, and  *)
(* what it is about to cache only if that is overtaken.                     *)
Undisturbed(d) ==
  /\ editsCall'[d] = editsCall[d]
  /\ \A f \in Files : lock[f] = d =>
       /\ lock'[f] = d /\ bak'[f] = bak[f] /\ disk[f] \subseteq disk'[f]
       /\ d \in Edits!Committed(f) => disk'[f] \subseteq disk[f] \cup editsRaced'
  /\ Edits!At(d, "put") =>
       LET f == editsCall[d].src IN disk'[f] = disk[f] \/ f \in editsOvertaken'
  /\ editsRaced \subseteq editsRaced' /\ editsOvertaken \subseteq editsOvertaken'

LEMMA EditsUndisturbed ==
  ASSUME EditsTypes, NEW d \in Calls, EditsCall(d), Undisturbed(d) PROVE EditsCall(d)'
<1> DEFINE k == editsCall[d]
<1> SUFFICES ASSUME Edits!Live(d)
             PROVE  (EditsPlaced(d) /\ EditsHeld(d) /\ EditsRead(d) /\ EditsPuts(d))'
  BY DEF EditsCall, Undisturbed, Edits!Live
<1>1. k \in EditRecord /\ editsCall'[d] = k  BY EditsLiveRecord DEF Undisturbed
<1>2. k.src \in Files /\ k.dst \in Files /\ k.at \in Files  BY <1>1 DEF EditRecord
<1>3. EditsPlaced(d) /\ EditsHeld(d) /\ EditsRead(d) /\ EditsPuts(d)  BY DEF EditsCall
<1>4. EditsPlaced(d)'  BY <1>1, <1>3 DEF EditsPlaced
<1>5. EditsHeld(d)'  BY <1>1, <1>2, <1>3 DEF EditsHeld, Undisturbed
<1>6. /\ k.step = "rename" => d \in Edits!Committed(k.at) /\ d \in Edits!Committed(k.src)
      /\ k.step = "cut" => d \in Edits!Committed(k.src)
  BY <1>1 DEF Edits!Committed, Edits!At
<1>7. ASSUME NEW f \in Files, NEW text, lock[f] = d, d \in Edits!Committed(f),
             disk[f] \subseteq text \cup editsRaced
      PROVE  disk'[f] \subseteq text \cup editsRaced'
  BY <1>7 DEF Undisturbed
<1>8. EditsRead(d)'
  <2>1. k.step = "rename" /\ k.kind = "write" => disk'[k.src] \subseteq bak'[k.src] \cup editsRaced'
    <3> SUFFICES ASSUME k.step = "rename", k.kind = "write"
                 PROVE  disk'[k.src] \subseteq bak'[k.src] \cup editsRaced'
      OBVIOUS
    <3>1. lock[k.src] = d /\ disk[k.src] \subseteq bak[k.src] \cup editsRaced
      BY <1>3 DEF EditsHeld, EditsRead
    <3>2. bak'[k.src] = bak[k.src]  BY <1>2, <3>1 DEF Undisturbed
    <3> QED  BY <1>2, <1>6, <1>7, <3>1, <3>2
  <2>2. k.step = "rename" /\ k.kind # "write" => disk'[k.at] \subseteq k.text[k.at] \cup editsRaced'
    <3> SUFFICES ASSUME k.step = "rename", k.kind # "write"
                 PROVE  disk'[k.at] \subseteq k.text[k.at] \cup editsRaced'
      OBVIOUS
    <3>1. lock[k.at] = d /\ disk[k.at] \subseteq k.text[k.at] \cup editsRaced
      BY <1>3 DEF EditsHeld, EditsRead
    <3> QED  BY <1>2, <1>6, <1>7, <3>1
  <2>3. k.step \in {"rename", "cut"} /\ k.kind = "move" =>
          disk'[k.src] \subseteq k.text[k.src] \cup editsRaced'
    <3> SUFFICES ASSUME k.step \in {"rename", "cut"}, k.kind = "move"
                 PROVE  disk'[k.src] \subseteq k.text[k.src] \cup editsRaced'
      OBVIOUS
    <3>1. lock[k.src] = d /\ disk[k.src] \subseteq k.text[k.src] \cup editsRaced
      BY <1>3 DEF EditsHeld, EditsRead
    <3> QED  BY <1>2, <1>6, <1>7, <3>1
  <2>4. k.step = "cut" => SymbolOf[k.src] \in disk'[k.dst]
    <3> SUFFICES ASSUME k.step = "cut" PROVE SymbolOf[k.src] \in disk'[k.dst]  OBVIOUS
    <3>1. lock[k.dst] = d /\ SymbolOf[k.src] \in disk[k.dst]
      BY <1>3 DEF EditsPlaced, EditsHeld, EditsRead
    <3> QED  BY <1>2, <3>1 DEF Undisturbed
  <2> QED  BY <1>1, <2>1, <2>2, <2>3, <2>4 DEF EditsRead
<1>9. EditsPuts(d)'
  <2>1. k.step = "put" => disk'[k.src] = disk[k.src] \/ k.src \in editsOvertaken'
    BY DEF Undisturbed, Edits!At
  <2>2. editsOvertaken \subseteq editsOvertaken'  BY DEF Undisturbed
  <2> QED  BY <1>1, <1>3, <2>1, <2>2 DEF EditsPuts
<1> QED  BY <1>4, <1>5, <1>8, <1>9

(* A step of c takes free locks or leaves its own, and writes only files    *)
(* that it has locked.                                                      *)
Keeps(c) ==
  /\ Alone(c) /\ UNCHANGED editsRaced /\ editsOvertaken \subseteq editsOvertaken'
  /\ \A f \in Files : lock[f] \notin {None, c} =>
       lock'[f] = lock[f] /\ disk'[f] = disk[f] /\ bak'[f] = bak[f]
  /\ \A f \in Files :
       disk'[f] = disk[f] \/ \A d \in Calls \ {c} :
                                Edits!At(d, "put") /\ editsCall[d].src = f => f \in editsOvertaken'

LEMMA EditsOthers ==
  ASSUME EditsTypes, EditsCalls, NEW c \in Calls, Keeps(c), NEW d \in Calls, d # c
  PROVE  EditsCall(d)'
<1>1. d # None  BY NoneIsNoRecord
<1>2. editsCall'[d] = editsCall[d]  BY DEF Keeps, Alone
<1>3. \A f \in Files : lock[f] = d => lock'[f] = d /\ disk'[f] = disk[f] /\ bak'[f] = bak[f]
  BY <1>1 DEF Keeps
<1>4. Edits!At(d, "put") => editsCall[d].src \in Files
  BY EditsLiveRecord DEF Edits!At, EditRecord
<1>5. Edits!At(d, "put") =>
        LET f == editsCall[d].src IN disk'[f] = disk[f] \/ f \in editsOvertaken'
  BY <1>4 DEF Keeps
<1>6. Undisturbed(d)  BY <1>2, <1>3, <1>5 DEF Undisturbed, Keeps
<1>7. EditsCall(d)  BY DEF EditsCalls
<1> QED  BY <1>6, <1>7, EditsUndisturbed

LEMMA EditsLocksKept ==
  ASSUME EditsTypes, NEW c \in Calls,
         \/ UNCHANGED lock \/ lock' = Edits!Drop(c)
         \/ \E g \in Files : lock[g] = None /\ lock' = [lock EXCEPT ![g] = c]
  PROVE  \A f \in Files : lock[f] \notin {None, c} => lock'[f] = lock[f]
BY DEF EditsTypes, Edits!TypeOK, Edits!Drop

LEMMA EditsWriteKeeps ==
  ASSUME EditsTypes, NEW c \in Calls, NEW g \in Files, NEW text,
         lock[g] = c, Edits!Put(g, text), Edits!Overtakes(c, g)
  PROVE  /\ \A f \in Files : lock[f] \notin {None, c} => disk'[f] = disk[f]
         /\ editsOvertaken \subseteq editsOvertaken'
         /\ \A f \in Files :
              disk'[f] = disk[f] \/ \A d \in Calls \ {c} :
                Edits!At(d, "put") /\ editsCall[d].src = f => f \in editsOvertaken'
<1>1. \A f \in Files : f # g => disk'[f] = disk[f]
  BY DEF EditsTypes, Edits!TypeOK, Edits!Put
<1>2. /\ editsOvertaken \subseteq editsOvertaken'
      /\ \A d \in Calls \ {c} : Edits!At(d, "put") /\ editsCall[d].src = g => g \in editsOvertaken'
  BY DEF Edits!Overtakes
<1> QED  BY <1>1, <1>2

LEMMA EditsStepKeeps ==
  ASSUME EditsTypes, EditsCalls, NEW c \in Calls, Edits!Step(c) PROVE Keeps(c)
<1> DEFINE k == editsCall[c]
<1>1. Edits!Live(c) /\ k \in EditRecord  BY EditsAreAtWork
<1>2. k.src \in Files /\ k.dst \in Files /\ k.at \in Files
      /\ k.kind \in Edits!Threads \cup Edits!OnLoop
  BY <1>1 DEF EditRecord
<1>3. EditsPlaced(c) /\ EditsHeld(c)  BY <1>1 DEF EditsCalls, EditsCall
<1>4. ASSUME Alone(c), UNCHANGED <<disk, bak, editsRaced, editsOvertaken>>,
             \/ UNCHANGED lock \/ lock' = Edits!Drop(c)
             \/ \E g \in Files : lock[g] = None /\ lock' = [lock EXCEPT ![g] = c]
      PROVE  Keeps(c)
  BY <1>4, EditsLocksKept DEF Keeps
<1>5. CASE Edits!Take(c)
  <2>1. Alone(c)  BY <1>1, <1>5, EditsStepGoes DEF Goes
  <2> QED  BY <1>2, <1>4, <1>5, <2>1 DEF Edits!Take
<1>6. CASE Edits!Refuse(c)
  BY <1>1, <1>4, <1>6, EditsStepGoes DEF Edits!Refuse, Edits!Over
<1>7. CASE Edits!TakeAndKeep(c)
  <2>1. Alone(c)  BY <1>1, <1>7, EditsStepGoes DEF Goes
  <2>2. lock[k.src] = None /\ lock' = [lock EXCEPT ![k.src] = c]
        /\ UNCHANGED <<disk, editsRaced, editsOvertaken>>
        /\ \A f \in Files : f # k.src => bak'[f] = bak[f]
    BY <1>2, <1>7 DEF Edits!TakeAndKeep, EditsTypes, Edits!TypeOK
  <2>3. \A f \in Files : lock[f] \notin {None, c} => lock'[f] = lock[f]
    BY <1>2, <2>2, EditsLocksKept
  <2>4. \A f \in Files : lock[f] \notin {None, c} => bak'[f] = bak[f]  BY <2>2
  <2> QED  BY <2>1, <2>2, <2>3, <2>4 DEF Keeps
<1>8. CASE Edits!TakeSecond(c)
  <2>1. Alone(c)  BY <1>1, <1>8, EditsStepGoes DEF Goes
  <2> QED  BY <1>2, <1>4, <1>8, <2>1 DEF Edits!TakeSecond
<1>9. CASE Edits!Check(c)
  <2>1. Alone(c) /\ (UNCHANGED lock \/ lock' = Edits!Drop(c))
    BY <1>1, <1>9, EditsStepGoes DEF Goes, Edits!Over
  <2> QED  BY <1>4, <1>9, <2>1 DEF Edits!Check
<1>10. CASE Edits!Rename(c)
  <2>1. Alone(c)  BY <1>1, <1>2, <1>10, EditsStepGoes DEF Goes
  <2>2. lock[k.at] = c  BY <1>3, <1>10 DEF Edits!Rename, Edits!At, EditsHeld
  <2>3. Edits!Put(k.at, Edits!NewText(c)) /\ Edits!Overtakes(c, k.at) /\ UNCHANGED <<bak, editsRaced>>
        /\ (UNCHANGED lock \/ lock' = Edits!Drop(c))
    BY <1>10 DEF Edits!Rename, Edits!Over
  <2> HIDE DEF k
  <2>4. \A f \in Files : lock[f] \notin {None, c} => lock'[f] = lock[f]  BY <2>3, EditsLocksKept
  <2> QED  BY <1>2, <2>1, <2>2, <2>3, <2>4, EditsWriteKeeps DEF Keeps
<1>11. CASE Edits!CutSource(c)
  <2>1. Alone(c)  BY <1>1, <1>11, EditsStepGoes DEF Goes
  <2>2. lock[k.src] = c
    BY <1>3, <1>11 DEF Edits!CutSource, Edits!At, EditsHeld, EditsPlaced
  <2>3. Edits!Put(k.src, Edits!Without(k.text[k.src], k.src)) /\ Edits!Overtakes(c, k.src)
        /\ UNCHANGED <<bak, editsRaced>> /\ lock' = Edits!Drop(c)
    BY <1>11 DEF Edits!CutSource
  <2> HIDE DEF k
  <2>4. \A f \in Files : lock[f] \notin {None, c} => lock'[f] = lock[f]  BY <2>3, EditsLocksKept
  <2> QED  BY <1>2, <2>1, <2>2, <2>3, <2>4, EditsWriteKeeps DEF Keeps
<1>12. CASE Edits!WriteFails(c)
  BY <1>1, <1>4, <1>12, EditsStepGoes DEF Edits!WriteFails, Edits!Over
<1>13. CASE Edits!PutsInCache(c)
  BY <1>1, <1>4, <1>13, EditsStepGoes DEF Edits!PutsInCache, Edits!Over
<1>14. CASE Edits!Scan(c)
  <2>1. Alone(c)  BY <1>1, <1>14, EditsStepGoes DEF Goes
  <2> QED  BY <1>4, <1>14, <2>1 DEF Edits!Scan
<1>15. CASE Edits!Verify(c)
  <2>1. Alone(c)  BY <1>1, <1>15, EditsStepGoes DEF Goes
  <2> QED  BY <1>4, <1>15, <2>1 DEF Edits!Verify
<1>16. ASSUME NEW f \in Files, Edits!Apply(c, f) PROVE Keeps(c)
  <2>1. /\ Alone(c)
        /\ \/ lock' = Edits!Drop(c)
           \/ lock[f] = None /\ lock' = [lock EXCEPT ![f] = c]
    BY <1>1, <1>16, EditsStepGoes DEF Goes, Edits!Over
  <2> QED  BY <1>4, <1>16, <2>1 DEF Edits!Apply
<1> QED
  BY <1>5, <1>6, <1>7, <1>8, <1>9, <1>10, <1>11, <1>12, <1>13, <1>14, <1>15, <1>16 DEF Edits!Step

(* The record, the locks and the texts of the call that makes the step.     *)
LEMMA EditsOwn ==
  ASSUME EditsTypes, EditsCalls, NEW c \in Calls, Edits!Step(c) PROVE EditsCall(c)'
<1> DEFINE k == editsCall[c]
           r == editsCall'[c]
<1>1. Edits!Live(c) /\ k \in EditRecord  BY EditsAreAtWork
<1>2. k.src \in Files /\ k.dst \in Files /\ k.at \in Files
      /\ k.kind \in Edits!Threads \cup Edits!OnLoop /\ k.text \in [Files -> Edits!Texts]
  BY <1>1 DEF EditRecord
<1>3. EditsPlaced(c) /\ EditsHeld(c) /\ EditsRead(c) /\ EditsPuts(c)
  BY <1>1 DEF EditsCalls, EditsCall
<1>4. ASSUME r = Ended PROVE EditsCall(c)'  BY <1>4 DEF EditsCall, Edits!Live
<1>5. ASSUME EditsPlaced(c)', EditsHeld(c)', EditsRead(c)', EditsPuts(c)' PROVE EditsCall(c)'
  BY <1>5 DEF EditsCall
<1>6. lock \in [Files -> Calls \cup {None}] /\ None # c /\ disk \in [Files -> Edits!Texts]
      /\ bak \in [Files -> Edits!Texts]
  BY NoneIsNoRecord DEF EditsTypes, Edits!TypeOK
<1>7. ASSUME Edits!Over(c) PROVE EditsCall(c)'  BY <1>1, <1>4, <1>7, EditsStepGoes
<1>8. CASE Edits!Take(c)
  <2>1. Goes(c, IF k.kind = "move" THEN "second" ELSE "check", k.at,
             [k.text EXCEPT ![k.src] = disk[k.src]], k.left)
    BY <1>1, <1>8, EditsStepGoes
  <2>2. k.step = "lock" /\ k.kind # "write" /\ lock' = [lock EXCEPT ![k.src] = c]
    BY <1>8 DEF Edits!Take, Edits!At
  <2>3. r.kind = k.kind /\ r.src = k.src /\ r.dst = k.dst
        /\ r.step = (IF k.kind = "move" THEN "second" ELSE "check")
    BY <2>1 DEF Goes
  <2> HIDE DEF k, r
  <2>4. EditsPlaced(c)'  BY <1>3, <2>2, <2>3 DEF EditsPlaced, k, r
  <2>5. EditsHeld(c)'
    <3>1. lock'[k.src] = c  BY <1>2, <1>6, <2>2
    <3> QED  BY <2>3, <3>1 DEF EditsHeld, k, r
  <2>6. EditsRead(c)' /\ EditsPuts(c)'  BY <2>3 DEF EditsRead, EditsPuts, r
  <2> QED  BY <1>5, <2>4, <2>5, <2>6
<1>9. CASE Edits!TakeAndKeep(c)
  <2>1. Goes(c, "rename", k.at, k.text, k.left)  BY <1>1, <1>9, EditsStepGoes
  <2>2. /\ k.step = "lock" /\ k.kind = "write" /\ lock' = [lock EXCEPT ![k.src] = c]
        /\ bak' = (IF disk[k.src] # {} THEN [bak EXCEPT ![k.src] = disk[k.src]] ELSE bak)
        /\ UNCHANGED <<disk, editsRaced>>
    BY <1>9 DEF Edits!TakeAndKeep, Edits!At
  <2>3. r.kind = "write" /\ r.src = k.src /\ r.dst = k.src /\ r.step = "rename" /\ r.at = k.src
    BY <1>3, <2>1, <2>2 DEF Goes, EditsPlaced
  <2>4. lock'[k.src] = c /\ disk'[k.src] \subseteq bak'[k.src]  BY <1>2, <1>6, <2>2
  <2> HIDE DEF k, r
  <2>5. EditsPlaced(c)' /\ EditsHeld(c)'  BY <2>3, <2>4 DEF EditsPlaced, EditsHeld, k, r
  <2>6. EditsRead(c)' /\ EditsPuts(c)'  BY <2>3, <2>4 DEF EditsRead, EditsPuts, r
  <2> QED  BY <1>5, <2>5, <2>6
<1>10. CASE Edits!TakeSecond(c)
  <2>1. Goes(c, "check", k.at, [k.text EXCEPT ![k.dst] = disk[k.dst]], k.left)
    BY <1>1, <1>10, EditsStepGoes
  <2>2. k.step = "second" /\ lock[k.dst] = None /\ lock' = [lock EXCEPT ![k.dst] = c]
    BY <1>10 DEF Edits!TakeSecond, Edits!At
  <2>3. r.kind = "move" /\ r.src = k.src /\ r.dst = k.dst /\ r.step = "check"
    BY <1>3, <2>1, <2>2 DEF Goes, EditsPlaced
  <2>4. lock[k.src] = c  BY <1>3, <2>2 DEF EditsHeld, EditsPlaced
  <2>5. lock'[k.src] = c /\ lock'[k.dst] = c /\ k.src # k.dst  BY <1>2, <1>6, <2>2, <2>4
  <2> HIDE DEF k, r
  <2>6. EditsPlaced(c)' /\ EditsHeld(c)'  BY <2>3, <2>5 DEF EditsPlaced, EditsHeld, k, r
  <2>7. EditsRead(c)' /\ EditsPuts(c)'  BY <2>3 DEF EditsRead, EditsPuts, r
  <2> QED  BY <1>5, <2>6, <2>7
<1>11. ASSUME Edits!Check(c), ~Edits!Over(c) PROVE EditsCall(c)'
  <2>1. /\ UNCHANGED lock /\ Goes(c, "rename", k.dst, k.text, k.left)
        /\ Edits!Unchanged(c, k.src)
        /\ k.dst # k.src /\ disk[k.dst] # {} => Edits!Unchanged(c, k.dst)
    BY <1>1, <1>11, EditsStepGoes
  <2>2. k.step = "check" /\ UNCHANGED <<disk, editsRaced>>
    BY <1>11 DEF Edits!Check, Edits!At
  <2>3. r.kind = k.kind /\ r.src = k.src /\ r.dst = k.dst /\ r.step = "rename" /\ r.at = k.dst
        /\ r.text = k.text
    BY <2>1 DEF Goes
  <2>4. disk[k.src] = k.text[k.src] /\ disk[k.dst] \subseteq k.text[k.dst]
    BY <2>1 DEF Edits!Unchanged
  <2>5. k.kind \notin {"project", "write"} /\ lock[k.src] = c /\ lock[k.dst] = c
    BY <1>3, <2>2 DEF EditsPlaced, EditsHeld
  <2> HIDE DEF k, r
  <2>6. EditsPlaced(c)'  BY <1>3, <2>2, <2>3, <2>5 DEF EditsPlaced, k, r
  <2>7. EditsHeld(c)'  BY <2>1, <2>3, <2>5 DEF EditsHeld, k, r
  <2>8. EditsRead(c)' /\ EditsPuts(c)'
    BY <2>2, <2>3, <2>4, <2>5 DEF EditsRead, EditsPuts, r
  <2> QED  BY <1>5, <2>6, <2>7, <2>8
<1>12. CASE Edits!Rename(c)
  <2>1. /\ k.step = "rename" /\ UNCHANGED editsRaced
        /\ Edits!Put(k.at, Edits!NewText(c))
    BY <1>12 DEF Edits!Rename, Edits!At
  <2>2. disk' = [disk EXCEPT ![k.at] = Edits!NewText(c)]  BY <2>1 DEF Edits!Put
  <2>3. CASE k.kind = "move"
    <3>1. Goes(c, "cut", k.at, k.text, k.left) /\ UNCHANGED lock
      BY <1>1, <1>12, <2>3, EditsStepGoes DEF Edits!Rename, Edits!OnLoop
    <3>2. r.kind = "move" /\ r.src = k.src /\ r.dst = k.dst /\ r.step = "cut" /\ r.text = k.text
      BY <2>3, <3>1 DEF Goes
    <3>3. /\ k.at = k.dst /\ k.dst # k.src /\ lock[k.src] = c /\ lock[k.dst] = c
          /\ disk[k.src] \subseteq k.text[k.src] \cup editsRaced
      BY <1>3, <2>1, <2>3 DEF EditsPlaced, EditsHeld, EditsRead
    <3>4. SymbolOf[k.src] \in Edits!NewText(c)  BY <2>3 DEF Edits!NewText
    <3>5. disk'[k.src] = disk[k.src] /\ SymbolOf[k.src] \in disk'[k.dst]
      BY <1>2, <1>6, <2>2, <3>3, <3>4
    <3> HIDE DEF k, r
    <3>6. EditsPlaced(c)' /\ EditsHeld(c)'
      BY <3>1, <3>2, <3>3 DEF EditsPlaced, EditsHeld, r
    <3>7. EditsRead(c)' /\ EditsPuts(c)'
      BY <2>1, <3>2, <3>3, <3>5 DEF EditsRead, EditsPuts, r
    <3> QED  BY <1>5, <3>6, <3>7
  <2>4. CASE k.kind = "project"
    <3>1. r = Ended \/ \E left : Goes(c, "apply", k.at, k.text, left)
      BY <1>1, <1>12, <2>4, EditsStepGoes
    <3>2. ASSUME NEW left, Goes(c, "apply", k.at, k.text, left) PROVE EditsCall(c)'
      <4>1. r.kind = "project" /\ r.src = k.src /\ r.dst = k.dst /\ r.step = "apply"
        BY <2>4, <3>2 DEF Goes
      <4>2. k.dst = k.src  BY <1>3, <2>4 DEF EditsPlaced
      <4> HIDE DEF k, r
      <4>3. EditsPlaced(c)' /\ EditsHeld(c)' /\ EditsRead(c)' /\ EditsPuts(c)'
        BY <4>1, <4>2 DEF EditsPlaced, EditsHeld, EditsRead, EditsPuts, r
      <4> QED  BY <1>5, <4>3
    <3> QED  BY <1>4, <3>1, <3>2
  <2>5. CASE k.kind \in Edits!OnLoop
    BY <1>1, <1>4, <1>12, <2>5, EditsStepGoes
  <2>6. CASE k.kind \in Edits!Threads \ {"move", "project"}
    <3>1. Goes(c, "put", k.at, k.text, k.left)  BY <1>1, <1>12, <2>6, EditsStepGoes
    <3>2. r.kind = k.kind /\ r.src = k.src /\ r.dst = k.dst /\ r.step = "put" /\ r.text = k.text
      BY <3>1 DEF Goes
    <3>3. k.at = k.src /\ k.dst = k.src  BY <1>3, <2>1, <2>6 DEF EditsPlaced
    <3>4. k.kind = "edit" => Edits!NewText(c) = k.text[k.src] \cup {c}
      BY <3>3 DEF Edits!NewText
    <3>5. k.kind = "edit" => disk'[k.src] = k.text[k.src] \cup {c}
      BY <1>2, <1>6, <2>2, <3>3, <3>4
    <3> HIDE DEF k, r
    <3>6. EditsPlaced(c)' /\ EditsHeld(c)' /\ EditsRead(c)' /\ EditsPuts(c)'
      BY <3>2, <3>3, <3>5 DEF EditsPlaced, EditsHeld, EditsRead, EditsPuts, r
    <3> QED  BY <1>5, <3>6
  <2> QED  BY <1>2, <2>3, <2>4, <2>5, <2>6
<1>13. CASE Edits!CutSource(c)
  <2>1. Goes(c, "put", k.at, k.text, k.left) /\ k.step = "cut"
    BY <1>1, <1>13, EditsStepGoes DEF Edits!CutSource, Edits!At
  <2>2. r.kind = "move" /\ r.step = "put"  BY <1>3, <2>1 DEF Goes, EditsPlaced
  <2> HIDE DEF k, r
  <2>3. EditsPlaced(c)' /\ EditsHeld(c)' /\ EditsRead(c)' /\ EditsPuts(c)'
    BY <2>2 DEF EditsPlaced, EditsHeld, EditsRead, EditsPuts, r
  <2> QED  BY <1>5, <2>3
<1>14. CASE Edits!Scan(c) \/ Edits!Verify(c)
  <2>1. r = Ended \/ \E s \in {"verify", "apply"} : \E text, left : Goes(c, s, k.at, text, left)
    BY <1>1, <1>14, EditsStepGoes
  <2>2. k.kind = "project" /\ k.dst = k.src
    BY <1>3, <1>14 DEF Edits!Scan, Edits!Verify, Edits!At, EditsPlaced
  <2>3. ASSUME NEW s \in {"verify", "apply"}, NEW text, NEW left, Goes(c, s, k.at, text, left)
        PROVE  EditsCall(c)'
    <3>1. r.kind = "project" /\ r.src = k.src /\ r.dst = k.src /\ r.step \in {"verify", "apply"}
      BY <2>2, <2>3 DEF Goes
    <3> HIDE DEF k, r
    <3>2. EditsPlaced(c)' /\ EditsHeld(c)' /\ EditsRead(c)' /\ EditsPuts(c)'
      BY <3>1 DEF EditsPlaced, EditsHeld, EditsRead, EditsPuts, r
    <3> QED  BY <1>5, <3>2
  <2> QED  BY <1>4, <2>1, <2>3
<1>15. ASSUME NEW f \in Files, Edits!Apply(c, f), ~Edits!Over(c) PROVE EditsCall(c)'
  <2>1. /\ lock' = [lock EXCEPT ![f] = c] /\ Goes(c, "rename", f, k.text, k.left)
        /\ Edits!Unchanged(c, f)
    BY <1>1, <1>15, EditsStepGoes
  <2>2. k.step = "apply" /\ UNCHANGED <<disk, editsRaced>>
    BY <1>15 DEF Edits!Apply, Edits!At
  <2>3. k.kind = "project" /\ k.dst = k.src  BY <1>3, <2>2 DEF EditsPlaced
  <2>4. r.kind = "project" /\ r.src = k.src /\ r.dst = k.src /\ r.step = "rename" /\ r.at = f
        /\ r.text = k.text
    BY <2>1, <2>3 DEF Goes
  <2>5. lock'[f] = c /\ disk'[f] = k.text[f]  BY <1>6, <2>1, <2>2 DEF Edits!Unchanged
  <2> HIDE DEF k, r
  <2>6. EditsPlaced(c)' /\ EditsHeld(c)'  BY <2>4, <2>5 DEF EditsPlaced, EditsHeld, r
  <2>7. EditsRead(c)' /\ EditsPuts(c)'  BY <2>4, <2>5 DEF EditsRead, EditsPuts, r
  <2> QED  BY <1>5, <2>6, <2>7
<1>16. ASSUME Edits!Refuse(c) \/ Edits!WriteFails(c) \/ Edits!PutsInCache(c) PROVE EditsCall(c)'
  BY <1>7, <1>16 DEF Edits!Refuse, Edits!WriteFails, Edits!PutsInCache
<1> QED
  BY <1>7, <1>8, <1>9, <1>10, <1>11, <1>12, <1>13, <1>14, <1>15, <1>16 DEF Edits!Step

LEMMA EditsCallsStep == EditsTypes /\ EditsCalls /\ [Edits!Next]_editsVars => EditsCalls'
<1> SUFFICES ASSUME EditsTypes, EditsCalls, [Edits!Next]_editsVars PROVE EditsCalls'  OBVIOUS
<1>1. ASSUME \A d \in Calls : Undisturbed(d) PROVE EditsCalls'
  BY <1>1, EditsUndisturbed DEF EditsCalls
<1>2. ASSUME NEW c \in Calls, Keeps(c), EditsCall(c)' PROVE EditsCalls'
  BY <1>2, EditsOthers DEF EditsCalls
<1>3. ASSUME NEW c \in Calls, NEW plan \in Plans[c], Edits!Start(c, plan[1], plan[2], plan[3])
      PROVE  EditsCalls'
  <2> DEFINE r == editsCall'[c]
  <2>1. DOMAIN editsCall = Calls  BY DEF EditsTypes
  <2>2. /\ r.kind = plan[1] /\ r.src = plan[2] /\ r.dst = plan[3] /\ r.at = plan[2]
        /\ r.step = (IF plan[1] = "project" THEN "scan" ELSE "lock")
    BY <1>3, <2>1 DEF Edits!Start
  <2>3. plan[1] # "move" => plan[2] = plan[3]  BY PlansAreEdits
  <2>4. EditsPlaced(c)' /\ EditsHeld(c)' /\ EditsRead(c)' /\ EditsPuts(c)'
    BY <2>2, <2>3 DEF EditsPlaced, EditsHeld, EditsRead, EditsPuts
  <2>5. Alone(c)  BY <1>3, <2>1 DEF Edits!Start, Alone
  <2>6. Keeps(c)  BY <1>3, <2>5 DEF Edits!Start, Keeps
  <2> QED  BY <1>2, <2>4, <2>6 DEF EditsCall
<1>4. ASSUME NEW c \in Calls, Edits!Step(c) PROVE EditsCalls'
  BY <1>2, <1>4, EditsStepKeeps, EditsOwn
<1>5. ASSUME NEW f \in Files, Edits!ReadFile(f) PROVE EditsCalls'
  BY <1>1, <1>5 DEF Edits!ReadFile, Undisturbed
<1>6. ASSUME NEW f \in Files, NEW e \in Editors, Edits!Save(e, f) PROVE EditsCalls'
  <2> SUFFICES ASSUME NEW d \in Calls PROVE Undisturbed(d)  BY <1>1
  <2>1. /\ UNCHANGED <<bak, lock, editsCall>>
        /\ editsRaced' = (IF Edits!Committed(f) # {} THEN editsRaced \cup {e} ELSE editsRaced)
        /\ Edits!Overtakes(None, f)
    BY <1>6 DEF Edits!Save
  <2>2. /\ \A g \in Files : g # f => disk'[g] = disk[g]
        /\ disk'[f] = disk[f] \cup {e}
    BY <1>6 DEF Edits!Save, Edits!Put, EditsTypes, Edits!TypeOK
  <2>3. d # None  BY NoneIsNoRecord
  <2>4. /\ editsOvertaken \subseteq editsOvertaken'
        /\ Edits!At(d, "put") /\ editsCall[d].src = f => f \in editsOvertaken'
    BY <2>1, <2>3 DEF Edits!Overtakes
  <2>5. Edits!At(d, "put") => editsCall[d].src \in Files
    BY EditsLiveRecord DEF Edits!At, EditRecord
  <2>6. \A g \in Files : /\ disk[g] \subseteq disk'[g]
                         /\ d \in Edits!Committed(g) => disk'[g] \subseteq disk[g] \cup editsRaced'
    BY <2>1, <2>2
  <2> QED  BY <2>1, <2>2, <2>4, <2>5, <2>6 DEF Undisturbed
<1>7. CASE Edits!Crash
  <2>1. \A c \in Calls : ~Edits!Live(c)'  BY <1>7 DEF Edits!Crash, Edits!Live
  <2> QED  BY <2>1 DEF EditsCalls, EditsCall
<1>8. CASE UNCHANGED editsVars
  BY <1>1, <1>8 DEF editsVars, Undisturbed
<1> QED  BY <1>3, <1>4, <1>5, <1>6, <1>7, <1>8 DEF Edits!Next

LEMMA EditsCacheKept ==
  ASSUME EditsTypes, EditsCache, \A f \in Files : cache'[f] \in {None, cache[f]},
         editsOvertaken \subseteq editsOvertaken',
         \/ UNCHANGED <<disk, stamp>>
         \/ \E g \in Files : \E text : Edits!Put(g, text)
  PROVE  EditsCache'
<1> SUFFICES ASSUME NEW f \in Files, cache'[f] # None
             PROVE  /\ cache'[f].stamp <= stamp'[f]
                    /\ cache'[f].stamp = stamp'[f] =>
                         cache'[f].text = disk'[f] \/ f \in editsOvertaken'
  BY DEF EditsCache
<1>1. /\ cache'[f] = cache[f] /\ cache[f].stamp \in Nat /\ stamp[f] \in Nat
      /\ cache[f].stamp <= stamp[f]
      /\ cache[f].stamp = stamp[f] => cache[f].text = disk[f] \/ f \in editsOvertaken
  BY DEF EditsTypes, Edits!TypeOK, EditsCache
<1>2. CASE disk'[f] = disk[f] /\ stamp'[f] = stamp[f]  BY <1>1, <1>2
<1>3. CASE stamp'[f] = stamp[f] + 1  BY <1>1, <1>3
<1>4. stamp'[f] = stamp[f] + 1 \/ (disk'[f] = disk[f] /\ stamp'[f] = stamp[f])
  BY DEF Edits!Put, EditsTypes, Edits!TypeOK
<1> QED  BY <1>2, <1>3, <1>4

LEMMA EditsCacheStep == EditsTypes /\ EditsCalls /\ EditsCache /\ [Edits!Next]_editsVars => EditsCache'
<1> SUFFICES ASSUME EditsTypes, EditsCalls, EditsCache, [Edits!Next]_editsVars PROVE EditsCache'
  OBVIOUS
<1>1. ASSUME UNCHANGED <<cache, disk, stamp, editsOvertaken>> PROVE EditsCache'
  BY <1>1 DEF EditsCache
<1>2. ASSUME NEW c \in Calls, NEW plan \in Plans[c], Edits!Start(c, plan[1], plan[2], plan[3])
      PROVE  EditsCache'
  BY <1>1, <1>2 DEF Edits!Start
<1>3. ASSUME NEW c \in Calls, Edits!Step(c) PROVE EditsCache'
  <2> DEFINE k == editsCall[c]
  <2>1. Edits!Live(c) /\ k \in EditRecord  BY <1>3, EditsAreAtWork
  <2>2. k.src \in Files /\ k.at \in Files  BY <2>1 DEF EditRecord
  <2>3. CASE Edits!Rename(c)
    <3>1. /\ Edits!Put(k.at, Edits!NewText(c)) /\ Edits!Overtakes(c, k.at)
          /\ UNCHANGED cache \/ cache' = Edits!Popped({k.at})
      BY <2>3 DEF Edits!Rename
    <3>2. \A f \in Files : cache'[f] \in {None, cache[f]}  BY <3>1 DEF Edits!Popped
    <3> QED  BY <2>2, <3>1, <3>2, EditsCacheKept DEF Edits!Overtakes
  <2>4. CASE Edits!CutSource(c)
    BY <2>2, <2>4, EditsCacheKept DEF Edits!CutSource, Edits!Overtakes
  <2>5. CASE Edits!PutsInCache(c)
    <3>1. k.step = "put" /\ UNCHANGED <<disk, stamp, editsOvertaken>>
      BY <2>5 DEF Edits!PutsInCache, Edits!At
    <3>2. CASE k.kind = "edit"
      <4>1. cache' = [cache EXCEPT ![k.src] = [stamp |-> stamp[k.src], text |-> k.text[k.src] \cup {c}]]
        BY <2>5, <3>2 DEF Edits!PutsInCache
      <4>2. disk[k.src] = k.text[k.src] \cup {c} \/ k.src \in editsOvertaken
        BY <2>1, <3>1, <3>2 DEF EditsCalls, EditsCall, EditsPuts
      <4>3. DOMAIN cache = Files /\ stamp[k.src] \in Nat  BY <2>2 DEF EditsTypes, Edits!TypeOK
      <4> HIDE DEF k
      <4>4. /\ cache'[k.src].stamp = stamp[k.src]
            /\ cache'[k.src].text = k.text[k.src] \cup {c}
            /\ \A f \in Files : f # k.src => cache'[f] = cache[f]
        BY <2>2, <4>1, <4>3
      <4>5. ASSUME NEW f \in Files, cache'[f] # None
            PROVE  /\ cache'[f].stamp <= stamp[f]
                   /\ cache'[f].stamp = stamp[f] => cache'[f].text = disk[f] \/ f \in editsOvertaken
        <5>1. CASE f = k.src
          <6>1. cache'[f].stamp = stamp[f] /\ stamp[f] \in Nat  BY <4>3, <4>4, <5>1
          <6>2. cache'[f].text = disk[f] \/ f \in editsOvertaken  BY <4>2, <4>4, <5>1
          <6>3. cache'[f].stamp <= stamp[f]  BY <6>1
          <6> QED  BY <6>2, <6>3
        <5>2. CASE f # k.src
          <6>1. cache'[f] = cache[f]  BY <4>4, <5>2
          <6> QED  BY <4>5, <6>1 DEF EditsCache
        <5> QED  BY <5>1, <5>2
      <4> QED  BY <3>1, <4>5 DEF EditsCache
    <3>3. CASE k.kind # "edit"
      <4>1. cache' = Edits!Popped({k.src, k.dst})  BY <2>5, <3>3 DEF Edits!PutsInCache
      <4>2. \A f \in Files : cache'[f] \in {None, cache[f]}  BY <4>1 DEF Edits!Popped
      <4> QED  BY <3>1, <4>2, EditsCacheKept
    <3> QED  BY <3>2, <3>3
  <2>6. CASE \/ Edits!Take(c) \/ Edits!Refuse(c) \/ Edits!TakeAndKeep(c) \/ Edits!TakeSecond(c)
             \/ Edits!Check(c) \/ Edits!WriteFails(c) \/ Edits!Scan(c) \/ Edits!Verify(c)
             \/ \E f \in Files : Edits!Apply(c, f)
    BY <1>1, <2>6 DEF Edits!Take, Edits!Refuse, Edits!TakeAndKeep, Edits!TakeSecond, Edits!Check,
       Edits!WriteFails, Edits!Scan, Edits!Verify, Edits!Apply
  <2> QED  BY <1>3, <2>3, <2>4, <2>5, <2>6 DEF Edits!Step
<1>4. ASSUME NEW f \in Files, Edits!ReadFile(f) PROVE EditsCache'
  BY <1>1, <1>4 DEF Edits!ReadFile
<1>5. ASSUME NEW f \in Files, NEW e \in Editors, Edits!Save(e, f) PROVE EditsCache'
  BY <1>5, EditsCacheKept DEF Edits!Save, Edits!Overtakes
<1>6. CASE Edits!Crash
  BY <1>6 DEF Edits!Crash, EditsCache
<1>7. CASE UNCHANGED editsVars  BY <1>1, <1>7 DEF editsVars
<1> QED  BY <1>2, <1>3, <1>4, <1>5, <1>6, <1>7 DEF Edits!Next

LEMMA EditsStep == EditsInv /\ [Edits!Next]_editsVars => EditsInv'
BY EditsTypeStep, EditsCallsStep, EditsCacheStep DEF EditsInv

LEMMA EditsAlways == Spec => []EditsInv
<1>1. Init => EditsInv  BY EditsInit DEF Init
<1>2. EditsInv /\ [Next]_vars => EditsInv'  BY ComponentSteps, EditsStep
<1> QED  BY <1>1, <1>2, PTL DEF Spec

(* What a step takes out of a file is elsewhere, or was asked for.          *)
Accounted ==
  \A f \in Files : \A i \in disk[f] \ disk'[f] :
    \/ \E g \in Files \ {f} : i \in disk'[g]
    \/ i \in bak'[f]
    \/ i \in editsRaced
    \/ Edits!Asked(f, i)

LEMMA EditsAccount == EditsInv /\ [Edits!Next]_editsVars => Accounted
<1> SUFFICES ASSUME EditsInv, [Edits!Next]_editsVars PROVE Accounted  OBVIOUS
<1>t. EditsTypes /\ EditsCalls  BY DEF EditsInv
<1>1. ASSUME UNCHANGED disk PROVE Accounted  BY <1>1 DEF Accounted
<1>2. ASSUME NEW c \in Calls, Edits!Rename(c) PROVE Accounted
  <2> DEFINE k == editsCall[c]
  <2>1. Edits!Live(c) /\ k \in EditRecord /\ k.step = "rename"
    BY <1>2, <1>t, EditsAreAtWork DEF Edits!Step, Edits!Rename, Edits!At
  <2>2. k.src \in Files /\ k.at \in Files  BY <2>1 DEF EditRecord
  <2>3. EditsPlaced(c) /\ EditsRead(c)  BY <1>t, <2>1 DEF EditsCalls, EditsCall
  <2>4. /\ disk'[k.at] = Edits!NewText(c) /\ \A f \in Files : f # k.at => disk'[f] = disk[f]
        /\ UNCHANGED bak
    BY <1>2, <1>t, <2>2 DEF Edits!Rename, Edits!Put, EditsTypes, Edits!TypeOK
  <2> SUFFICES ASSUME NEW i \in disk[k.at], i \notin Edits!NewText(c)
               PROVE  i \in bak[k.at] \/ i \in editsRaced \/ Edits!Asked(k.at, i)
    BY <2>2, <2>4 DEF Accounted
  <2>5. CASE k.kind = "write"
    <3>1. k.at = k.src  BY <2>1, <2>3, <2>5 DEF EditsPlaced
    <3> QED  BY <2>1, <2>3, <2>5, <3>1 DEF EditsRead
  <2>6. CASE k.kind = "cut"
    <3>1. k.at = k.src /\ Edits!NewText(c) = Edits!Without(k.text[k.at], k.src)
      BY <2>1, <2>3, <2>6 DEF EditsPlaced, Edits!NewText
    <3>2. i \in editsRaced \/ i = SymbolOf[k.src]
      BY <2>1, <2>3, <2>6, <3>1 DEF EditsRead, Edits!Without
    <3> QED  BY <2>1, <2>6, <3>1, <3>2 DEF Edits!Asked
  <2>7. CASE k.kind \notin {"write", "cut"}
    <3>1. k.text[k.at] \subseteq Edits!NewText(c)  BY <2>7 DEF Edits!NewText
    <3> QED  BY <2>1, <2>3, <2>7, <3>1 DEF EditsRead
  <2> QED  BY <2>5, <2>6, <2>7
<1>3. ASSUME NEW c \in Calls, Edits!CutSource(c) PROVE Accounted
  <2> DEFINE k == editsCall[c]
  <2>1. Edits!Live(c) /\ k \in EditRecord /\ k.step = "cut"
    BY <1>3, <1>t, EditsAreAtWork DEF Edits!Step, Edits!CutSource, Edits!At
  <2>2. k.src \in Files /\ k.dst \in Files  BY <2>1 DEF EditRecord
  <2>3. EditsPlaced(c) /\ EditsRead(c)  BY <1>t, <2>1 DEF EditsCalls, EditsCall
  <2>4. /\ disk'[k.src] = k.text[k.src] \ {SymbolOf[k.src]}
        /\ \A f \in Files : f # k.src => disk'[f] = disk[f]
    BY <1>3, <1>t, <2>2 DEF Edits!CutSource, Edits!Put, Edits!Without, EditsTypes, Edits!TypeOK
  <2>5. /\ disk[k.src] \subseteq k.text[k.src] \cup editsRaced
        /\ k.dst # k.src /\ SymbolOf[k.src] \in disk'[k.dst]
    BY <2>1, <2>2, <2>3, <2>4 DEF EditsPlaced, EditsRead
  <2> HIDE DEF k
  <2> QED  BY <2>2, <2>4, <2>5 DEF Accounted
<1>4. ASSUME NEW f \in Files, NEW e \in Editors, Edits!Save(e, f) PROVE Accounted
  BY <1>4, <1>t DEF Edits!Save, Edits!Put, EditsTypes, Edits!TypeOK, Accounted
<1>5. ASSUME NEW c \in Calls, Edits!Step(c) PROVE Accounted
  BY <1>1, <1>2, <1>3, <1>5 DEF Edits!Step, Edits!Take, Edits!Refuse, Edits!TakeAndKeep,
     Edits!TakeSecond, Edits!Check, Edits!WriteFails, Edits!PutsInCache, Edits!Scan,
     Edits!Verify, Edits!Apply
<1> QED
  BY <1>1, <1>4, <1>5
  DEF Edits!Next, Edits!Start, Edits!ReadFile, Edits!Crash, editsVars

(* No part of a file is lost to concurrent edits, failing writes, editors   *)
(* outside and crashes, and a body served from the cache is the one on      *)
(* disk, for any number of files, calls and editors.                        *)
THEOREM FilesStayWhole == Spec => FilesAreKept
<1>1. EditsInv => Edits!ServedIsTrue
  BY DEF EditsInv, EditsCache, Edits!ServedIsTrue, Edits!Served
<1>2. EditsInv /\ [Next]_vars => [Accounted]_editsVars  BY ComponentSteps, EditsAccount
<1> QED  BY <1>1, <1>2, EditsAlways, PTL
  DEF Spec, FilesAreKept, Edits!EditsAreKept, Edits!ServedStaysTrue, Accounted, editsVars, Edits!vars

-----------------------------------------------------------------------------
(* Every component keeps its types, whichever of them runs.                 *)
THEOREM TypeCorrect == Spec => []TypeOK
<1>1. RescueInv /\ CodexInv /\ LocalInv /\ HttpInv /\ GpuInv /\ PeersInv /\ EditsInv => TypeOK
  BY DEF TypeOK, RescueInv, CodexInv, LocalInv, HttpInv, GpuInv, GpuTypes, PeersInv, EditsInv,
     EditsTypes
<1> QED
  BY <1>1, RescueAlways, CodexAlways, LocalAlways, HttpAlways, GpuAlways, PeersAlways,
     EditsAlways, PTL
=============================================================================
