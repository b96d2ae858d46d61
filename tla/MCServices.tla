----------------------------- MODULE MCServices -----------------------------
(* Instances for TLC of the components that serve calls of their own: each *)
(* behaviour is one of the component `which' names, the others stay as     *)
(* they start.  They share no state.                                       *)
EXTENDS Naturals, FiniteSets, Sequences, TLC

CONSTANTS
    Jobs, Dirs, Names, Objects, Calls, Attempts, Threshold, Daemons, Models, Clashes,
    Participants, MaxBlind, Pids, Messages, TooLong, MaxSweeps, Files, Absent, Editors, Plans, Ended,
    c1, c2, m1, m2, p1, p2, q1, q2, fa, fb, None, MaxCrashes, MaxFaults

ASSUME IdsAreNumbered == Jobs = 1..Cardinality(Jobs) /\ Objects = 1..Cardinality(Objects)
ASSUME NamesAreNotNone == None \notin Daemons \cup Models \cup Pids
ASSUME IdsAreFinite == IsFiniteSet(Jobs) /\ IsFiniteSet(Objects)
ASSUME PidsAreNoStates == Pids \cap {"unsent", "refused", "lost", "kept"} = {}
ASSUME BoundsAreNatural == {MaxBlind, MaxCrashes, MaxFaults, MaxSweeps} \subseteq Nat
ASSUME RepliesAreMail == TooLong \subseteq SUBSET Messages
ASSUME PostsAreTried == Attempts \in Nat \ {0} /\ Threshold \in Nat \ {0}

SymbolOf == [x \in Files |-> <<"symbol of", x>>]

(* The edits that the two calls may be: every pair of tools that can meet. *)
EditPlans ==
         (c1 :> {<<"edit", fa, fa>>, <<"move", fa, fb>>})
      @@ (c2 :> {<<"patch", fa, fa>>, <<"cut", fa, fa>>, <<"move", fb, fa>>,
                 <<"project", fa, fa>>, <<"write", fa, fa>>, <<"replace", fb, fb>>})

(* The calls, workers and so on in the order in which fairness names them. *)
Units       == 1..2
Call        == <<c1, c2>>
Participant == <<p1, p2>>
Pid         == <<q1, q2>>

\* m1's job name is a prefix of m2's.
Clashing == {<<m1, m2>>}

VARIABLES
    which,  \* the component that runs, fixed at the start
    jobs, jobFile, dir, task, child, alive, moved, rescueCrashes, rescueFaults,
    codexSessions, history, thread, codexMade, file, codexActive, starting, codexQueue,
    codexCall, codexAbout, codexObject, codexCrashes,
    localSessions, messages, localMade, localActive, localQueue, localCall, localAbout,
    localObject, post, failures, dead,
    phase, signalled, shutting, timer, cancelled, dashboard, mcp, portFile, httpListed,
    request, port, evicted, httpRaced,
    job, model, blind, loaded, url, asks, gpuQueue, step, start, sent, gpuFaults,
    process, tracked, peersListed, mailbox, draining, message, shown, peersOvertaken,
    torn, spoilt, unreturned, peersCrashes, sweeps,
    disk, bak, stamp, lock, editsCall, cache, seen, saved, editsRaced, editsOvertaken,
    editsCrashes

Rescue == INSTANCE RescueJobs
    WITH crashes <- rescueCrashes, faults <- rescueFaults
Codex == INSTANCE CodexSessions
    WITH sessions <- codexSessions, made <- codexMade, active <- codexActive,
         queue <- codexQueue, call <- codexCall, about <- codexAbout,
         object <- codexObject, crashes <- codexCrashes
Local == INSTANCE LocalSessions
    WITH sessions <- localSessions, made <- localMade, active <- localActive,
         queue <- localQueue, call <- localCall, about <- localAbout,
         object <- localObject
Http == INSTANCE HttpLifecycle
    WITH listed <- httpListed, raced <- httpRaced
Gpu == INSTANCE GpuJobs
    WITH queue <- gpuQueue, faults <- gpuFaults
Peer == INSTANCE Peers
    WITH listed <- peersListed, overtaken <- peersOvertaken, crashes <- peersCrashes
Edits == INSTANCE FileEdits
    WITH call <- editsCall, raced <- editsRaced, overtaken <- editsOvertaken,
         crashes <- editsCrashes

ASSUME NoneIsNoRecord ==
    None \notin Dirs \cup Jobs \cup Names \cup Objects \cup Calls \cup Rescue!Record \cup Codex!Image

(* Only a move has a destination. *)
ASSUME PlansAreEdits ==
    /\ Plans \in [Calls -> SUBSET ((Edits!Threads \cup Edits!OnLoop) \X Files \X Files)]
    /\ \A c \in Calls : \A plan \in Plans[c] : plan[1] # "move" => plan[2] = plan[3]

rescueVars == <<jobs, jobFile, dir, task, child, alive, moved, rescueCrashes,
                rescueFaults>>
codexVars == <<codexSessions, history, thread, codexMade, file, codexActive, starting,
               codexQueue, codexCall, codexAbout, codexObject, codexCrashes>>
localVars == <<localSessions, messages, localMade, localActive, localQueue, localCall,
               localAbout, localObject, post, failures, dead>>
httpVars == <<phase, signalled, shutting, timer, cancelled, dashboard, mcp, portFile,
              httpListed, request, port, evicted, httpRaced>>
gpuVars == <<job, model, blind, loaded, url, asks, gpuQueue, step, start, sent,
             gpuFaults>>
peersVars == <<process, tracked, peersListed, mailbox, draining, message, shown,
               peersOvertaken, torn, spoilt, unreturned, peersCrashes, sweeps>>
editsVars == <<disk, bak, stamp, lock, editsCall, cache, seen, saved, editsRaced,
               editsOvertaken, editsCrashes>>

vars == <<which, rescueVars, codexVars, localVars, httpVars, gpuVars, peersVars, editsVars>>

TypeOK ==
    /\ Rescue!TypeOK
    /\ Codex!TypeOK
    /\ Local!TypeOK
    /\ Http!TypeOK
    /\ Gpu!TypeOK
    /\ Peer!TypeOK
    /\ Edits!TypeOK

Init ==
    /\ which \in {"rescue", "codex", "local", "http", "gpu", "peers", "edits"}
    /\ Rescue!Init
    /\ Codex!Init
    /\ Local!Init
    /\ Http!Init
    /\ Gpu!Init
    /\ Peer!Init
    /\ Edits!Init /\ (which # "edits" => disk = [x \in Files |-> {x, SymbolOf[x]}])

(* Only this component moves. *)
RescueRuns ==
    /\ which = "rescue"
    /\ UNCHANGED <<which, codexVars, localVars, httpVars, gpuVars, peersVars, editsVars>>
CodexRuns ==
    /\ which = "codex"
    /\ UNCHANGED <<which, rescueVars, localVars, httpVars, gpuVars, peersVars, editsVars>>
LocalRuns ==
    /\ which = "local"
    /\ UNCHANGED <<which, rescueVars, codexVars, httpVars, gpuVars, peersVars, editsVars>>
HttpRuns ==
    /\ which = "http"
    /\ UNCHANGED <<which, rescueVars, codexVars, localVars, gpuVars, peersVars, editsVars>>
GpuRuns ==
    /\ which = "gpu"
    /\ UNCHANGED <<which, rescueVars, codexVars, localVars, httpVars, peersVars, editsVars>>
PeerRuns ==
    /\ which = "peers"
    /\ UNCHANGED <<which, rescueVars, codexVars, localVars, httpVars, gpuVars, editsVars>>
EditsRuns ==
    /\ which = "edits"
    /\ UNCHANGED <<which, rescueVars, codexVars, localVars, httpVars, gpuVars, peersVars>>

Next ==
    \/ RescueRuns /\ Rescue!Next
    \/ CodexRuns /\ Codex!Next
    \/ LocalRuns /\ Local!Next
    \/ HttpRuns /\ Http!Next
    \/ GpuRuns /\ Gpu!Next
    \/ PeerRuns /\ Peer!Next
    \/ EditsRuns /\ Edits!Next

(* Each component's own fairness, for its i-th unit. *)
Unit(i) ==
    \/ RescueRuns /\ Rescue!Body(i)
    \/ CodexRuns /\ (Codex!Enters(Call[i]) \/ Codex!Fails(Call[i]))
    \/ LocalRuns /\ (Local!Enters(Call[i]) \/ Local!Thread(Call[i]))
    \/ HttpRuns /\ (Http!TimerFires(i) \/ Http!Start(i) \/ Http!Asked(i))
    \/ GpuRuns /\ (Gpu!Ensure(Participant[i]) \/ Gpu!Vanishes(Participant[i]))
    \/ PeerRuns /\ Peer!Heartbeat(Pid[i])
    \/ EditsRuns /\ Edits!Step(Call[i])

Fairness == \A i \in Units : WF_vars(Unit(i))

Spec == Init /\ [][Next]_vars /\ Fairness

-----------------------------------------------------------------------------
(* Whoever reads the record of a rescue job can count on its status, and its
   thread is resumed automatically only in the directory it works in. *)
RecordsAreTrue == Rescue!RecordsAreTrue

(* A final status of a rescue job is not taken back. *)
FinalStays == Rescue!FinalStays

(* Every codex and every local session is a Conversation: calls take turns and
   replies stand behind their messages, through rollbacks, replaced sessions,
   cancellations and restarts. *)
SessionsTakeTurns == Codex!TakesTurns /\ Local!LocalTakesTurns

(* What a caller was told is in the file of the codex session, or in the
   history of the local one, that said it. *)
AnswersAreKept == Codex!RepliesAreKept /\ Local!HistoryIsTold

(* A daemon that goes leaves no stale entry, it has told every stream that it
   had when its shutdown began to end, and a serving one can be found. *)
LeavesCleanly == Http!LeavesCleanly

(* One GPU job at a time is on its way for a model. *)
OneJobPerModel == Gpu!OneJobPerModel

(* Mail of a peer goes to one inbox and stays there until it is shown, but for
   mail that overtakes a drain, is spoilt, or does not fit the reply. *)
InboxIsKept == Peer!InboxIsKept

(* No part of a file is lost to concurrent edits, failing writes and crashes,
   and a symbol served from the cache is the one on disk. *)
FilesAreKept == Edits!EditsAreKept /\ Edits!ServedStaysTrue

(* Every unit of work ends: a job whose task took its first step, a message to
   a session although its host may be gone, a start and a signalled daemon
   although requests may hang, the wait for a GPU, an edit unless two moves
   cross; and a worker that listens is listed again. *)
EveryCallEnds ==
    /\ Rescue!JobsEnd /\ Codex!CallsEnd /\ Local!LocalCallsEnd
    /\ Http!SignalEnds /\ Http!StartEnds /\ Gpu!EnsureEnds
    /\ Peer!StaysListed /\ Edits!EditsEnd

=============================================================================
