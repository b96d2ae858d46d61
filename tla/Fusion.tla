------------------------------- MODULE Fusion -------------------------------
(***************************************************************************)
(* Panels with a judge: the tools fusion, dual_fusion and conductor_fusion *)
(* of server.py.  A tool creates the rooms, records the run in _bg_rooms   *)
(* and either detaches a task or awaits it.  The task runs the rounds,     *)
(* asks for the synthesis, writes <room>.synthesis and sets the status.    *)
(* _bg_rooms lives in memory, the file survives a restart.                 *)
(***************************************************************************)
EXTENDS Naturals, FiniteSets

CONSTANTS Fusions,     \* room ids the results are kept under
          RoundsTotal,      \* rounds_total
          MaxCrashes,  \* bound: restarts of the bridge
          None

VARIABLES kind,     \* kind[f]: the tool that started f, None before
          call,     \* call[f]: what became of the tool call
          task,     \* task[f]: what the coroutine awaits
          running,  \* running[f]: its rooms that a run_rounds works on
          record,   \* record[f]: its entry in _bg_rooms
          file,     \* runs whose .synthesis file exists
          unsaved,  \* runs whose write failed with OSError
          told,     \* runs a client was told to be done
          crashes

vars == <<kind, call, task, running, record, file, unsaved, told, crashes>>

Kinds == {"fusion", "dual", "conductor"}
Statuses == {"running", "synthesizing", "done", "error"}
Works(f) == task[f] \in {"rounds", "synthesis", "memory"}
Final(f) == record[f] # None /\ record[f].status \in {"done", "error"}
RoomsOf(k) == IF k = "dual" THEN {"sparse", "dense"} ELSE {"dense"}

\* What room_read appends: the text of the record, or else the file.
Readable(f) == (record[f] # None /\ record[f].text) \/ f \in file

Init ==
    /\ kind = [f \in Fusions |-> None]
    /\ call = [f \in Fusions |-> "none"]
    /\ task = [f \in Fusions |-> "none"]
    /\ running = [f \in Fusions |-> {}]
    /\ record = [f \in Fusions |-> None]
    /\ file = {} /\ unsaved = {} /\ told = {} /\ crashes = 0

\* The tool: the room (two for dual_fusion) exists, the run is recorded and
\* its task starts.  conductor_fusion always detaches it.
Start(f, k, how) ==
    /\ kind[f] = None
    /\ k = "conductor" => how = "background"
    /\ kind' = [kind EXCEPT ![f] = k]
    /\ call' = [call EXCEPT ![f] = how]
    /\ task' = [task EXCEPT ![f] = "rounds"]
    /\ running' = [running EXCEPT ![f] = RoomsOf(k)]
    /\ record' = [record EXCEPT ![f] = [status |-> "running", rounds |-> 0, text |-> FALSE]]
    /\ UNCHANGED <<file, unsaved, told, crashes>>

\* run_rounds of one room returns.  The conductor runs its rounds one by one
\* and counts each, the others count them at the end.
RoundsEnd(f, room) ==
    /\ task[f] = "rounds" /\ room \in running[f]
    /\ LET n == IF kind[f] = "conductor" THEN record[f].rounds + 1 ELSE RoundsTotal
           left == IF n < RoundsTotal THEN running[f] ELSE running[f] \ {room} IN
       /\ running' = [running EXCEPT ![f] = left]
       /\ IF left = {}
          THEN /\ task' = [task EXCEPT ![f] = "synthesis"]
               /\ record' = [record EXCEPT ![f].rounds = n, ![f].status = "synthesizing"]
          ELSE /\ record' = [record EXCEPT ![f].rounds = IF kind[f] = "conductor" THEN n ELSE @]
               /\ UNCHANGED task
    /\ UNCHANGED <<kind, call, file, unsaved, told, crashes>>

Bug_Fails(f) ==
    /\ task' = [task EXCEPT ![f] = "gone"]
    /\ UNCHANGED <<record, told>>

\* The except Exception of the coroutine: the error is recorded, and an
\* inline call returns it.
Fails(f) ==
    /\ task' = [task EXCEPT ![f] = "gone"]
    /\ record' = [record EXCEPT ![f].status = "error"]
    /\ UNCHANGED told

\* A run_rounds raises.  gather does not cancel the other room of a
\* dual_fusion, whose run goes on.
RoundsRaise(f, room) ==
    /\ task[f] = "rounds" /\ room \in running[f]
    /\ running' = [running EXCEPT ![f] = @ \ {room}]
    /\ Fails(f)
    /\ UNCHANGED <<kind, call, file, unsaved, crashes>>

\* The run that was left behind comes to its end, unobserved.
StrayEnds(f) ==
    /\ task[f] = "gone" /\ running[f] # {}
    /\ running' = [running EXCEPT ![f] = {}]
    /\ UNCHANGED <<kind, call, task, record, file, unsaved, told, crashes>>

\* The end of fusion and dual_fusion: an OSError of the write is ignored, the
\* result is kept in the record and an inline call returns it.
Bug_Keeps(f) ==
    /\ \/ UNCHANGED <<file, unsaved>>
       \/ unsaved' = unsaved \cup {f} /\ UNCHANGED file
    /\ record' = [record EXCEPT ![f].status = "done", ![f].text = TRUE]
    /\ task' = [task EXCEPT ![f] = "gone"]
    /\ told' = IF call[f] = "inline" THEN told \cup {f} ELSE told
Keeps(f) ==
    /\ \/ file' = file \cup {f} /\ UNCHANGED unsaved
       \/ unsaved' = unsaved \cup {f} /\ UNCHANGED file
    /\ record' = [record EXCEPT ![f].status = "done", ![f].text = TRUE]
    /\ task' = [task EXCEPT ![f] = "gone"]
    /\ told' = IF call[f] = "inline" THEN told \cup {f} ELSE told

\* The end of conductor_fusion: a failed write is an error and the text is
\* dropped; the thread that distils the text is started after "done" and
\* turns it into "error" when it cannot start.
KeepsOrFails(f) ==
    \/ Fails(f) /\ UNCHANGED <<file, unsaved>>
    \/ /\ file' = file \cup {f}
       /\ \E status \in {"done", "error"} :
              record' = [record EXCEPT ![f].status = status, ![f].text = TRUE]
       /\ task' = [task EXCEPT ![f] = "gone"]
       /\ UNCHANGED <<unsaved, told>>

\* The judge has answered.  With a soul, fusion first records how each
\* participant did, and only then writes the result.
Synthesized(f) ==
    /\ task[f] = "synthesis"
    /\ CASE kind[f] = "conductor" -> KeepsOrFails(f)
         [] kind[f] = "dual" -> Keeps(f)
         [] OTHER -> \/ Keeps(f)
                     \/ /\ task' = [task EXCEPT ![f] = "memory"]
                        /\ UNCHANGED <<record, file, unsaved, told>>
    /\ UNCHANGED <<kind, call, running, crashes>>

Remembered(f) ==
    /\ task[f] = "memory"
    /\ Keeps(f)
    /\ UNCHANGED <<kind, call, running, crashes>>

\* The synthesis, the thread or the memory raises: nothing is written.
SynthesisRaises(f) ==
    /\ task[f] \in {"synthesis", "memory"}
    /\ Fails(f)
    /\ UNCHANGED <<kind, call, running, file, unsaved, crashes>>

\* The client of an inline call goes away: CancelledError is no Exception, so
\* the record keeps its status.
Drop(f) ==
    /\ call[f] = "inline" /\ Works(f)
    /\ call' = [call EXCEPT ![f] = "dropped"]
    /\ task' = [task EXCEPT ![f] = "gone"]
    /\ running' = [running EXCEPT ![f] = {}]
    /\ UNCHANGED <<kind, record, file, unsaved, told, crashes>>

\* room_status or room_read tells a client that the result is there.
Tell(f) ==
    /\ \/ record[f] # None /\ record[f].status = "done"
       \/ Readable(f)
    /\ told' = told \cup {f}
    /\ UNCHANGED <<kind, call, task, running, record, file, unsaved, crashes>>

Restart ==
    /\ crashes < MaxCrashes
    /\ crashes' = crashes + 1
    /\ record' = [f \in Fusions |-> None]
    /\ task' = [f \in Fusions |-> IF task[f] = "none" THEN "none" ELSE "gone"]
    /\ running' = [f \in Fusions |-> {}]
    /\ UNCHANGED <<kind, call, file, unsaved, told>>

Proceeds(f) ==
    \/ \E room \in {"sparse", "dense"} : RoundsEnd(f, room) \/ RoundsRaise(f, room)
    \/ Synthesized(f) \/ Remembered(f) \/ SynthesisRaises(f)

Next ==
    \/ \E f \in Fusions :
          \/ \E k \in Kinds, how \in {"inline", "background"} : Start(f, k, how)
          \/ Proceeds(f) \/ StrayEnds(f) \/ Drop(f) \/ Tell(f)
    \/ Restart

\* Every call to a model has a timeout, so what a coroutine awaits ends.
Fairness == \A f \in Fusions : WF_vars(Proceeds(f)) /\ WF_vars(StrayEnds(f))

Spec == Init /\ [][Next]_vars /\ Fairness
-----------------------------------------------------------------------------
TypeOK ==
    /\ kind \in [Fusions -> Kinds \cup {None}]
    /\ call \in [Fusions -> {"none", "inline", "background", "dropped"}]
    /\ task \in [Fusions -> {"none", "rounds", "synthesis", "memory", "gone"}]
    /\ running \in [Fusions -> SUBSET {"sparse", "dense"}]
    /\ record \in [Fusions -> {None} \cup
           [status : Statuses, rounds : 0 .. RoundsTotal, text : BOOLEAN]]
    /\ file \subseteq Fusions /\ unsaved \subseteq Fusions /\ told \subseteq Fusions
    /\ crashes \in 0 .. MaxCrashes

(* A result a client was told of can be read again, by anyone and after a
   restart of the bridge, unless the write of its file failed and the bridge
   has restarted since: "a dropped MCP transport never loses the result". *)
ResultIsKept ==
    \A f \in told : Readable(f) \/ (f \in unsaved /\ record[f] = None)

(* A detached run comes to an end that room_status shows: done or error,
   whatever raises on the way, unless the bridge restarts. *)
FusionEnds ==
    \A f \in Fusions : 
        []<>(call[f] = "background" /\ record[f] # None => Final(f))
=============================================================================
