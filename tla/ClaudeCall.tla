----------------------------- MODULE ClaudeCall -----------------------------
(***************************************************************************)
(* One `claude -p` call of a room (rooms.py, _run_claude_p) under its      *)
(* three watchdogs: the absolute timeout, the idle timeout, and the        *)
(* progress watch of watchdog.py, which knows a stalled turn (no monotone  *)
(* progress) and a looping one (an effectful action repeated against the   *)
(* same files with the same result).  Time is counted in ticks; the loop   *)
(* sleeps until the first of its limits and looks then.                     *)
(***************************************************************************)
EXTENDS Naturals, Sequences, FiniteSets, FiniteSetsExt, SequencesExt

CONSTANTS Timeout,       \* the backstop, in ticks
          Idle,          \* idle_timeout
          Progress,      \* PROGRESS_TIMEOUT
          Window,        \* CYCLE_WINDOW
          Repeats,       \* CYCLE_REPEATS
          Actions,       \* effectful actions, each with its result
          MaxActions,    \* bound: actions of one turn
          None

VARIABLES mode,      \* CHITTA_WATCHDOG: on, shadow or off
          phase,     \* writing the prompt, looking, asleep, collecting or ended
          process,   \* the claude process: alive or dead
          reader,    \* the task that reads stdout: reading, result or eof
          now, wake,
          heard,     \* last_event
          moved,     \* t_prog
          resumes,   \* suspend_until
          history,   \* hist: the digests with their times
          tree,      \* the shadow file map: its version
          done,      \* every action there was, with the tree before it and its time
          stepped,   \* the last time something grew or was done
          limited,   \* the last time a rate limit was announced, or 0
          outcome

vars == <<mode, phase, process, reader, now, wake, heard, moved, resumes,
          history, tree, done, stepped, limited, outcome>>
clocks == <<now, wake>>
watch == <<heard, moved, resumes, history, tree, done, stepped, limited>>

Init ==
    /\ mode \in {"on", "shadow", "off"}
    /\ phase = "writing" /\ process = "alive" /\ reader = "reading"
    /\ now = 0 /\ wake = 0 /\ heard = 0 /\ moved = 0 /\ resumes = 0
    /\ history = <<>> /\ tree = 0 /\ done = <<>> /\ stepped = 0 /\ limited = 0
    /\ outcome = None

\* The prompt is written and drained without a timeout, then the clocks run.
Written ==
    /\ phase = "writing"
    /\ phase' = "looking"
    /\ UNCHANGED <<mode, process, reader, clocks, watch, outcome>>

\* --- What the process says ------------------------------------------------
Reads == phase = "asleep" /\ process = "alive" /\ reader = "reading"

\* Hooks and the like: proof of life, no progress.
Hook ==
    /\ Reads
    /\ heard' = now
    /\ UNCHANGED <<mode, phase, process, reader, clocks, moved, resumes, history, tree, done,
                   stepped, limited, outcome>>

\* Thinking tokens, text, an item: an accumulator has grown.
Grows ==
    /\ Reads
    /\ heard' = now /\ moved' = now
    /\ stepped' = now
    /\ UNCHANGED <<mode, phase, process, reader, clocks, resumes, history, tree, done, limited, outcome>>

RateLimit ==
    /\ Reads
    /\ heard' = now
    /\ resumes' = now + Progress
    /\ limited' = now
    /\ UNCHANGED <<mode, phase, process, reader, clocks, moved, history, tree, done, stepped, outcome>>

\* Entries that have left the window are dropped when the next one comes;
\* they are in the order of time.
Past(h) == {i \in DOMAIN h : now - h[i].at >= Window}
Recent(h) == SubSeq(h, Cardinality(Past(h)) + 1, Len(h))

\* An action completes; one that writes a file changes the tree before its
\* own digest is taken.
Acts(a, writes) ==
    /\ Reads /\ Len(done) < MaxActions
    /\ LET t == IF writes THEN tree + 1 ELSE tree
           entry == [digest |-> <<a, t>>, at |-> now] IN
       /\ tree' = t
       /\ history' = Append(Recent(history), entry)
       /\ done' = Append(done, entry)
    /\ heard' = now /\ moved' = now /\ stepped' = now
    /\ UNCHANGED <<mode, phase, process, reader, clocks, resumes, limited, outcome>>

\* The result line; the process itself never closes its output.
Result ==
    /\ Reads
    /\ reader' = "result"
    /\ UNCHANGED <<mode, phase, process, clocks, watch, outcome>>

\* It exits without one.
Exit ==
    /\ Reads
    /\ reader' = "eof" /\ process' = "dead"
    /\ UNCHANGED <<mode, phase, clocks, watch, outcome>>

\* --- The loop ---------------------------------------------------------------
\* Every way out goes through the finally that kills the process group.
Ends(why) ==
    /\ outcome' = why /\ phase' = "ended"
    /\ process' = "dead"

Bug_Suspended == FALSE
Suspended == now < resumes

\* The loop reaches a limit of the progress watch a moment after it, so the
\* strict comparisons of the source hold at the limit.
Stalled == ~ Suspended /\ now - moved >= Progress
Looping ==
    /\ ~ Suspended /\ ~ Stalled
    /\ \E x \in Range(history) :
          Cardinality({i \in DOMAIN history :
              history[i].digest = x.digest /\ now - history[i].at < Window}) >= Repeats

\* left(): the next moment at which the watch could find a stall.
NextStall(m, r) == IF m + Progress > r THEN m + Progress ELSE r

Sleeps(m, h) ==
    /\ wake' = Min({heard + Idle, Timeout} \cup (IF mode = "off" THEN {} ELSE {NextStall(m, resumes)}))
    /\ phase' = "asleep"
    /\ moved' = m /\ history' = h
    /\ UNCHANGED <<mode, process, reader, now, heard, resumes, tree, done, stepped, limited, outcome>>

Bug_TimesOut ==
    /\ phase = "asleep" /\ now >= wake /\ now < Timeout
    /\ phase' = "looking"
    /\ UNCHANGED <<mode, process, reader, clocks, watch, outcome>>

Look ==
    /\ phase = "looking"
    /\ \/ /\ now >= Timeout
          /\ Ends("timeout") /\ UNCHANGED <<mode, reader, clocks, watch>>
       \/ /\ now < Timeout /\ heard + Idle <= now
          /\ Ends("idle") /\ UNCHANGED <<mode, reader, clocks, watch>>
       \/ /\ now < Timeout /\ heard + Idle > now
          /\ \/ mode = "off" /\ Sleeps(moved, history)
             \/ mode # "off" /\ Suspended /\ Sleeps(now, history)
             \/ mode = "on" /\ Stalled /\ Ends("stalled") /\ UNCHANGED <<mode, reader, clocks, watch>>
             \/ mode = "on" /\ Looping /\ Ends("looping") /\ UNCHANGED <<mode, reader, clocks, watch>>
             \/ mode = "shadow" /\ (Stalled \/ Looping) /\ Sleeps(now, <<>>)
             \/ mode # "off" /\ ~ Suspended /\ ~ Stalled /\ ~ Looping /\ Sleeps(moved, history)

\* The sleep is over: a limit is reached, or the reader has finished.  At the
\* limit either may come first, and a result that comes second is dropped.
TimesOut ==
    /\ phase = "asleep" /\ now >= wake
    /\ phase' = "looking"
    /\ UNCHANGED <<mode, process, reader, clocks, watch, outcome>>

Finishes ==
    /\ phase = "asleep" /\ reader # "reading"
    /\ Ends(IF reader = "result" THEN "result" ELSE "empty")
    /\ UNCHANGED <<mode, reader, clocks, watch>>

\* The turn is cancelled from outside.
Cancelled ==
    /\ phase \in {"writing", "asleep"}
    /\ Ends("cancelled")
    /\ UNCHANGED <<mode, reader, clocks, watch>>

Tick ==
    /\ phase = "asleep" /\ reader = "reading" /\ now < wake
    /\ now' = now + 1
    /\ UNCHANGED <<mode, phase, process, reader, wake, watch, outcome>>

Next ==
    \/ Written \/ Hook \/ Grows \/ RateLimit
    \/ \E a \in Actions, writes \in BOOLEAN : Acts(a, writes)
    \/ Result \/ Exit
    \/ Look \/ TimesOut \/ Finishes \/ Cancelled \/ Tick

\* Time passes, the loop is scheduled, and the process reads its prompt.
Fairness == WF_vars(Written) /\ WF_vars(Look \/ TimesOut \/ Finishes) /\ WF_vars(Tick)

Spec == Init /\ [][Next]_vars /\ Fairness
-----------------------------------------------------------------------------
Entries == [digest : Actions \X (0 .. MaxActions), at : 0 .. Timeout]

TypeOK ==
    /\ mode \in {"on", "shadow", "off"}
    /\ phase \in {"writing", "looking", "asleep", "ended"}
    /\ process \in {"alive", "dead"} /\ reader \in {"reading", "result", "eof"}
    /\ now \in 0 .. Timeout /\ wake \in 0 .. Timeout
    /\ heard \in 0 .. Timeout /\ moved \in 0 .. Timeout /\ resumes \in 0 .. Timeout + Progress
    /\ history \in Seq(Entries) /\ done \in Seq(Entries) /\ tree \in 0 .. MaxActions
    /\ stepped \in 0 .. Timeout /\ limited \in 0 .. Timeout
    /\ outcome \in {None, "result", "empty", "timeout", "idle", "stalled", "looping", "cancelled"}

(* A verdict of the progress watch is deserved: a turn is killed as stalled
   only when nothing grew and no rate limit was announced for the whole
   progress timeout, and as looping only when one action was repeated on the
   same files within the window. *)
VerdictIsDeserved ==
    /\ outcome = "stalled" => 
           now - stepped >= Progress /\ (limited > 0 => now - limited >= Progress)
    /\ outcome = "looping" => \E x \in Range(done) :
           Cardinality({i \in DOMAIN done : done[i].digest = x.digest /\ now - done[i].at < Window}) >= Repeats
    /\ outcome \in {"stalled", "looping"} => mode = "on"

(* Every call ends, even of a process that keeps talking. *)
Ended == phase = "ended"
CallIsOver == []<>Ended
=============================================================================
