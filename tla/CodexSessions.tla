--------------------------- MODULE CodexSessions ----------------------------
(* The interactive sessions of CodexBridge (backends/codex.py): named        *)
(* objects with a message history and a codex thread, a lock per name, a     *)
(* file per name. A session may be replaced, ended or touched while a        *)
(* message is being answered; the bridge may die and load the files again.   *)
(* A thread is named by the call whose process opened it.                    *)
EXTENDS Naturals, Sequences, SequencesExt, FiniteSets

CONSTANTS Names,      \* session ids
          Objects,    \* 1..n: the CodexSession objects in the order they are made
          Calls,      \* calls of send_message
          None,
          MaxCrashes  \* bound on the deaths of the bridge

VARIABLES sessions,  \* self.sessions: the object of a name, or None
          history,   \* messages of an object
          thread,    \* its codex_session_id
          made,      \* how many objects were made
          file,      \* what sessions_dir holds of a name, or None
          active,    \* self.active_session
          starting,  \* how many starts of a name await the Claude session id
          queue,     \* _session_locks: the holder of a name's lock, then its waiters
          call,      \* where a call is: idle, waits, asks, told, failed
          about,     \* the name it is about
          object,    \* the object it captured
          crashes

vars == <<sessions, history, thread, made, file, active, starting, queue,
          call, about, object, crashes>>

Image == [object: Objects, history: Seq(Calls \X {"user", "assistant"}), thread: Calls \cup {None}]

TypeOK ==
    /\ sessions \in [Names -> Objects \cup {None}]
    /\ history \in [Objects -> Seq(Calls \X {"user", "assistant"})]
    /\ thread \in [Objects -> Calls \cup {None}] /\ made \in 0..Cardinality(Objects)
    /\ file \in [Names -> Image \cup {None}]
    /\ active \in Names \cup {None} /\ starting \in [Names -> 0..Cardinality(Objects)]
    /\ active # None => sessions[active] # None
    /\ queue \in [Names -> Seq(Calls)]
    /\ call \in [Calls -> {"idle", "waits", "asks", "told", "failed"}]
    /\ about \in [Calls -> Names \cup {None}] /\ object \in [Calls -> Objects \cup {None}]
    /\ crashes \in 0..MaxCrashes

Init ==
    /\ sessions = [s \in Names |-> None] /\ file = sessions
    /\ history = [o \in Objects |-> <<>>] /\ thread = [o \in Objects |-> None] /\ made = 0
    /\ active = None /\ starting = [s \in Names |-> 0] /\ queue = [s \in Names |-> <<>>]
    /\ call = [c \in Calls |-> "idle"] /\ about = [c \in Calls |-> None]
    /\ object = about /\ crashes = 0

Open == {s \in Names : sessions[s] # None}
Saved(o, said, t) == [object |-> o, history |-> said, thread |-> t]

(* start_session awaits the Claude session id, then makes a new object in    *)
(* the place of whatever has the name by now.                                *)
StartBegins(s) ==
    /\ made + starting[s] < Cardinality(Objects)
    /\ starting' = [starting EXCEPT ![s] = @ + 1]
    /\ UNCHANGED <<sessions, history, thread, made, file, active, queue, call, about, object, crashes>>
Starts(s) ==
    LET o == made + 1
    IN  /\ o \in Objects /\ starting[s] > 0 /\ starting' = [starting EXCEPT ![s] = @ - 1] /\ made' = o
        /\ sessions' = [sessions EXCEPT ![s] = o] /\ active' = s
        /\ file' = [file EXCEPT ![s] = Saved(o, history[o], thread[o])]
        /\ UNCHANGED <<history, thread, queue, call, about, object, crashes>>

(* Inside the lock the name is looked up again: an ended session is an error. *)
Ask(c, s, waiting) ==
    /\ queue' = [queue EXCEPT ![s] = IF sessions[s] = None THEN Tail(waiting) ELSE waiting]
    /\ IF sessions[s] = None
       THEN call' = [call EXCEPT ![c] = "failed"] /\ UNCHANGED <<object, history>>
       ELSE /\ call' = [call EXCEPT ![c] = "asks"]
            /\ object' = [object EXCEPT ![c] = sessions[s]]
            /\ history' = [history EXCEPT ![sessions[s]] = Append(@, <<c, "user">>)]

Bug_Send(c, s) ==
    /\ call[c] = "idle" /\ s \in Open /\ about' = [about EXCEPT ![c] = s]
    /\ Ask(c, s, Append(queue[s], c))
    /\ UNCHANGED <<sessions, thread, made, file, active, starting, crashes>>
Send(c, s) ==
    /\ call[c] = "idle" /\ s \in Open /\ about' = [about EXCEPT ![c] = s]
    /\ IF queue[s] = <<>>
       THEN Ask(c, s, <<c>>)
       ELSE /\ queue' = [queue EXCEPT ![s] = Append(@, c)]
            /\ call' = [call EXCEPT ![c] = "waits"] /\ UNCHANGED <<object, history>>
    /\ UNCHANGED <<sessions, thread, made, file, active, starting, crashes>>

Enters(c) ==
    /\ call[c] = "waits" /\ Head(queue[about[c]]) = c
    /\ Ask(c, about[c], queue[about[c]])
    /\ UNCHANGED <<sessions, thread, made, file, active, starting, about, crashes>>

(* The holder gives the lock up; a waiter leaves its place in the queue. *)
Bug_Release(c) == UNCHANGED queue
Release(c) == queue' = [queue EXCEPT ![about[c]] = Tail(@)]
Place(c) == CHOOSE i \in DOMAIN queue[about[c]] : queue[about[c]][i] = c
Withdraw(c) == queue' = [queue EXCEPT ![about[c]] = RemoveAt(@, Place(c))]

(* The process resumes the thread of the object, or opens one and reports it *)
(* or not; the reply is added and the object saved under the name, even when *)
(* the name has another object, or none, by now. The save may raise.         *)
Bug_Answered(c, t, saved) ==
    LET o == object[c]
        said == Append(history[o], <<c, "assistant">>)
    IN  /\ call[c] = "asks" /\ t \in {c, None} /\ Release(c)
        /\ thread' = [thread EXCEPT ![o] = IF @ = None THEN t ELSE @]
        /\ history' = [history EXCEPT ![o] = said]
        /\ file' = IF saved /\ thread[o] = None
                   THEN [file EXCEPT ![about[c]] = Saved(o, said, thread'[o])] ELSE file
        /\ call' = [call EXCEPT ![c] = IF saved THEN "told" ELSE "failed"]
        /\ UNCHANGED <<sessions, made, active, starting, about, object, crashes>>
Answered(c, t, saved) ==
    LET o == object[c]
        said == Append(history[o], <<c, "assistant">>)
    IN  /\ call[c] = "asks" /\ t \in {c, None} /\ Release(c)
        /\ thread' = [thread EXCEPT ![o] = IF @ = None THEN t ELSE @]
        /\ history' = [history EXCEPT ![o] = said]
        /\ file' = IF saved THEN [file EXCEPT ![about[c]] = Saved(o, said, thread'[o])] ELSE file
        /\ call' = [call EXCEPT ![c] = IF saved THEN "told" ELSE "failed"]
        /\ UNCHANGED <<sessions, made, active, starting, about, object, crashes>>

(* Nothing came back: the thread is kept in memory only. *)
Silent(c, t) ==
    /\ call[c] = "asks" /\ t \in {c, None} /\ Release(c)
    /\ thread' = [thread EXCEPT ![object[c]] = IF @ = None THEN t ELSE @]
    /\ call' = [call EXCEPT ![c] = "failed"]
    /\ UNCHANGED <<sessions, history, made, file, active, starting, about, object, crashes>>

(* Error exit, stall, deadline or cancellation; a waiter may be cancelled too. *)
Leaves(c, from) ==
    /\ call[c] = from /\ call' = [call EXCEPT ![c] = "failed"]
    /\ UNCHANGED <<sessions, history, thread, made, file, active, starting, about, object, crashes>>
Fails(c) == Leaves(c, "asks") /\ Release(c)
WaiterCancelled(c) == Leaves(c, "waits") /\ Withdraw(c)

(* set_model, attach_claude_session, detach_claude_session: a save of the    *)
(* current object, in the middle of whatever call is on.                     *)
Touch(s) ==
    /\ s \in Open
    /\ file' = [file EXCEPT ![s] = Saved(sessions[s], history[sessions[s]], thread[sessions[s]])]
    /\ UNCHANGED <<sessions, history, thread, made, active, starting, queue, call, about, object, crashes>>
SetActive(s) ==
    /\ s \in Open \ {active} /\ active' = s
    /\ UNCHANGED <<sessions, history, thread, made, file, starting, queue, call, about, object, crashes>>

Bug_NoLongerActive(ended) == active
NoLongerActive(ended) == IF active \in ended THEN None ELSE active
(* end_session, end_all, end_unattached *)
End(ended) ==
    /\ ended # {} /\ ended \subseteq Open
    /\ sessions' = [s \in Names |-> IF s \in ended THEN None ELSE sessions[s]]
    /\ file' = [s \in Names |-> IF s \in ended THEN None ELSE file[s]]
    /\ active' = NoLongerActive(ended)
    /\ UNCHANGED <<history, thread, made, starting, queue, call, about, object, crashes>>

(* The bridge dies and starts again: memory is what the files say. *)
Restart ==
    /\ crashes < MaxCrashes /\ crashes' = crashes + 1
    /\ sessions' = [s \in Names |-> IF file[s] = None THEN None ELSE file[s].object]
    /\ LET loaded == {s \in Names : file[s] # None}
           at(o) == CHOOSE s \in loaded : file[s].object = o
           back == {file[s].object : s \in loaded}
       IN  /\ history' = [o \in Objects |-> IF o \in back THEN file[at(o)].history ELSE history[o]]
           /\ thread' = [o \in Objects |-> IF o \in back THEN file[at(o)].thread ELSE thread[o]]
    /\ active' = None /\ starting' = [s \in Names |-> 0] /\ queue' = [s \in Names |-> <<>>]
    /\ call' = [c \in Calls |-> IF call[c] \in {"waits", "asks"} THEN "failed" ELSE call[c]]
    /\ UNCHANGED <<made, file, about, object>>

Body(c) ==
    \/ Enters(c) \/ Fails(c) \/ WaiterCancelled(c)
    \/ \E t \in {c, None} : Silent(c, t) \/ \E saved \in BOOLEAN : Answered(c, t, saved)

Next ==
    \/ \E s \in Names : StartBegins(s) \/ Starts(s) \/ Touch(s) \/ SetActive(s)
    \/ \E c \in Calls : Body(c) \/ \E s \in Names : Send(c, s)
    \/ \E ended \in SUBSET Names : End(ended)
    \/ Restart

(* A call that asks is bounded by its deadline; one that waits gets the lock *)
(* when it is its turn.                                                      *)
Fairness == \A c \in Calls : WF_vars(Enters(c) \/ Fails(c))
Spec == Init /\ [][Next]_vars /\ Fairness

-----------------------------------------------------------------------------
Turn(o) == LET asking == {c \in Calls : call[c] = "asks" /\ object[c] = o}
           IN  IF asking = {} THEN None ELSE CHOOSE c \in asking : TRUE
Talk == INSTANCE Conversation
            WITH log <- history, turn <- [o \in Objects |-> Turn(o)]
(* Each session object is a conversation: its calls take turns, a reply      *)
(* stands behind the message it answers, and a restart brings back the       *)
(* beginning of the history.                                                 *)
TakesTurns == Talk!Spec

(* A reply somebody was told is in the file of the session as long as the    *)
(* session is the one that answered, whatever was replaced, ended, touched   *)
(* or cancelled, and before and after a restart.                             *)
RepliesAreKept ==
    \A c \in Calls :
        call[c] = "told" /\ sessions[about[c]] = object[c] =>
            /\ file[about[c]] # None /\ file[about[c]].object = object[c]
            /\ \E i \in DOMAIN file[about[c]].history :
                  file[about[c]].history[i] = <<c, "assistant">>

(* Every message is answered or refused: nobody waits behind a lock forever. *)
CallsEnd == \A c \in Calls : []<>(call[c] \notin {"waits", "asks"})
=============================================================================
