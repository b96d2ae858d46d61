--------------------------- MODULE LocalSessions ----------------------------
(* LocalModelBridge (backends/local.py): sessions kept in memory only, a     *)
(* lock per name, the question rolled back when the model cannot be reached. *)
(* The POST runs in an executor thread that no cancellation reaches; its     *)
(* failures count against the host, whose cooldown other callers read.       *)
EXTENDS Naturals, Sequences, SequencesExt, FiniteSets

CONSTANTS Names,      \* session ids
          Objects,    \* 1..n: the LocalSession objects in the order they are made
          Calls,      \* calls of send_message
          None,
          Attempts,   \* tries of a POST (4 in the code)
          Threshold   \* _FAIL_THRESHOLD

VARIABLES sessions,  \* self.sessions: the object of a name, or None
          messages,  \* of an object: <<call, role>>
          made,      \* how many objects were made
          active,    \* self._active_id
          queue,     \* the holder of a name's lock, then its waiters
          call,      \* idle, waits, asks, told, failed, cancelled
          about,     \* the name a call is about
          object,    \* the object it captured
          post,      \* tries its executor thread has left; 0: no thread
          failures,  \* _host_failures of the endpoint
          dead       \* the endpoint is in its cooldown

vars == <<sessions, messages, made, active, queue, call, about, object, post, failures, dead>>

TypeOK ==
    /\ sessions \in [Names -> Objects \cup {None}]
    /\ messages \in [Objects -> Seq(Calls \X {"user", "assistant"})]
    /\ made \in 0..Cardinality(Objects) /\ active \in Names \cup {None}
    /\ active # None => sessions[active] # None
    /\ queue \in [Names -> Seq(Calls)]
    /\ call \in [Calls -> {"idle", "waits", "asks", "told", "failed", "cancelled"}]
    /\ about \in [Calls -> Names \cup {None}] /\ object \in [Calls -> Objects \cup {None}]
    /\ post \in [Calls -> 0..Attempts] /\ failures \in 0..Threshold - 1 /\ dead \in BOOLEAN

Init ==
    /\ sessions = [s \in Names |-> None] /\ messages = [o \in Objects |-> <<>>]
    /\ made = 0 /\ active = None /\ queue = [s \in Names |-> <<>>]
    /\ call = [c \in Calls |-> "idle"] /\ about = [c \in Calls |-> None] /\ object = about
    /\ post = [c \in Calls |-> 0] /\ failures = 0 /\ dead = FALSE

Open == {s \in Names : sessions[s] # None}

-----------------------------------------------------------------------------
Start(s) ==
    /\ s \notin Open /\ made < Cardinality(Objects) /\ made' = made + 1
    /\ sessions' = [sessions EXCEPT ![s] = made'] /\ active' = s
    /\ UNCHANGED <<messages, queue, call, about, object, post, failures, dead>>
SetActive(s) ==
    /\ s \in Open \ {active} /\ active' = s
    /\ UNCHANGED <<sessions, messages, made, queue, call, about, object, post, failures, dead>>
(* The lock of the name outlives the session. *)
End(s) ==
    /\ s \in Open /\ sessions' = [sessions EXCEPT ![s] = None]
    /\ IF active # s THEN UNCHANGED active
       ELSE IF Open = {s} THEN active' = None ELSE active' \in Open \ {s}
    /\ UNCHANGED <<messages, made, queue, call, about, object, post, failures, dead>>

(* Inside the lock: the session is looked up again (KeyError when it ended), *)
(* the question appended and the POST handed to a thread.                    *)
Ask(c, s, waiting) ==
    /\ queue' = [queue EXCEPT ![s] = IF s \in Open THEN waiting ELSE Tail(waiting)]
    /\ IF s \in Open
       THEN /\ call' = [call EXCEPT ![c] = "asks"]
            /\ object' = [object EXCEPT ![c] = sessions[s]]
            /\ messages' = [messages EXCEPT ![sessions[s]] = Append(@, <<c, "user">>)]
            /\ post' = [post EXCEPT ![c] = Attempts]
       ELSE /\ call' = [call EXCEPT ![c] = "failed"]
            /\ UNCHANGED <<object, messages, post>>
Send(c, s) ==
    /\ call[c] = "idle" /\ s \in Open /\ about' = [about EXCEPT ![c] = s]
    /\ IF queue[s] = <<>>
       THEN Ask(c, s, <<c>>)
       ELSE /\ queue' = [queue EXCEPT ![s] = Append(@, c)]
            /\ call' = [call EXCEPT ![c] = "waits"] /\ UNCHANGED <<object, messages, post>>
    /\ UNCHANGED <<sessions, made, active, failures, dead>>
Enters(c) ==
    /\ call[c] = "waits" /\ Head(queue[about[c]]) = c
    /\ Ask(c, about[c], queue[about[c]])
    /\ UNCHANGED <<sessions, made, active, about, failures, dead>>

Release(c) == queue' = [queue EXCEPT ![about[c]] = Tail(@)]
Place(c) == CHOOSE i \in DOMAIN queue[about[c]] : queue[about[c]][i] = c
Withdraw(c) == queue' = [queue EXCEPT ![about[c]] = RemoveAt(@, Place(c))]
(* An await is cancelled: the question stays, the thread goes on. *)
Cancel(c) ==
    /\ \/ call[c] = "asks" /\ Release(c)
       \/ call[c] = "waits" /\ Withdraw(c)
    /\ call' = [call EXCEPT ![c] = "cancelled"]
    /\ UNCHANGED <<sessions, messages, made, active, about, object, post, failures, dead>>

-----------------------------------------------------------------------------
(* _post_completion: a dropped connection or a loading model is tried again; *)
(* other HTTP errors are not, and do not count against the host.             *)
Bug_TryAgain(c) ==
    /\ post[c] > 0 /\ post' = [post EXCEPT ![c] = IF @ = 1 THEN Attempts ELSE @ - 1]
    /\ UNCHANGED <<sessions, messages, made, active, queue, call, about, object, failures, dead>>
TryAgain(c) ==
    /\ post[c] > 1 /\ post' = [post EXCEPT ![c] = @ - 1]
    /\ UNCHANGED <<sessions, messages, made, active, queue, call, about, object, failures, dead>>

(* What the awaiting call makes of the outcome of its thread, if it is there. *)
Told(c) ==
    IF call[c] = "asks"
    THEN /\ Release(c) /\ call' = [call EXCEPT ![c] = "told"]
         /\ messages' = [messages EXCEPT ![object[c]] = Append(@, <<c, "assistant">>)]
    ELSE UNCHANGED <<queue, call, messages>>
Bug_TakenBack(c) ==
    /\ messages' = [messages EXCEPT ![object[c]] = Front(@)]
    /\ IF call[c] = "asks"
       THEN Release(c) /\ call' = [call EXCEPT ![c] = "failed"] ELSE UNCHANGED <<queue, call>>
TakenBack(c) ==
    IF call[c] = "asks"
    THEN /\ Release(c) /\ call' = [call EXCEPT ![c] = "failed"]
         /\ messages' = [messages EXCEPT ![object[c]] = Front(@)]
    ELSE UNCHANGED <<queue, call, messages>>

Replies(c) ==
    /\ post[c] > 0 /\ post' = [post EXCEPT ![c] = 0] /\ Told(c)
    /\ UNCHANGED <<sessions, made, active, about, object, failures, dead>>
Refuses(c) ==
    /\ post[c] > 0 /\ post' = [post EXCEPT ![c] = 0] /\ TakenBack(c)
    /\ UNCHANGED <<sessions, made, active, about, object, failures, dead>>

Count == IF failures + 1 = Threshold THEN failures' = 0 /\ dead' = TRUE
                                     ELSE failures' = failures + 1 /\ UNCHANGED dead
Unreachable(c) ==
    /\ post[c] = 1 /\ post' = [post EXCEPT ![c] = 0] /\ TakenBack(c) /\ Count
    /\ UNCHANGED <<sessions, made, active, about, object>>

(* A probe of discover answers; the cooldown runs out. *)
Probed ==
    /\ failures' = 0 /\ dead' = FALSE /\ <<failures, dead>> # <<0, FALSE>>
    /\ UNCHANGED <<sessions, messages, made, active, queue, call, about, object, post>>
CooledOff ==
    /\ dead /\ dead' = FALSE
    /\ UNCHANGED <<sessions, messages, made, active, queue, call, about, object, post, failures>>

Thread(c) == TryAgain(c) \/ Replies(c) \/ Refuses(c) \/ Unreachable(c)

Next ==
    \/ \E s \in Names : Start(s) \/ SetActive(s) \/ End(s)
    \/ \E c \in Calls : Enters(c) \/ Cancel(c) \/ Thread(c) \/ \E s \in Names : Send(c, s)
    \/ Probed \/ CooledOff

(* Every try has a timeout, so a thread ends; a free lock goes to its turn.  *)
Fairness == \A c \in Calls : WF_vars(Enters(c) \/ Thread(c))
Spec == Init /\ [][Next]_vars /\ Fairness

-----------------------------------------------------------------------------
Turn(o) == LET asking == {c \in Calls : call[c] = "asks" /\ object[c] = o}
           IN  IF asking = {} THEN None ELSE CHOOSE c \in asking : TRUE
Talk == INSTANCE Conversation
            WITH log <- messages, turn <- [o \in Objects |-> Turn(o)]
(* Each session object is a conversation: its calls take turns, also across  *)
(* the end and a new start of the name, and nobody's rollback takes another  *)
(* caller's message.                                                         *)
LocalTakesTurns == Talk!Spec

(* The history is what the callers know: an answered call left its question  *)
(* and its answer, one behind the other, a refused one nothing, a cancelled  *)
(* one its question.                                                         *)
Left(c) == CASE call[c] = "told" -> <<"user", "assistant">>
             [] call[c] \in {"asks", "cancelled"} -> <<"user">>
             [] OTHER -> <<>>
HistoryIsTold ==
    \A c \in Calls : object[c] # None =>
        LET said == messages[object[c]]
        IN  \E k \in 0..Len(said) - Len(Left(c)) :
               /\ \A i \in DOMAIN Left(c) : said[k + i] = <<c, Left(c)[i]>>
               /\ \A i \in DOMAIN said : said[i][1] = c => i - k \in DOMAIN Left(c)

(* Every question ends, although hosts may be gone: the tries are bounded.   *)
LocalCallsEnd == \A c \in Calls : []<>(call[c] \notin {"waits", "asks"})
=============================================================================
