------------------------------- MODULE Peers -------------------------------
(***************************************************************************)
(* The inbox of a codex TUI (peer_worker.py, peer_server.py, peer.py and   *)
(* the peer tools of server.py).  codex_peer_register starts a worker that *)
(* lists itself in ~/.claude/sessions and appends what Claude sessions     *)
(* send it to a mailbox file, check_messages drains that file.  One name   *)
(* is modelled, with the processes started for it one after the other.     *)
(***************************************************************************)
EXTENDS Naturals, FiniteSets

CONSTANTS Pids,        \* processes of workers
          Messages,
          TooLong,     \* sets of messages of more than _max_chars in one reply
          MaxCrashes,  \* bound: crashes of the bridge
          MaxSweeps,   \* bound: records swept by Claude sessions
          None

VARIABLES process,    \* process[p]: the life of a worker
          tracked,    \* the entry of _peer_workers, None without
          listed,     \* pids with a session record and a key on disk
          mailbox,    \* messages in the file
          draining,   \* what check_messages has read and not yet cleared, None outside
          message,    \* message[m]: where m is, a pid while its worker has it
          shown,      \* messages check_messages returned
          overtaken,  \* messages appended between the read and the clearing
          torn,       \* the file ends in the middle of a line
          spoilt,     \* messages whose line does not parse
          unreturned,     \* messages read and cleared of which no reply has the whole
          crashes, sweeps

file == <<mailbox, draining, shown, overtaken, torn, spoilt, unreturned>>
vars == <<process, tracked, listed, message, file, crashes, sweeps>>

\* os.kill(pid, 0) succeeds for a zombie too.
Alive(p) == process[p] \in {"starting", "listening", "dying", "zombie"}

\* _sweep_stale, when a worker starts: records of dead workers of its name.
Stale == {p \in listed : ~ Alive(p)}

\* _write_registry: the record with its key.
Written(p) == listed \cup {p}

\* list_sessions and resolve_recipient: any record whose process is there
\* may be picked, in the order of the directory.
Reachable == {p \in listed : Alive(p)}

\* start_unix_server: a socket of a process that has ended refuses.
Accepts(p) == process[p] = "listening"

Init ==
    /\ process = [p \in Pids |-> "none"]
    /\ tracked = None /\ listed = {}
    /\ mailbox = {} /\ draining = None
    /\ message = [m \in Messages |-> "unsent"]
    /\ shown = {} /\ overtaken = {} /\ torn = FALSE /\ spoilt = {} /\ unreturned = {}
    /\ crashes = 0 /\ sweeps = 0

Bug_Fresh == TRUE

\* poll() of the Popen tracked for this name says that it has ended.
Fresh == \A p \in Pids : tracked = p => process[p] \in {"zombie", "gone"}

\* Popen collects the children that have ended.
Reaped == [p \in Pids |-> IF process[p] = "zombie" THEN "gone" ELSE process[p]]

Empties == mailbox' = {} /\ torn' = FALSE

Register(p) ==
    /\ process[p] = "none" /\ Fresh
    /\ process' = [Reaped EXCEPT ![p] = "starting"]
    /\ tracked' = p
    /\ UNCHANGED <<listed, message, file, crashes, sweeps>>

Listens(p) ==
    /\ process[p] = "starting"
    /\ process' = [process EXCEPT ![p] = "listening"]
    /\ listed' = Written(p) \ Stale
    /\ UNCHANGED <<tracked, message, file, crashes, sweeps>>

Terminated(p) == IF process[p] \in {"starting", "listening"} THEN "dying" ELSE process[p]

\* codex_peer_stop, or the bridge stops in order.
Stop ==
    /\ tracked # None
    /\ process' = [process EXCEPT ![tracked] = Terminated(tracked)]
    /\ tracked' = None
    /\ UNCHANGED <<listed, message, file, crashes, sweeps>>

\* SIGTERM has its default action, so the finally of the worker does not run
\* and its record and socket stay.  What it had not appended is lost; of the
\* message it was appending, the beginning of a line may be in the file.
Exits(p) ==
    /\ process[p] = "dying"
    /\ process' = [process EXCEPT ![p] = "zombie"]
    /\ message' = [m \in Messages |-> IF message[m] = p THEN "lost" ELSE message[m]]
    /\ torn' \in {torn, torn \/ \E m \in Messages : message[m] = p}
    /\ UNCHANGED <<tracked, listed, mailbox, draining, shown, overtaken, spoilt, unreturned, crashes, sweeps>>

\* The bridge dies, maybe between the clearing and the reply.  Its workers are
\* sessions of their own and live on.
Crash(cleared) ==
    /\ crashes < MaxCrashes
    /\ crashes' = crashes + 1
    /\ tracked' = None
    /\ process' = Reaped
    /\ draining' = None
    /\ IF cleared /\ draining # None
       THEN Empties /\ unreturned' = unreturned \cup draining
       ELSE UNCHANGED <<mailbox, torn, unreturned>>
    /\ UNCHANGED <<listed, message, shown, overtaken, spoilt, sweeps>>

\* A Claude session removes the record.
Swept(p) ==
    /\ sweeps < MaxSweeps
    /\ p \in listed
    /\ sweeps' = sweeps + 1
    /\ listed' = listed \ {p}
    /\ UNCHANGED <<process, tracked, message, file, crashes>>

Bug_Heartbeat(p) ==
    /\ process[p] = "listening" /\ p \in listed
    /\ UNCHANGED vars

\* _write_registry every three seconds.
Heartbeat(p) ==
    /\ process[p] = "listening"
    /\ listed' = Written(p)
    /\ UNCHANGED <<process, tracked, message, file, crashes, sweeps>>

\* send: it is refused when nobody is reachable, or when the one picked has
\* ended and only its record and its zombie are left.
Send(m) ==
    /\ message[m] = "unsent"
    /\ \/ \E p \in Reachable :
             message' = [message EXCEPT ![m] = IF Accepts(p) THEN p ELSE "refused"]
       \/ Reachable = {} /\ message' = [message EXCEPT ![m] = "refused"]
    /\ UNCHANGED <<process, tracked, listed, file, crashes, sweeps>>

Bug_Append(p, m) ==
    /\ message[m] = p /\ process[p] = "listening"
    /\ mailbox' = {m} /\ torn' = FALSE
    /\ message' = [message EXCEPT ![m] = "kept"]
    /\ overtaken' = IF draining # None THEN overtaken \cup {m} ELSE overtaken
    /\ spoilt' = IF torn THEN spoilt \cup {m} ELSE spoilt
    /\ UNCHANGED <<process, tracked, listed, draining, shown, unreturned, crashes, sweeps>>

\* _dispatch runs the handler of the worker.  A line that follows a torn one
\* continues it.
Append(p, m) ==
    /\ message[m] = p /\ process[p] = "listening"
    /\ mailbox' = mailbox \cup {m} /\ torn' = FALSE
    /\ message' = [message EXCEPT ![m] = "kept"]
    /\ overtaken' = IF draining # None THEN overtaken \cup {m} ELSE overtaken
    /\ spoilt' = IF torn THEN spoilt \cup {m} ELSE spoilt
    /\ UNCHANGED <<process, tracked, listed, draining, shown, unreturned, crashes, sweeps>>

\* check_messages reads the file and then clears it, while workers append.
Drain ==
    /\ draining = None
    /\ draining' = mailbox
    /\ UNCHANGED <<process, tracked, listed, message, mailbox, shown, overtaken, torn, spoilt, unreturned, crashes, sweeps>>

Bug_Replies == SUBSET (draining \ spoilt)

\* Lines that do not parse are passed over, and of a reply that is too long
\* only the beginning is returned.
Replies ==
    LET parsed == draining \ spoilt IN
    IF parsed \in TooLong THEN SUBSET parsed ELSE {parsed}

Clear ==
    /\ draining # None
    /\ Empties
    /\ \E whole \in Replies : shown' = shown \cup whole /\ unreturned' = unreturned \cup (draining \ whole)
    /\ draining' = None
    /\ UNCHANGED <<process, tracked, listed, message, overtaken, spoilt, crashes, sweeps>>

Next ==
    \/ \E p \in Pids :
          \/ Register(p) \/ Listens(p) \/ Exits(p) \/ Swept(p) \/ Heartbeat(p)
          \/ \E m \in Messages : Append(p, m)
    \/ \E m \in Messages : Send(m)
    \/ \E cleared \in BOOLEAN : Crash(cleared)
    \/ Stop \/ Drain \/ Clear

\* The worker's event loop runs, a signalled process exits.
Fairness == \A p \in Pids : WF_vars(Heartbeat(p))

Spec == Init /\ [][Next]_vars /\ Fairness
-----------------------------------------------------------------------------
TypeOK ==
    /\ process \in [Pids -> {"none", "starting", "listening", "dying", "zombie", "gone"}]
    /\ tracked \in Pids \cup {None} /\ listed \subseteq Pids
    /\ mailbox \subseteq Messages /\ shown \subseteq Messages /\ overtaken \subseteq Messages
    /\ draining = None \/ draining \subseteq Messages
    /\ torn \in BOOLEAN /\ spoilt \subseteq Messages /\ unreturned \subseteq Messages
    /\ \A m \in Messages : message[m] \in {"unsent", "refused", "lost", "kept"} \/ message[m] \in Pids
    /\ crashes \in 0 .. MaxCrashes /\ sweeps \in 0 .. MaxSweeps

(* A message in the mailbox stays there until a TUI is shown the whole of it,
   over stops and restarts of workers and bridge.  Only one that is appended
   while a check_messages is between its read and its clearing, or that is
   cleared without being returned whole, may be lost. *)
MailIsKept ==
    \A m \in Messages : message[m] = "kept" => m \in mailbox \cup shown \cup overtaken \cup unreturned

(* Mail is cleared without being returned only when its line does not parse,
   when it came with more mail than a reply holds, or when the bridge has
   crashed. *)
MailIsReturned ==
    \A m \in unreturned \ spoilt : crashes > 0 \/ \E long \in TooLong :
        m \in long /\ \A other \in long : message[other] = "kept"

(* A bridge that has not crashed runs at most one inbox of a name. *)
OneInbox ==
    crashes = 0 => Cardinality({p \in Pids : process[p] \in {"starting", "listening"}}) <= 1

(* Mail goes to one inbox and stays there until it is shown, as far as the
   code goes. *)
InboxIsKept == MailIsKept /\ MailIsReturned /\ OneInbox

(* A worker that listens is listed again, whoever sweeps its record. *)
StaysListed ==
    \A p \in Pids : []<>(process[p] = "listening" => p \in listed)
=============================================================================
