----------------------------- MODULE Dashboard -----------------------------
(***************************************************************************)
(* The live transcript of a room in a browser (server.py, _start_dashboard *)
(* and the page's script).  A watcher polls the room's file and emits what *)
(* was appended, by index; the page loads a transcript once, when the room *)
(* is opened, and then appends what the events bring.  One room and one    *)
(* page; cards and typing rows are left out.                               *)
(***************************************************************************)
EXTENDS Naturals, Sequences, SequencesExt

CONSTANTS MaxMessages,  \* bound: messages ever written to the room
          MaxBreaks,    \* bound: disconnections of the page
          None

VARIABLES room,        \* messages of the file, numbered as they are made
          made,        \* messages made so far
          compressed,  \* the room was compressed since the last poll
          changed,     \* the file's mtime differs from seen_mtime
          counted,     \* seen_count of the watcher
          stream,      \* the page's EventSource: off, opening or on
          queue,       \* events for the page, those on the wire included
          transcript,  \* hydratedTranscript of the page, None without
          response,    \* the answer of /api/rooms/<id> on its way, None without
          missed,      \* an event for a transcript the page wants was lost on it
          breaks

vars == <<room, made, compressed, changed, counted, stream, queue, transcript, response, missed, breaks>>

Init ==
    /\ room = <<>> /\ made = 0 /\ compressed = FALSE /\ changed = FALSE
    /\ counted = 0
    /\ stream = "off" /\ queue = <<>>
    /\ transcript = None /\ response = None
    /\ missed = FALSE /\ breaks = 0

\* A participant speaks and the room is saved.
Say ==
    /\ made < MaxMessages
    /\ made' = made + 1
    /\ room' = Append(room, made + 1)
    /\ changed' = TRUE
    /\ UNCHANGED <<compressed, counted, stream, queue, transcript, response, missed, breaks>>

\* The oldest round becomes one summary.
Compress ==
    /\ made < MaxMessages /\ Len(room) >= 2
    /\ made' = made + 1
    /\ room' = <<made + 1>> \o SubSeq(room, 3, Len(room))
    /\ changed' = TRUE /\ compressed' = TRUE
    /\ UNCHANGED <<counted, stream, queue, transcript, response, missed, breaks>>

Wanted == transcript # None \/ response # None

Bug_News == [i \in 1 .. Len(room) |-> [type |-> "message", index |-> i, message |-> room[i]]]

\* What _watch_rooms makes of a file: a reset when it is shorter, otherwise
\* the messages behind the count.
News ==
    IF Len(room) < counted THEN <<[type |-> "reset"]>>
    ELSE [i \in 1 .. Len(room) - counted |->
             [type |-> "message", index |-> counted + i, message |-> room[counted + i]]]

\* One round of the watcher.  Only registered queues get the events; a
\* compressed room that is not shorter than before looks as if it had grown.
Poll ==
    /\ changed
    /\ queue' = IF stream = "on" THEN queue \o News ELSE queue
    /\ missed' = (missed \/ (Wanted /\ ((News # <<>> /\ stream # "on")
                                        \/ (compressed /\ Len(room) >= counted))))
    /\ counted' = Len(room)
    /\ changed' = FALSE /\ compressed' = FALSE
    /\ UNCHANGED <<room, made, stream, transcript, response, breaks>>

\* handle_events: the snapshot is written before the queue is registered.
Connect ==
    /\ stream = "off"
    /\ stream' = "opening"
    /\ UNCHANGED <<room, made, compressed, changed, counted, queue, transcript, response, missed, breaks>>

Registered ==
    /\ stream = "opening"
    /\ stream' = "on"
    /\ UNCHANGED <<room, made, compressed, changed, counted, queue, transcript, response, missed, breaks>>

\* The connection breaks: what was queued or on the wire is gone.
Break ==
    /\ breaks < MaxBreaks /\ stream # "off"
    /\ breaks' = breaks + 1
    /\ stream' = "off" /\ queue' = <<>>
    /\ missed' = (missed \/ (Wanted /\ queue # <<>>))
    /\ UNCHANGED <<room, made, compressed, changed, counted, transcript, response>>

\* openDetail of a room without a transcript: the server reads the file.
Open ==
    /\ transcript = None /\ response = None
    /\ response' = room
    /\ missed' = FALSE
    /\ UNCHANGED <<room, made, compressed, changed, counted, stream, queue, transcript, breaks>>

Hydrate ==
    /\ response # None
    /\ transcript' = response
    /\ response' = None
    /\ UNCHANGED <<room, made, compressed, changed, counted, stream, queue, missed, breaks>>

Bug_Shown(e) == Append(transcript, e.message)

\* A message the transcript has already is dropped.
Shown(e) == IF e.index > Len(transcript) THEN Append(transcript, e.message) ELSE transcript

\* onmessage: an event for a room without transcript is ignored, even while
\* the transcript is being fetched.
Receive ==
    /\ queue # <<>>
    /\ LET e == Head(queue) IN
       /\ transcript' = CASE e.type = "reset" -> None
                          [] transcript = None -> None
                          [] OTHER -> Shown(e)
       /\ missed' = (missed \/ (response # None
                                /\ (e.type = "reset" \/ e.index > Len(response))))
    /\ queue' = Tail(queue)
    /\ UNCHANGED <<room, made, compressed, changed, counted, stream, response, breaks>>

Next ==
    \/ Say \/ Compress \/ Poll
    \/ Connect \/ Registered \/ Break
    \/ Open \/ Hydrate \/ Receive

\* The watcher polls every two seconds, the page processes what arrives.
Fairness == WF_vars(Poll) /\ WF_vars(Receive) /\ WF_vars(Registered) /\ WF_vars(Hydrate)

Spec == Init /\ [][Next]_vars /\ Fairness
-----------------------------------------------------------------------------
Ids == 1 .. MaxMessages
Events == [type : {"reset"}] \cup [type : {"message"}, index : Ids, message : Ids]

TypeOK ==
    /\ room \in Seq(Ids) /\ made \in 0 .. MaxMessages
    /\ compressed \in BOOLEAN /\ changed \in BOOLEAN /\ missed \in BOOLEAN
    /\ counted \in 0 .. MaxMessages
    /\ stream \in {"off", "opening", "on"}
    /\ queue \in Seq(Events)
    /\ transcript = None \/ transcript \in Seq(Ids)
    /\ response = None \/ response \in Seq(Ids)
    /\ breaks \in 0 .. MaxBreaks

ResetIsComing == compressed \/ \E i \in DOMAIN queue : queue[i].type = "reset"

(* A transcript the page shows is the beginning of the room, without a
   message twice or left out, unless a reset is under way.  What breaks it
   are the ways the page misses an event, and no other: the connection was
   not there, the transcript was still being fetched, or a compression went
   unnoticed. *)
TranscriptIsTrue ==
    (transcript # None /\ ~ missed /\ ~ ResetIsComing) => IsPrefix(transcript, room)

(* And it catches up with the room as long as it is connected. *)
TranscriptCatchesUp ==
    []<>(transcript \in {None, room} \/ missed \/ stream # "on")
=============================================================================
