---------------------------- MODULE RoomRegistry ----------------------------
(* The rooms of RoomManager (rooms.py) as the tool handlers of server.py use *)
(* them: an object per id in memory, a file per id, calls that add to a room *)
(* at once, after a wait for the lock, or after a reply of a model. What a   *)
(* run does within its rounds is module Room; here it is one reply.          *)
EXTENDS Naturals, FiniteSets, FiniteSetsExt

CONSTANTS Rooms,      \* room ids a caller may choose
          Challenged, \* the id of the challenge room of every room
          Spare,      \* the ids an automatic fork may draw
          Objects,    \* 1..n: the room objects in the order they are made
          Calls,      \* tool calls
          None,
          MaxCrashes, MaxFaults

Ids == Rooms \cup {Challenged} \cup Spare

VARIABLES rooms,    \* self.rooms: the object of an id, or None
          said,     \* the messages of an object: the calls that added them
          made,     \* how many objects were made
          file,     \* the file of an id: <<object, messages>>, or None
          call,     \* idle, prepares, queued, asks, told, refused, cut
          op,       \* the tool a call is of
          id,       \* the room it is about
          object,   \* the object it captured
          replaced, \* ids whose object another one took the place of
          crashes, faults

vars == <<rooms, said, made, file, call, op, id, object, replaced, crashes, faults>>

Tools == {"create", "fork", "challenge", "run", "synthesize", "inject", "add"}
Open == {r \in Ids : rooms[r] # None}
Busy == {"prepares", "queued", "asks"}

TypeOK ==
    /\ rooms \in [Ids -> Objects \cup {None}] /\ made \in 0..Cardinality(Objects)
    /\ said \in [Objects -> SUBSET (Calls \X {"told", "reply"})]
    /\ file \in [Ids -> {None} \cup [object : Objects, said : SUBSET (Calls \X {"told", "reply"})]]
    /\ call \in [Calls -> Busy \cup {"idle", "told", "refused", "cut"}]
    /\ op \in [Calls -> Tools \cup {None}] /\ id \in [Calls -> Ids \cup {None}]
    /\ object \in [Calls -> Objects \cup {None}] /\ replaced \subseteq Ids
    /\ crashes \in 0..MaxCrashes /\ faults \in 0..MaxFaults

Init ==
    /\ rooms = [r \in Ids |-> None] /\ file = rooms /\ made = 0
    /\ said = [o \in Objects |-> {}]
    /\ call = [c \in Calls |-> "idle"] /\ op = [c \in Calls |-> None] /\ id = op /\ object = op
    /\ replaced = {} /\ crashes = 0 /\ faults = 0

-----------------------------------------------------------------------------
(* _save_room: the object of the id now, whichever the caller changed; an    *)
(* error is printed and that is all.                                         *)
Saves(r, objects, messages, ok) ==
    /\ file' = IF ok /\ objects[r] # None
               THEN [file EXCEPT ![r] = [object |-> objects[r], said |-> messages[objects[r]]]]
               ELSE file
    /\ ok \/ faults < MaxFaults
    /\ faults' = IF ok THEN faults ELSE faults + 1

(* _try_load_room: only a room that is not in memory is read. *)
Loaded(r) == IF rooms[r] = None /\ file[r] # None
             THEN [rooms EXCEPT ![r] = file[r].object] ELSE rooms
Bug_Read(r) == IF file[r] # None THEN [said EXCEPT ![file[r].object] = file[r].said] ELSE said
Read(r) == IF rooms[r] = None /\ file[r] # None
           THEN [said EXCEPT ![file[r].object] = file[r].said] ELSE said

Insert(r, c, objects, messages, ok) ==
    LET o == made + 1
    IN  /\ o \in Objects /\ made' = o
        /\ rooms' = [objects EXCEPT ![r] = o]
        /\ said' = [messages EXCEPT ![o] = {<<c, "told">>}]
        /\ replaced' = IF objects[r] # None \/ file[r] # None THEN replaced \cup {r} ELSE replaced
        /\ object' = [object EXCEPT ![c] = o]
        /\ Saves(r, rooms', said', ok)

Becomes(c, state) == call' = [call EXCEPT ![c] = state]
Begins(c, tool, r) ==
    /\ call[c] = "idle" /\ op' = [op EXCEPT ![c] = tool] /\ id' = [id EXCEPT ![c] = r]

(* create: an id in use sends it to an automatic fork under a fresh id; both *)
(* await (recall, summary) between the check and the insertion.              *)
Create(c, r) ==
    /\ r \in Rooms
    /\ IF r \in Open
       THEN \E s \in Spare \ (Open \cup {id[d] : d \in Calls}) : Begins(c, "fork", s)
       ELSE Begins(c, "create", r)
    /\ Becomes(c, "prepares")
    /\ UNCHANGED <<rooms, said, made, file, object, replaced, crashes, faults>>

Fork(c, old, new) ==
    /\ new \in Rooms /\ old # new /\ Begins(c, "fork", new)
    /\ rooms' = Loaded(old) /\ said' = Read(old)
    /\ Becomes(c, IF new \in Open THEN "refused" ELSE "prepares")
    /\ UNCHANGED <<made, file, object, replaced, crashes, faults>>

Prepared(c, ok) ==
    /\ call[c] = "prepares" /\ Insert(id[c], c, rooms, said, ok) /\ Becomes(c, "told")
    /\ UNCHANGED <<op, id, crashes>>

(* challenge: a new object under the fixed id, then a run of it. *)
Challenge(c, r, ok) ==
    /\ r \in Rooms /\ Loaded(r)[r] # None
    /\ Begins(c, "challenge", Challenged) /\ Insert(Challenged, c, Loaded(r), Read(r), ok)
    /\ Becomes(c, "queued") /\ UNCHANGED crashes

(* room_inject, room_set_preamble, room_set_visibility, the settings and the *)
(* prompt of room_run: added and saved in one go.                            *)
Bug_Adds(r, objects, c, ok) ==
    /\ said' = [Read(r) EXCEPT ![objects[r]] = @ \cup {<<c, "told">>}] /\ UNCHANGED <<file, faults>>
Adds(r, objects, c, ok) ==
    /\ said' = [Read(r) EXCEPT ![objects[r]] = @ \cup {<<c, "told">>}]
    /\ Saves(r, objects, said', ok)

Inject(c, r, ok) ==
    /\ Begins(c, "inject", r) /\ Loaded(r)[r] # None
    /\ rooms' = Loaded(r) /\ Adds(r, Loaded(r), c, ok)
    /\ object' = [object EXCEPT ![c] = Loaded(r)[r]] /\ Becomes(c, "told")
    /\ UNCHANGED <<made, replaced, crashes>>
Run(c, r, ok) ==
    /\ Begins(c, "run", r) /\ Loaded(r)[r] # None
    /\ rooms' = Loaded(r) /\ Adds(r, Loaded(r), c, ok)
    /\ object' = [object EXCEPT ![c] = Loaded(r)[r]] /\ Becomes(c, "queued")
    /\ UNCHANGED <<made, replaced, crashes>>

(* The lock of the id; the object of the id is looked up inside. *)
LockFree(r) == \A d \in Calls : call[d] = "asks" /\ id[d] = r => op[d] = "synthesize"
Enter(c) ==
    /\ call[c] = "queued" /\ op[c] \in {"run", "challenge"} /\ LockFree(id[c])
    /\ object' = [object EXCEPT ![c] = rooms[id[c]]] /\ Becomes(c, "asks")
    /\ UNCHANGED <<rooms, said, made, file, op, id, replaced, crashes, faults>>

Add(c, r) ==
    /\ Begins(c, "add", r) /\ Loaded(r)[r] # None /\ rooms' = Loaded(r) /\ said' = Read(r)
    /\ Becomes(c, "queued") /\ UNCHANGED <<made, file, object, replaced, crashes, faults>>
Added(c, ok) ==
    /\ call[c] = "queued" /\ op[c] = "add" /\ LockFree(id[c])
    /\ Adds(id[c], rooms, c, ok) /\ Becomes(c, "told")
    /\ object' = [object EXCEPT ![c] = rooms[id[c]]]
    /\ UNCHANGED <<rooms, made, op, id, replaced, crashes>>

Synthesize(c, r) ==
    /\ Begins(c, "synthesize", r) /\ Loaded(r)[r] # None
    /\ rooms' = Loaded(r) /\ said' = Read(r)
    /\ object' = [object EXCEPT ![c] = Loaded(r)[r]] /\ Becomes(c, "asks")
    /\ UNCHANGED <<made, file, replaced, crashes, faults>>

(* A reply goes to the object that was captured; the object of the id is     *)
(* saved.                                                                    *)
Reply(c, ok) ==
    /\ call[c] = "asks"
    /\ said' = [said EXCEPT ![object[c]] = @ \cup {<<c, "reply">>}]
    /\ Saves(id[c], rooms, said', ok) /\ Becomes(c, "told")
    /\ UNCHANGED <<rooms, made, op, id, object, replaced, crashes>>
Cancel(c) ==
    /\ call[c] \in Busy /\ Becomes(c, "cut")
    /\ UNCHANGED <<rooms, said, made, file, op, id, object, replaced, crashes, faults>>

(* The bridge dies and loads the files, all but those it cannot read now. *)
Restart(skipped) ==
    LET read == {r \in Ids : file[r] # None} \ skipped
    IN  /\ crashes < MaxCrashes /\ crashes' = crashes + 1
        /\ skipped \subseteq {r \in Ids : file[r] # None}
        /\ faults' = faults + Cardinality(skipped) /\ faults' <= MaxFaults
        /\ rooms' = [r \in Ids |-> IF r \in read THEN file[r].object ELSE None]
        /\ said' = [o \in Objects |->
                      LET of == {r \in read : file[r].object = o}
                      IN  IF of = {} THEN said[o] ELSE file[CHOOSE r \in of : TRUE].said]
        /\ call' = [c \in Calls |-> IF call[c] \in Busy THEN "cut" ELSE call[c]]
        /\ UNCHANGED <<made, file, op, id, object, replaced>>

Next ==
    \/ \E c \in Calls, r \in Ids, ok \in BOOLEAN :
          \/ Create(c, r) \/ Challenge(c, r, ok) \/ Inject(c, r, ok) \/ Run(c, r, ok)
          \/ Add(c, r) \/ Synthesize(c, r) \/ \E new \in Rooms : Fork(c, r, new)
    \/ \E c \in Calls, ok \in BOOLEAN :
          Prepared(c, ok) \/ Enter(c) \/ Added(c, ok) \/ Reply(c, ok) \/ Cancel(c)
    \/ \E skipped \in SUBSET Ids : Restart(skipped)

Spec == Init /\ [][Next]_vars

-----------------------------------------------------------------------------
Contribution(c) == CASE op[c] = "synthesize" -> {<<c, "reply">>}
                 [] op[c] \in {"run", "challenge"} -> {<<c, "told">>, <<c, "reply">>}
                 [] OTHER -> {<<c, "told">>}
(* What a caller was told to be in a room is in it, for whoever reads it     *)
(* next, through waits, locks and loads, unless the room was replaced (by a  *)
(* second challenge, by two calls that made it at once, or by a create that  *)
(* found it unread), or a file failed before a restart.                      *)
ToldIsKept ==
    \A c \in Calls : call[c] = "told" /\ id[c] \notin replaced =>
        \/ crashes > 0 /\ faults > 0
        \/ Contribution(c) \subseteq said[rooms[id[c]]]

(* The file says what the room says, unless a save failed: every change, also *)
(* one that waited for a lock or a model, is followed by a save of its room.  *)
FileIsCurrent ==
    \A r \in Open : faults = 0 => file[r] = [object |-> rooms[r], said |-> said[rooms[r]]]

(* A room holds what its callers were told, in memory and in its file.       *)
RoomsAreKept == ToldIsKept /\ FileIsCurrent
=============================================================================
