----------------------------- MODULE FileEdits -----------------------------
(***************************************************************************)
(* The tools that edit files: the symbol tools of symbols.py, which run    *)
(* in threads of the executor, and write_file and edit_file of a room,     *)
(* which run on the event loop.  They share one lock per path, compare     *)
(* the text with what they read before they rename the new file into its   *)
(* place, and keep a cache of symbol bodies.  Editors outside the bridge   *)
(* take no lock.                                                           *)
(*                                                                         *)
(* A text is the set of its parts: the rest of its file (the file's name), *)
(* its symbols, and one part for each edit made to it.  An absent file is   *)
(* the empty text.  A call's pass over several files has the files that    *)
(* are left in `left'; `at' is the file of the step in progress.           *)
(***************************************************************************)
EXTENDS Naturals, FiniteSets, TLC

CONSTANTS
    Plans,      \* for each call what it may be: <<tool, file, destination>>
    Absent,     \* the files that may not be there at first
    SymbolOf,   \* the symbol of each file that calls ask for
    Files, Calls, Editors, None, Ended, MaxCrashes

VARIABLES
    disk,       \* the text of each file
    bak,        \* the text of each file's .bak
    stamp,      \* the modification time of each file
    lock,       \* _path_write_locks: the call that holds the file's lock
    call,       \* the calls in progress
    cache,      \* _symbol_body_cache
    seen,       \* _read_files: the files a participant has read
    saved,      \* the editors that have saved
    raced,      \* the editors that saved between a comparison and its rename
    overtaken,  \* the files written between a write and its _cache_put
    crashes

vars == <<disk, bak, stamp, lock, call, cache, seen, saved, raced, overtaken, crashes>>

Symbols == {SymbolOf[f] : f \in Files}
Parts   == Files \cup Symbols \cup Calls \cup Editors
Texts   == SUBSET Parts

(* The tools by what they do.  patch: file_patch, symbol_rename and
   symbol_insert_child; edit: symbol_patch and symbol_edit; cut:
   symbol_delete; project: symbol_rename_project; replace: edit_file. *)
Threads == {"patch", "edit", "cut", "move", "project"}
OnLoop  == {"write", "replace"}
Steps   == {"lock", "second", "check", "scan", "verify", "apply", "rename", "cut", "put"}

TypeOK ==
    /\ disk \in [Files -> Texts]
    /\ bak \in [Files -> Texts]
    /\ stamp \in [Files -> Nat]
    /\ lock \in [Files -> Calls \cup {None}]
    /\ \A c \in Calls : call[c] \in {None, Ended} \/
         call[c] \in [kind : Threads \cup OnLoop, src : Files, dst : Files, step : Steps,
                      text : [Files -> Texts], left : SUBSET Files, at : Files]
    /\ \A f \in Files : cache[f] = None \/ cache[f] \in [stamp : Nat, text : Texts]
    /\ seen \subseteq Files
    /\ saved \subseteq Editors /\ raced \subseteq saved
    /\ overtaken \subseteq Files
    /\ crashes \in 0..MaxCrashes

Init ==
    /\ \E here \in {Files, Files \ Absent} :
         disk = [f \in Files |-> IF f \in here THEN {f, SymbolOf[f]} ELSE {}]
    /\ bak = [f \in Files |-> {}]
    /\ stamp = [f \in Files |-> 0]
    /\ lock = [f \in Files |-> None]
    /\ call = [c \in Calls |-> None]
    /\ cache = [f \in Files |-> None]
    /\ seen = {} /\ saved = {} /\ raced = {} /\ overtaken = {}
    /\ crashes = 0

Live(c)  == call[c] \notin {None, Ended}
At(c, s) == Live(c) /\ call[c].step = s
LoopIsFree == \A c \in Calls : Live(c) => call[c].kind \notin OnLoop

-----------------------------------------------------------------------------
(* Starting a call *)

(* The checks before the lock: the file is there, and write_file overwrites
   only what the participant has read.  Nothing starts while a room's tool
   has the event loop. *)
Start(c, kind, f, g) ==
    /\ call[c] = None /\ LoopIsFree
    /\ kind # "write" => disk[f] # {}
    /\ kind = "write" /\ disk[f] # {} => f \in seen
    /\ call' = [call EXCEPT ![c] =
                  [kind |-> kind, src |-> f, dst |-> g, at |-> f,
                   step |-> IF kind = "project" THEN "scan" ELSE "lock",
                   text |-> [h \in Files |-> {}], left |-> {}]]
    /\ UNCHANGED <<disk, bak, stamp, lock, cache, seen, saved, raced, overtaken, crashes>>

ReadFile(f) ==
    /\ LoopIsFree /\ disk[f] # {}
    /\ seen' = seen \cup {f}
    /\ UNCHANGED <<disk, bak, stamp, lock, call, cache, saved, raced, overtaken, crashes>>

-----------------------------------------------------------------------------
(* The steps of a call *)

Bug_Drop(c) == lock

(* Leaving the `with' blocks, on every path. *)
Drop(c) == [f \in Files |-> IF lock[f] = c THEN None ELSE lock[f]]

Over(c) ==
    /\ call' = [call EXCEPT ![c] = Ended]
    /\ lock' = Drop(c)

(* What the call looks for is in the text. *)
Located(f, text) == SymbolOf[f] \in text

Found(kind, f, text) ==
    CASE kind \in {"edit", "cut", "move"} -> Located(f, text)
      [] OTHER                            -> f \in text

(* The lock is taken, and the text is read. *)
Take(c) ==
    LET k == call[c]
    IN /\ At(c, "lock") /\ lock[k.src] = None
       /\ k.kind # "write" /\ Found(k.kind, k.src, disk[k.src])
       /\ lock' = [lock EXCEPT ![k.src] = c]
       /\ call' = [call EXCEPT ![c].text[k.src] = disk[k.src],
                               ![c].step = IF k.kind = "move" THEN "second" ELSE "check"]
       /\ UNCHANGED <<disk, bak, stamp, cache, seen, saved, raced, overtaken, crashes>>

(* What it looks for is not there or is not unique, or a marker or a position
   in the new text has no place in the old one. *)
Refuse(c) ==
    /\ At(c, "lock") /\ lock[call[c].src] = None /\ call[c].kind # "write"
    /\ Over(c)
    /\ UNCHANGED <<disk, bak, stamp, cache, seen, saved, raced, overtaken, crashes>>

(* write_file compares nothing: it keeps a copy of the text it replaces. *)
TakeAndKeep(c) ==
    LET f == call[c].src
    IN /\ At(c, "lock") /\ lock[f] = None /\ call[c].kind = "write"
       /\ lock' = [lock EXCEPT ![f] = c]
       /\ call' = [call EXCEPT ![c].step = "rename"]
       /\ bak' = IF disk[f] # {} THEN [bak EXCEPT ![f] = disk[f]] ELSE bak
       /\ UNCHANGED <<disk, stamp, cache, seen, saved, raced, overtaken, crashes>>

TakeSecond(c) ==
    LET g == call[c].dst
    IN /\ At(c, "second") /\ lock[g] = None
       /\ lock' = [lock EXCEPT ![g] = c]
       /\ call' = [call EXCEPT ![c].text[g] = disk[g], ![c].step = "check"]
       /\ UNCHANGED <<disk, bak, stamp, cache, seen, saved, raced, overtaken, crashes>>

Bug_Unchanged(c, f) == TRUE

(* The text is still the one that was read: _content_hash. *)
Unchanged(c, f) == disk[f] = call[c].text[f]

(* A new file that nobody has created meanwhile needs no comparison. *)
Check(c) ==
    /\ At(c, "check")
    /\ LET k == call[c]
       IN IF Unchanged(c, k.src) /\ (k.dst # k.src /\ disk[k.dst] # {} => Unchanged(c, k.dst))
          THEN /\ call' = [call EXCEPT ![c].step = "rename", ![c].at = k.dst]
               /\ UNCHANGED lock
          ELSE Over(c)
    /\ UNCHANGED <<disk, bak, stamp, cache, seen, saved, raced, overtaken, crashes>>

Without(text, f) == text \ {SymbolOf[f]}

(* The new text of the file of this step. *)
NewText(c) ==
    LET k == call[c]
        t == k.text[k.at]
    IN CASE k.kind = "write" -> {c}
         [] k.kind = "cut"   -> Without(t, k.src)
         [] k.kind = "move"  -> t \cup {SymbolOf[k.src]}
         [] OTHER            -> t \cup {c}

(* Somebody wrote f: the calls that are about to cache a body of it will
   stamp it with this write. *)
Overtakes(c, f) ==
    overtaken' = IF \E d \in Calls \ {c} : At(d, "put") /\ call[d].src = f
                 THEN overtaken \cup {f} ELSE overtaken

Put(f, text) ==
    /\ disk' = [disk EXCEPT ![f] = text]
    /\ stamp' = [stamp EXCEPT ![f] = @ + 1]

(* _cache_pop and _cache_pop_file *)
Popped(files) == [f \in Files |-> IF f \in files THEN None ELSE cache[f]]

(* _atomic_write_text: the rename.  The lock is left before the cache is
   brought up to date; a move still has to cut the symbol out of its source. *)
Rename(c) ==
    LET k == call[c]
        rest == k.left \ {k.at}
    IN /\ At(c, "rename")
       /\ Put(k.at, NewText(c)) /\ Overtakes(c, k.at)
       /\ \/ /\ k.kind = "move"
             /\ call' = [call EXCEPT ![c].step = "cut"]
             /\ UNCHANGED <<lock, cache>>
          \/ /\ k.kind = "project"
             /\ call' = [call EXCEPT ![c] = IF rest = {} THEN Ended
                                            ELSE [@ EXCEPT !.left = rest, !.step = "apply"]]
             /\ lock' = Drop(c)
             /\ cache' = Popped({k.at})
          \/ k.kind \in OnLoop /\ Over(c) /\ UNCHANGED cache
          \/ /\ k.kind \in Threads \ {"move", "project"}
             /\ call' = [call EXCEPT ![c].step = "put"]
             /\ lock' = Drop(c)
             /\ UNCHANGED cache
       /\ UNCHANGED <<bak, seen, saved, raced, crashes>>

CutSource(c) ==
    LET k == call[c]
    IN /\ At(c, "cut")
       /\ Put(k.src, Without(k.text[k.src], k.src)) /\ Overtakes(c, k.src)
       /\ call' = [call EXCEPT ![c].step = "put"]
       /\ lock' = Drop(c)
       /\ UNCHANGED <<bak, cache, seen, saved, raced, crashes>>

(* _atomic_write_text raises: the call answers with the error. *)
WriteFails(c) ==
    /\ At(c, "rename") \/ At(c, "cut")
    /\ Over(c)
    /\ UNCHANGED <<disk, bak, stamp, cache, seen, saved, raced, overtaken, crashes>>

(* After the lock: symbol_patch and symbol_edit cache the body they wrote,
   with the file's time as it is now; the others drop it. *)
PutsInCache(c) ==
    LET f == call[c].src
    IN /\ At(c, "put")
       /\ cache' = IF call[c].kind = "edit"
                   THEN [cache EXCEPT ![f] = [stamp |-> stamp[f], text |-> call[c].text[f] \cup {c}]]
                   ELSE Popped({f, call[c].dst})
       /\ Over(c)
       /\ UNCHANGED <<disk, bak, stamp, seen, saved, raced, overtaken, crashes>>

-----------------------------------------------------------------------------
(* A rename over the project: every file that mentions the name is read,
   then compared, then written.  The first two passes take no lock and can
   each be one step: a file that changes within a pass is found by the next
   comparison, as one that changes after it. *)

Mentions(f) == disk[f] \cap (Files \cup Symbols) # {}

Scan(c) ==
    /\ At(c, "scan")
    /\ LET found == {f \in Files : Mentions(f)}
       IN call' = [call EXCEPT ![c] =
                     IF found = {} THEN Ended
                     ELSE [@ EXCEPT !.step = "verify", !.left = found,
                                    !.text = [f \in Files |-> IF f \in found THEN disk[f] ELSE {}]]]
    /\ UNCHANGED <<disk, bak, stamp, lock, cache, seen, saved, raced, overtaken, crashes>>

Verify(c) ==
    /\ At(c, "verify")
    /\ call' = [call EXCEPT ![c] = IF \A f \in @.left : Unchanged(c, f)
                                   THEN [@ EXCEPT !.step = "apply"] ELSE Ended]
    /\ UNCHANGED <<disk, bak, stamp, lock, cache, seen, saved, raced, overtaken, crashes>>

Apply(c, f) ==
    /\ At(c, "apply") /\ f \in call[c].left /\ lock[f] = None
    /\ IF Unchanged(c, f)
       THEN /\ lock' = [lock EXCEPT ![f] = c]
            /\ call' = [call EXCEPT ![c].step = "rename", ![c].at = f]
       ELSE Over(c)
    /\ UNCHANGED <<disk, bak, stamp, cache, seen, saved, raced, overtaken, crashes>>

-----------------------------------------------------------------------------
(* The world outside *)

(* The calls that will write f without looking at it again. *)
Committed(f) ==
    {c \in Calls : \/ At(c, "rename") /\ (call[c].at = f \/ call[c].src = f)
                   \/ At(c, "cut") /\ call[c].src = f}

Save(e, f) ==
    /\ e \notin saved /\ disk[f] # {}
    /\ Put(f, disk[f] \cup {e})
    /\ saved' = saved \cup {e}
    /\ raced' = IF Committed(f) # {} THEN raced \cup {e} ELSE raced
    /\ Overtakes(None, f)
    /\ UNCHANGED <<bak, lock, call, cache, seen, crashes>>

Crash ==
    /\ crashes < MaxCrashes
    /\ crashes' = crashes + 1
    /\ call' = [c \in Calls |-> IF Live(c) THEN Ended ELSE call[c]]
    /\ lock' = [f \in Files |-> None]
    /\ cache' = [f \in Files |-> None]
    /\ seen' = {}
    /\ UNCHANGED <<disk, bak, stamp, saved, raced, overtaken>>

-----------------------------------------------------------------------------
Step(c) ==
    \/ Take(c) \/ Refuse(c) \/ TakeAndKeep(c) \/ TakeSecond(c) \/ Check(c) \/ Rename(c) \/ CutSource(c)
    \/ WriteFails(c) \/ PutsInCache(c) \/ Scan(c) \/ Verify(c)
    \/ \E f \in Files : Apply(c, f)

Next ==
    \/ \E c \in Calls : \/ \E plan \in Plans[c] : Start(c, plan[1], plan[2], plan[3])
                        \/ Step(c)
    \/ \E f \in Files : ReadFile(f) \/ \E e \in Editors : Save(e, f)
    \/ Crash

Fairness == \A c \in Calls : WF_vars(Step(c))

Spec == Init /\ [][Next]_vars /\ Fairness

-----------------------------------------------------------------------------
(* Part i of f was taken out on request. *)
Asked(f, i) ==
    \E c \in Calls : Live(c) /\ call[c].kind = "cut" /\ call[c].src = f /\ i = SymbolOf[f]

(* No part of a text is lost: what leaves a file is in another file, or in
   its backup, or was deleted on request, whatever calls, editors, failing
   writes and crashes come in between.  The one exception is an editor that
   saves between a call's last comparison and its rename. *)
EditsAreKept ==
    [][\A f \in Files : \A i \in disk[f] \ disk'[f] :
          \/ \E g \in Files \ {f} : i \in disk'[g]
          \/ i \in bak'[f]
          \/ i \in raced
          \/ Asked(f, i)]_vars

Bug_Served(f) == IF cache[f] = None THEN None ELSE cache[f].text

(* _cache_get_fresh *)
Served(f) ==
    IF cache[f] # None /\ cache[f].stamp = stamp[f] THEN cache[f].text ELSE None

(* A body served from the cache is the one on disk, unless another write
   came between the write and the caching of its body. *)
ServedIsTrue == \A f \in Files : Served(f) = None \/ Served(f) = disk[f] \/ f \in overtaken
(* No step makes what the cache serves untrue; it starts empty. *)
ServedStaysTrue == [][ServedIsTrue']_vars

(* Two moves in opposite directions hold the lock the other one waits for. *)
Opposed ==
    \E c, d \in Calls : /\ At(c, "second") /\ lock[call[c].dst] = d
                        /\ At(d, "second") /\ lock[call[d].dst] = c

(* Every call ends, whichever calls hold and want which locks, unless two
   moves cross. *)
EditsEnd == \A c \in Calls : []<>(~Live(c) \/ Opposed)
=============================================================================
