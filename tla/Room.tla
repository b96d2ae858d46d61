-------------------------------- MODULE Room --------------------------------
(***************************************************************************)
(* One discussion room: chitta_bridge/rooms.py, run_rounds and what it     *)
(* calls.  A run holds the room's lock and asks the participants of each   *)
(* round in tiers; answers are committed to the transcript, which is saved *)
(* after every round, and rounds that have aged are replaced by a SUMMARY. *)
(*                                                                         *)
(* Of the transcript only what decides about rounds is kept: messages with *)
(* a turn_key (turns) and the rounds that have a SUMMARY (sums).           *)
(*                                                                         *)
(* Operators named Bug_... are seeded faults of the definition that        *)
(* follows them; nothing in the specification uses them.                   *)
(***************************************************************************)
EXTENDS Integers, FiniteSets, FiniteSetsExt

CONSTANTS
  Names,          \* participants
  Founders,       \* those the room is created with
  SoulMax,        \* max_rounds of each participant's soul, 0 = unlimited
  Deps,           \* room.dag: whom a participant waits for
  HasDag,         \* whether the room has a dag
  Modes,          \* "sequential", "parallel": how calls ask for rounds
  Cap,            \* max_total_rounds
  Verbatim,       \* verbatim_rounds, 0 = never compress
  MaxRetries,     \* _MAX_RETRIES
  MaxCall         \* bound on the rounds asked for in one call

ASSUME RoomAssumption ==
  /\ IsFiniteSet(Names) /\ Founders \subseteq Names
  /\ SoulMax \in [Names -> Nat] /\ Deps \in [Names -> SUBSET Names]
  /\ HasDag \in BOOLEAN /\ Modes \subseteq {"sequential", "parallel"}
  /\ Cap \in Nat \ {0} /\ Verbatim \in Nat
  /\ MaxRetries \in Nat \ {0} /\ MaxCall \in Nat \ {0}

Rounds == 1 .. (Cap + MaxCall)
Turn   == [round : Rounds, name : Names, poison : BOOLEAN]
State  == [members : SUBSET Names, turns : SUBSET Turn, sums : SUBSET Rounds,
           retries : [Names -> 0 .. MaxRetries]]

VARIABLES
  room,           \* the room in memory
  disk,           \* its file
  pc,             \* where the run that holds the lock is
  mode, stop,     \* how it asks, and its stop_early / adaptive_stop flag
  round, left,    \* the next round number, rounds still to start
  active, busy, done,  \* this round: who takes part, who is asked, who is through
  heard,          \* kinds of responses this round brought
  stray           \* participants still answering a run that was aborted

run  == <<mode, stop, round, left, active, busy, done, heard>>
vars == <<room, disk, pc, run, stray>>

TypeOK ==
  /\ room \in State /\ disk \in State
  /\ pc \in {"idle", "next", "ask", "aged", "settle"}
  /\ mode \in {"dag", "sequential", "parallel"} /\ stop \in BOOLEAN
  /\ round \in Rounds /\ left \in 0 .. MaxCall
  /\ active \in SUBSET Names /\ busy \in SUBSET Names /\ done \in SUBSET Names
  /\ heard \in SUBSET {"good", "poison"}
  /\ stray \in SUBSET Names

New == [members |-> Founders, turns |-> {}, sums |-> {}, retries |-> [n \in Names |-> 0]]

Init ==
  /\ room = New /\ disk = New
  /\ pc = "idle" /\ mode = "dag" /\ stop = FALSE
  /\ round = 1 /\ left = 0
  /\ active = {} /\ busy = {} /\ done = {} /\ heard = {} /\ stray = {}

-----------------------------------------------------------------------------
(* What is read off the transcript.                                        *)

LiveRounds(r) == {t.round : t \in r.turns}

Bug_Committed(r) == Max({0} \cup LiveRounds(r))

Committed(r) == Max({0} \cup LiveRounds(r) \cup r.sums)

Turns(n)    == {t \in room.turns : t.name = n}
Poisoned(n) == \E t \in Turns(n) : t.poison
AtLimit(n)  == SoulMax[n] > 0 /\ Cardinality(Turns(n)) >= SoulMax[n]

Active      == {n \in room.members : ~AtLimit(n)}

(* Saving replaces the file, or fails and is only reported.                *)
Save(r) == disk' \in {r, disk}

(* The lock is free; what the call kept in its locals is gone.             *)
Finish ==
  /\ pc' = "idle" /\ mode' = "dag" /\ stop' = FALSE /\ round' = 1 /\ left' = 0
  /\ active' = {} /\ busy' = {} /\ done' = {} /\ heard' = {}

-----------------------------------------------------------------------------
(* A call of run_rounds gets the lock, or is refused at the cap.           *)
Begin(n, m, s) ==
  /\ pc = "idle" /\ Committed(room) < Cap
  /\ pc' = "next" /\ mode' = (IF HasDag THEN "dag" ELSE m) /\ stop' = s
  /\ round' = Committed(room) + 1 /\ left' = n
  /\ UNCHANGED <<room, disk, active, busy, done, heard, stray>>

(* Whom to ask next, of those that are not through yet.                    *)
Bug_Tier(rest) ==
  IF mode = "dag" THEN {{n \in rest : Deps[n] \cap rest = {}}}
  ELSE IF mode = "sequential" THEN {{n} : n \in rest}
  ELSE {rest}
Bug_TierAll(rest) == {rest}

Tier(rest) ==
  LET ready == {n \in rest : Deps[n] \cap rest = {}}
  IN  CASE mode = "parallel" -> {rest}
        [] mode = "dag" /\ ready # {} -> {ready}
        [] OTHER -> {{n} : n \in rest}

Bug_StartRound ==
  /\ pc = "next" /\ left > 0 /\ Active # {}
  /\ pc' = "ask" /\ active' = Active /\ busy' \in Tier(Active)
  /\ done' = {} /\ heard' = {}
  /\ UNCHANGED <<room, disk, mode, stop, round, left, stray>>

StartRound ==
  /\ pc = "next" /\ left > 0 /\ Active # {} /\ Committed(room) < Cap
  /\ pc' = "ask" /\ active' = Active /\ busy' \in Tier(Active)
  /\ done' = {} /\ heard' = {}
  /\ UNCHANGED <<room, disk, mode, stop, round, left, stray>>

(* No rounds left, nobody left to ask, or the cap reached: the last one    *)
(* leaves a note and saves.                                                *)
EndRun ==
  /\ pc = "next" /\ (left = 0 \/ Active = {} \/ Committed(room) >= Cap)
  /\ Finish
  /\ IF left > 0 /\ Active # {} THEN Save(room) ELSE UNCHANGED disk
  /\ UNCHANGED <<room, stray>>

-----------------------------------------------------------------------------
(* _participant_respond, for every participant of the tier.                *)

Failures(r, n) == IF r.retries[n] < MaxRetries THEN r.retries[n] + 1 ELSE MaxRetries

(* The turn a reply commits: none for an error that may be retried, and    *)
(* none for a participant that sits out poisoned.                          *)
TurnOf(n, reply) ==
  {t \in [round : {round}, name : {n}, poison : BOOLEAN] :
     /\ ~Poisoned(n)
     /\ IF t.poison THEN reply = "error" /\ Failures(room, n) >= MaxRetries
        ELSE reply = "ok"}

Missing(t) == \A u \in room.turns : u.round # t.round \/ u.name # t.name

Failed(S) == [n \in Names |-> IF n \in S THEN Failures(room, n) ELSE room.retries[n]]

Answered(replies) ==
  LET new == UNION {TurnOf(n, replies[n]) : n \in busy}
  IN  [room EXCEPT !.turns = @ \cup {t \in new : Missing(t)},
                   !.retries = Failed({n \in busy : replies[n] = "error"})]

Kinds(replies) ==
  {IF \E t \in TurnOf(n, replies[n]) : t.poison THEN "poison" ELSE "good" :
     n \in {m \in busy : replies[m] # "raise"}}

(* The rounds that the end of this round lets age: at most one.            *)
Aged(r) == {t \in LiveRounds(r) : Verbatim > 0 /\ t = round - Verbatim /\ t \notin r.sums}

(* A poisoned participant is not asked; in a dag an exception only means   *)
(* that nothing was said.                                                  *)
TierAnswers(replies) ==
  /\ pc = "ask"
  /\ \A n \in busy : /\ Poisoned(n) => replies[n] = "ok"
                     /\ replies[n] = "raise" => mode = "dag"
  /\ room' = Answered(replies)
  /\ heard' = heard \cup Kinds(replies)
  /\ done' = done \cup busy
  /\ IF done' = active
     THEN /\ Save(room') /\ busy' = {}
          /\ pc' = IF Aged(room') # {} THEN "aged" ELSE "settle"
     ELSE /\ busy' \in Tier(active \ done') /\ UNCHANGED <<disk, pc>>
  /\ UNCHANGED <<mode, stop, round, left, active, stray>>

(* _compress_round: the summary takes the place of the round's turns; if   *)
(* no summary comes back the round stays as it is.                         *)
Bug_Compressed(r, ok) ==
  [r EXCEPT !.turns = {t \in @ : t.round \notin Aged(r)},
            !.sums = IF ok THEN @ \cup Aged(r) ELSE @]

Compressed(r, ok) ==
  IF ok THEN [r EXCEPT !.turns = {t \in @ : t.round \notin Aged(r)}, !.sums = @ \cup Aged(r)]
  ELSE r

Compress(ok) ==
  /\ pc = "aged"
  /\ room' = Compressed(room, ok) /\ pc' = "settle"
  /\ IF ok THEN Save(room') ELSE UNCHANGED disk
  /\ UNCHANGED <<run, stray>>

(* Convergence stops a run that asked for it, and so does a round without  *)
(* any response; otherwise the next round is due.                          *)
StopEarly ==
  /\ pc = "settle" /\ stop /\ ("good" \in heard \/ heard = {})
  /\ Finish /\ UNCHANGED <<room, disk, stray>>

Bug_Continue ==
  /\ pc = "settle" /\ ~(stop /\ heard = {})
  /\ pc' = "next" /\ round' = round + 1
  /\ active' = {} /\ done' = {} /\ heard' = {}
  /\ UNCHANGED <<room, disk, mode, stop, left, busy, stray>>

Continue ==
  /\ pc = "settle" /\ ~(stop /\ heard = {})
  /\ pc' = "next" /\ round' = round + 1 /\ left' = left - 1
  /\ active' = {} /\ done' = {} /\ heard' = {}
  /\ UNCHANGED <<room, disk, mode, stop, busy, stray>>

-----------------------------------------------------------------------------
(* An exception outside the backend call ends the run at once, unless a    *)
(* dag swallows it; answers that already came are dropped, but failures    *)
(* are counted, and those still being asked go on.  Cancelling the call    *)
(* (any mode) leaves nobody behind.                                        *)
Abort(errs, others) ==
  /\ pc \in {"ask", "aged", "settle"}
  /\ errs \subseteq busy /\ others \subseteq busy \ errs
  /\ \A n \in errs \cup others : ~Poisoned(n)
  /\ others # {} => mode # "dag" /\ \E n \in busy \ (errs \cup others) : ~Poisoned(n)
  /\ room' = [room EXCEPT !.retries = Failed(errs)]
  /\ stray' = stray \cup others
  /\ Finish /\ UNCHANGED disk

StrayEnds(n, reply) ==
  /\ n \in stray /\ stray' = stray \ {n}
  /\ room' = IF reply = "error" THEN [room EXCEPT !.retries = Failed({n})] ELSE room
  /\ UNCHANGED <<disk, pc, run>>

(* room_inject, and the preparations of room_run, save without the lock.   *)
Inject ==
  /\ disk # room /\ disk' = room
  /\ UNCHANGED <<room, pc, run, stray>>

AddParticipant(n) ==
  /\ pc = "idle" /\ n \notin room.members
  /\ room' = [room EXCEPT !.members = @ \cup {n}]
  /\ Save(room') /\ UNCHANGED <<pc, run, stray>>

(* The bridge dies and the room is read from its file again.               *)
Restart ==
  /\ room' = disk /\ stray' = {}
  /\ Finish /\ UNCHANGED disk

Replies == [busy -> {"ok", "error", "raise"}]

Step ==
  \/ StartRound \/ EndRun \/ StopEarly \/ Continue
  \/ \E replies \in Replies : TierAnswers(replies)
  \/ \E ok \in BOOLEAN : Compress(ok)

Next ==
  \/ \E n \in 1 .. MaxCall, m \in Modes, s \in BOOLEAN : Begin(n, m, s)
  \/ Step
  \/ \E errs, others \in SUBSET busy : Abort(errs, others)
  \/ \E n \in stray, reply \in {"ok", "error"} : StrayEnds(n, reply)
  \/ Inject
  \/ \E n \in Names : AddParticipant(n)
  \/ Restart

Spec == Init /\ [][Next]_vars
-----------------------------------------------------------------------------
(* Fairness: backend calls have timeouts, so a run that holds the lock     *)
(* keeps taking steps.                                                     *)
FairSpec == Spec /\ WF_vars(Step)

-----------------------------------------------------------------------------
(* Properties.                                                             *)

(* A round is either live or summarised, and a participant has one turn in *)
(* it: round numbers are never used twice, whatever was compressed,        *)
(* aborted or lost in between (round_start, "never reused").               *)
RoundsAreFresh ==
  /\ LiveRounds(room) \cap room.sums = {}
  /\ \A t, u \in room.turns : t.round = u.round /\ t.name = u.name => t = u

(* No more than max_total_rounds rounds get content, across compression    *)
(* and restarts.                                                           *)
RoundsAreCapped == Cardinality(LiveRounds(room) \cup room.sums) <= Cap

(* What the file holds of a turn is given up only for the round's SUMMARY. *)
SavedIsKept ==
  [][ /\ \A t \in disk.turns : t \in disk'.turns \/ t.round \in disk'.sums
      /\ disk.sums \subseteq disk'.sums ]_vars

(* In a dag nobody is asked before those it depends on, unless it waits    *)
(* for a cycle: the way out of a cycle does not disturb the others.        *)
Grounded(n) == ~\E S \in SUBSET active : n \in S /\ \A m \in S : Deps[m] \cap S # {}

DepsFirst ==
  pc = "ask" /\ mode = "dag" =>
    \A n \in busy, m \in active : Grounded(n) /\ m \in Deps[n] => m \in done

(* Every run ends and lets go of the lock, also in a dag with a cycle.     *)
RunsEnd == pc # "idle" ~> pc = "idle"

(* A round somebody failed in stays open: the next run starts no later     *)
(* than the first round that lacks a member's turn.                        *)
RoundStaysOpen ==
  [][pc = "idle" /\ pc' = "next" =>
       \A r \in LiveRounds(room), n \in room.members :
         r < round' => \E t \in Turns(n) : t.round = r]_vars
=============================================================================
