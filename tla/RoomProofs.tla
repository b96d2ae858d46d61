----------------------------- MODULE RoomProofs -----------------------------
(* Proofs about Room, for every value of its constants.                    *)
EXTENDS Room, FiniteSetTheorems, TLAPS

(* A bounded set of natural numbers has a greatest element: the size of    *)
(* its downward closure, less one.                                         *)
LEMMA MaxOfBounded ==
  ASSUME NEW K \in Nat, NEW S \in SUBSET (0 .. K), S # {}
  PROVE  Max(S) \in S /\ \A x \in S : x <= Max(S)
<1> DEFINE D == {y \in 0 .. K : \E x \in S : y <= x}
           c == Cardinality(D)
<1>1. IsFiniteSet(0 .. K) /\ D \in SUBSET (0 .. K)  BY FS_Interval
<1>2. IsFiniteSet(D)  BY <1>1, FS_Subset
<1>3. c \in Nat  BY <1>2, FS_CardinalityType
<1>4. S \subseteq D  OBVIOUS
<1>5. c - 1 \in D
  <2> SUFFICES ASSUME c - 1 \notin D PROVE FALSE  OBVIOUS
  <2>1. PICK s \in S : TRUE  OBVIOUS
  <2>2. 0 \in D  BY <2>1
  <2>3. c >= 1
    <3>1. c # 0  BY <1>2, <2>2, FS_EmptySet
    <3> QED  BY <1>3, <3>1
  <2>4. \A y \in D : ~(c - 1 <= y)
    <3> TAKE y \in D
    <3> SUFFICES ASSUME c - 1 <= y PROVE FALSE  OBVIOUS
    <3>1. PICK x \in S : y <= x  OBVIOUS
    <3>2. c - 1 \in 0 .. K /\ c - 1 <= x
      <4>1. y \in 0 .. K /\ x \in 0 .. K  OBVIOUS
      <4> HIDE DEF D, c
      <4> QED  BY <1>3, <2>3, <3>1, <4>1
    <3> QED  BY <3>2
  <2>5. D \in SUBSET (0 .. (c - 2))
    <3> HIDE DEF c
    <3> QED  BY <1>3, <2>4
  <2>6. IsFiniteSet(0 .. (c - 2)) /\ Cardinality(0 .. (c - 2)) = IF 0 > c - 2 THEN 0 ELSE c - 1
    <3>1. c - 2 \in Int  BY <1>3
    <3> HIDE DEF c
    <3> QED  BY <1>3, <3>1, FS_Interval
  <2>7. c <= Cardinality(0 .. (c - 2))  BY <2>5, <2>6, FS_Subset
  <2> QED  BY <1>3, <2>3, <2>6, <2>7
<1>6. c \notin D
  <2> SUFFICES ASSUME c \in D PROVE FALSE  OBVIOUS
  <2>1. (0 .. c) \in SUBSET D  BY <1>3
  <2>2. IsFiniteSet(0 .. c) /\ Cardinality(0 .. c) = c + 1  BY <1>3, FS_Interval
  <2>3. c + 1 <= c  BY <1>2, <2>1, <2>2, FS_Subset
  <2> QED  BY <1>3, <2>3
<1>7. \A x \in S : x <= c - 1
  <2> TAKE x \in S
  <2>1. ~(c <= x)  BY <1>3, <1>6
  <2> QED  BY <1>3, <2>1
<1>8. c - 1 \in S  BY <1>3, <1>5, <1>7
<1> QED  BY <1>3, <1>7, <1>8 DEF Max
-----------------------------------------------------------------------------
(* Type correctness.                                                       *)

Content(r) == LiveRounds(r) \cup r.sums

(* Committed is a round number or 0, and no round is later.                *)
LEMMA CommittedBounds ==
  ASSUME NEW r \in State
  PROVE  /\ Committed(r) \in 0 .. (Cap + MaxCall)
         /\ \A x \in Content(r) : x <= Committed(r)
<1> DEFINE S == {0} \cup LiveRounds(r) \cup r.sums
<1>1. Cap + MaxCall \in Nat  BY RoomAssumption
<1>2. S \in SUBSET (0 .. (Cap + MaxCall)) /\ S # {}
  BY <1>1 DEF State, Turn, Rounds, LiveRounds
<1>3. Max(S) \in S /\ \A x \in S : x <= Max(S)
  <2> HIDE DEF S
  <2> QED  BY <1>1, <1>2, MaxOfBounded
<1> QED  BY <1>2, <1>3 DEF Committed, Content

(* Rounds still to come fit below the bound on round numbers.              *)
RoundsFit ==
  /\ pc # "idle" => round + left <= Cap + MaxCall
  /\ pc \in {"ask", "aged", "settle"} => left > 0

TInv == TypeOK /\ RoundsFit

LEMMA TierType ==
  ASSUME NEW rest \in SUBSET Names, NEW b \in Tier(rest)
  PROVE  b \in SUBSET rest
BY DEF Tier

LEMMA FailedType ==
  ASSUME TypeOK, NEW S
  PROVE  Failed(S) \in [Names -> 0 .. MaxRetries]
BY RoomAssumption DEF TypeOK, State, Failed, Failures

LEMMA AnsweredType ==
  ASSUME TypeOK, NEW replies
  PROVE  Answered(replies) \in State
<1> DEFINE new == UNION {TurnOf(n, replies[n]) : n \in busy}
           errs == {n \in busy : replies[n] = "error"}
<1>1. new \in SUBSET Turn
  <2>1. \A n \in busy : TurnOf(n, replies[n]) \in SUBSET Turn
    BY DEF TypeOK, TurnOf, Turn
  <2> QED  BY <2>1
<1>2. Failed(errs) \in [Names -> 0 .. MaxRetries]  BY FailedType
<1>3. Answered(replies) = [room EXCEPT !.turns = @ \cup {t \in new : Missing(t)},
                                       !.retries = Failed(errs)]
  BY DEF Answered
<1> HIDE DEF new, errs
<1> QED  BY <1>1, <1>2, <1>3 DEF TypeOK, State

LEMMA CompressedType ==
  ASSUME TypeOK, NEW ok
  PROVE  Compressed(room, ok) \in State
<1>1. Aged(room) \in SUBSET Rounds
  BY DEF TypeOK, State, Turn, Aged, LiveRounds
<1> QED  BY <1>1 DEF TypeOK, Compressed, State

LEMMA ActiveType == ASSUME TypeOK PROVE Active \in SUBSET Names
BY DEF TypeOK, State, Active

LEMMA TypeInit == Init => TInv
<1> SUFFICES ASSUME Init PROVE TInv  OBVIOUS
<1>1. New \in State  BY RoomAssumption DEF New, State
<1>2. 1 \in Rounds /\ 0 \in 0 .. MaxCall  BY RoomAssumption DEF Rounds
<1> QED  BY <1>1, <1>2 DEF Init, TInv, TypeOK, RoundsFit

(* The locals of a run that is over.                                       *)
LEMMA FinishType ==
  ASSUME Finish, room' \in State, disk' \in State, stray' \in SUBSET Names
  PROVE  TInv'
<1>1. 1 \in Rounds /\ 0 \in 0 .. MaxCall  BY RoomAssumption DEF Rounds
<1> QED  BY <1>1 DEF Finish, TInv, TypeOK, RoundsFit

LEMMA TypeStep == TInv /\ [Next]_vars => TInv'
<1> SUFFICES ASSUME TInv, [Next]_vars PROVE TInv'  OBVIOUS
<1> USE DEF TInv
<1>1. ASSUME NEW n \in 1 .. MaxCall, NEW m \in Modes, NEW s \in BOOLEAN, Begin(n, m, s)
      PROVE  TInv'
  <2>1. Committed(room) \in 0 .. (Cap + MaxCall)  BY CommittedBounds DEF TypeOK
  <2>2. round' \in Rounds /\ round' + n <= Cap + MaxCall
    BY <1>1, <2>1, RoomAssumption DEF Begin, Rounds
  <2>3. n \in 0 .. MaxCall  BY <1>1, RoomAssumption
  <2> QED  BY <1>1, <2>2, <2>3, RoomAssumption DEF Begin, TypeOK, RoundsFit
<1>2. CASE StartRound
  <2>1. Active \in SUBSET Names  BY ActiveType
  <2>2. busy' \in SUBSET Names  BY <1>2, <2>1, TierType DEF StartRound
  <2> QED  BY <1>2, <2>1, <2>2 DEF StartRound, TypeOK, RoundsFit
<1>3. CASE EndRun
  BY <1>3, FinishType DEF EndRun, TypeOK, Save
<1>4. CASE StopEarly
  BY <1>4, FinishType DEF StopEarly, TypeOK
<1>5. CASE Continue
  <2>1. left - 1 \in 0 .. MaxCall /\ round + 1 \in Rounds
        /\ (round + 1) + (left - 1) <= Cap + MaxCall
    BY <1>5, RoomAssumption DEF Continue, TypeOK, RoundsFit, Rounds
  <2> QED  BY <1>5, <2>1 DEF Continue, TypeOK, RoundsFit
<1>6. ASSUME NEW replies \in Replies, TierAnswers(replies) PROVE TInv'
  <2>1. room' \in State  BY <1>6, AnsweredType DEF TierAnswers
  <2>2. disk' \in State  BY <1>6, <2>1 DEF TierAnswers, TypeOK, Save
  <2>3. Kinds(replies) \in SUBSET {"good", "poison"}  BY DEF Kinds
  <2>4. busy' \in SUBSET Names
    <3>1. active \ done' \in SUBSET Names  BY DEF TypeOK
    <3> QED  BY <1>6, <3>1, TierType DEF TierAnswers, TypeOK
  <2>5. pc' \in {"ask", "aged", "settle"}  BY <1>6 DEF TierAnswers, TypeOK
  <2> QED  BY <1>6, <2>1, <2>2, <2>3, <2>4, <2>5 DEF TierAnswers, TypeOK, RoundsFit
<1>7. ASSUME NEW ok \in BOOLEAN, Compress(ok) PROVE TInv'
  <2>1. room' \in State  BY <1>7, CompressedType DEF Compress
  <2>2. disk' \in State  BY <1>7, <2>1 DEF Compress, TypeOK, Save
  <2> QED  BY <1>7, <2>1, <2>2 DEF Compress, TypeOK, RoundsFit, run
<1>8. ASSUME NEW errs \in SUBSET busy, NEW others \in SUBSET busy, Abort(errs, others)
      PROVE  TInv'
  <2>1. room' \in State  BY <1>8, FailedType DEF Abort, TypeOK, State
  <2> QED  BY <1>8, <2>1, FinishType DEF Abort, TypeOK
<1>9. ASSUME NEW n \in stray, NEW reply, StrayEnds(n, reply) PROVE TInv'
  <2>1. room' \in State  BY <1>9, FailedType DEF StrayEnds, TypeOK, State
  <2> QED  BY <1>9, <2>1 DEF StrayEnds, TypeOK, RoundsFit, run
<1>10. CASE Inject
  BY <1>10 DEF Inject, TypeOK, RoundsFit, run
<1>11. ASSUME NEW n \in Names, AddParticipant(n) PROVE TInv'
  <2>1. room' \in State  BY <1>11 DEF AddParticipant, TypeOK, State
  <2> QED  BY <1>11, <2>1 DEF AddParticipant, TypeOK, RoundsFit, run, Save
<1>12. CASE Restart
  BY <1>12, FinishType DEF Restart, TypeOK
<1>13. CASE UNCHANGED vars
  BY <1>13 DEF vars, run, TypeOK, RoundsFit
<1> QED
  BY <1>1, <1>2, <1>3, <1>4, <1>5, <1>6, <1>7, <1>8, <1>9, <1>10, <1>11, <1>12, <1>13
  DEF Next, Step

(* Every variable keeps its type, round numbers their bound included.      *)
THEOREM TypeCorrect == Spec => []TypeOK
<1>1. TInv => TypeOK  BY DEF TInv
<1> QED  BY <1>1, TypeInit, TypeStep, PTL DEF Spec

-----------------------------------------------------------------------------
(* Round numbers.  Freshness alone is not inductive: that the next round   *)
(* is beyond all content, and that content stays below the cap but for one *)
(* round, must be carried through a run, and through the file for restarts.*)

Fresh(r) ==
  /\ LiveRounds(r) \cap r.sums = {}
  /\ \A t, u \in r.turns : t.round = u.round /\ t.name = u.name => t = u

BelowCap(r, k) == Content(r) \subseteq (1 .. (Cap - 1)) \cup {k}

Sound(r) == Fresh(r) /\ \E k \in Rounds : BelowCap(r, k)

RunBounds ==
  /\ pc = "next" => \A x \in Content(room) : x < round
  /\ pc \in {"ask", "aged", "settle"} =>
       BelowCap(room, round) /\ \A x \in Content(room) : x <= round
  /\ pc = "ask" => \A x \in room.sums : x < round

RInv == Sound(room) /\ Sound(disk) /\ RunBounds

(* Members and retry counts do not matter to round numbers.                *)
LEMMA SameRounds ==
  ASSUME NEW r, NEW q, r.turns = q.turns, r.sums = q.sums
  PROVE  /\ Content(r) = Content(q)
         /\ Sound(r) <=> Sound(q)
BY DEF Content, LiveRounds, Sound, Fresh, BelowCap

(* A reply commits one turn at most.                                       *)
LEMMA OneTurn ==
  ASSUME NEW n, NEW reply, NEW t \in TurnOf(n, reply), NEW u \in TurnOf(n, reply)
  PROVE  t = u /\ t.name = n /\ t.round = round
<1> DEFINE T == [round : {round}, name : {n}, poison : BOOLEAN]
<1>1. t \in T /\ u \in T  BY DEF TurnOf
<1>2. t.poison = u.poison  BY DEF TurnOf
<1>3. \A x \in T : x = [round |-> round, name |-> n, poison |-> x.poison]  OBVIOUS
<1> HIDE DEF T
<1>4. t = [round |-> round, name |-> n, poison |-> t.poison]  BY <1>1, <1>3
<1>5. u = [round |-> round, name |-> n, poison |-> u.poison]  BY <1>1, <1>3
<1> QED  BY <1>2, <1>4, <1>5

LEMMA AnsweredRounds ==
  ASSUME TypeOK, NEW replies, Fresh(room), \A x \in room.sums : x < round
  PROVE  LET r == Answered(replies)
         IN  /\ r.sums = room.sums
             /\ LiveRounds(r) \subseteq LiveRounds(room) \cup {round}
             /\ Fresh(r)
<1> DEFINE new == {t \in UNION {TurnOf(n, replies[n]) : n \in busy} : Missing(t)}
           r == Answered(replies)
<1>1. \A t \in new : t.round = round /\ Missing(t)
  BY OneTurn
<1>2. \A t, u \in new : t.name = u.name => t = u
  <2> SUFFICES ASSUME NEW t \in new, NEW u \in new, t.name = u.name PROVE t = u
    OBVIOUS
  <2>1. PICK n \in busy : t \in TurnOf(n, replies[n])  OBVIOUS
  <2>2. PICK m \in busy : u \in TurnOf(m, replies[m])  OBVIOUS
  <2>3. n = m  BY <2>1, <2>2, OneTurn
  <2> QED  BY <2>1, <2>2, <2>3, OneTurn
<1>3. r.turns = room.turns \cup new /\ r.sums = room.sums
  BY DEF Answered, TypeOK, State
<1> HIDE DEF new, r
<1>4. LiveRounds(r) \subseteq LiveRounds(room) \cup {round}
  BY <1>1, <1>3 DEF LiveRounds
<1>5. LiveRounds(r) \cap r.sums = {}
  <2>1. round \notin room.sums
    <3>1. round \in Int  BY DEF TypeOK, Rounds
    <3> QED  BY <3>1
  <2> QED  BY <1>3, <1>4, <2>1 DEF Fresh
<1>6. \A t, u \in r.turns : t.round = u.round /\ t.name = u.name => t = u
  BY <1>1, <1>2, <1>3 DEF Fresh, Missing
<1> QED  BY <1>3, <1>4, <1>5, <1>6 DEF Fresh, r

LEMMA CompressedRounds ==
  ASSUME TypeOK, NEW ok, Fresh(room)
  PROVE  LET r == Compressed(room, ok)
         IN  Content(r) \subseteq Content(room) /\ Fresh(r)
<1> DEFINE r == Compressed(room, ok)
<1>1. Aged(room) \subseteq LiveRounds(room)  BY DEF Aged
<1>2. CASE ~ok  BY <1>2 DEF Compressed
<1>3. CASE ok
  <2>1. /\ r.turns = {t \in room.turns : t.round \notin Aged(room)}
        /\ r.sums = room.sums \cup Aged(room)
    BY <1>3 DEF Compressed, TypeOK, State
  <2> HIDE DEF r
  <2>2. LiveRounds(r) = LiveRounds(room) \ Aged(room)  BY <2>1 DEF LiveRounds
  <2>3. Content(r) \subseteq Content(room)  BY <1>1, <2>1, <2>2 DEF Content
  <2>4. Fresh(r)  BY <2>1, <2>2 DEF Fresh
  <2> QED  BY <2>3, <2>4 DEF r
<1> QED  BY <1>2, <1>3

LEMMA RoundsInit == Init => RInv
<1> SUFFICES ASSUME Init PROVE RInv  OBVIOUS
<1>1. Content(New) = {} /\ Fresh(New)  BY DEF Content, LiveRounds, New, Fresh
<1>2. 1 \in Rounds  BY RoomAssumption DEF Rounds
<1>3. Sound(New)  BY <1>1, <1>2 DEF Sound, BelowCap
<1> QED  BY <1>3 DEF Init, RInv, RunBounds

(* Once a run is over, only what memory and file hold is left to show.     *)
LEMMA FinishRounds ==
  ASSUME Finish, Sound(room)', Sound(disk)' PROVE RInv'
BY DEF Finish, RInv, RunBounds

LEMMA RoundsStep == TInv /\ RInv /\ [Next]_vars => RInv'
<1> SUFFICES ASSUME TInv, RInv, [Next]_vars PROVE RInv'  OBVIOUS
<1> USE DEF TInv
<1>t. round \in Int /\ Cap \in Int  BY RoomAssumption DEF TypeOK, Rounds
<1>c. Content(room) \subseteq Int
  BY RoomAssumption DEF TypeOK, State, Turn, Content, LiveRounds, Rounds
<1>1. ASSUME NEW n \in 1 .. MaxCall, NEW m \in Modes, NEW s \in BOOLEAN, Begin(n, m, s)
      PROVE  RInv'
  <2>1. /\ Committed(room) \in 0 .. (Cap + MaxCall)
        /\ \A x \in Content(room) : x <= Committed(room)
    BY CommittedBounds DEF TypeOK
  <2>2. \A x \in Content(room) : x < round'  BY <1>1, <1>c, <2>1 DEF Begin
  <2> QED  BY <1>1, <2>2 DEF Begin, RInv, RunBounds
<1>2. CASE StartRound
  <2>1. /\ Committed(room) \in 0 .. (Cap + MaxCall)
        /\ \A x \in Content(room) : x <= Committed(room)
    BY CommittedBounds DEF TypeOK
  <2>2. \A x \in Content(room) : x \in 1 .. (Cap - 1)
    <3>1. \A x \in Content(room) : x \in Rounds
      BY DEF TypeOK, State, Turn, Content, LiveRounds
    <3> QED  BY <1>2, <1>t, <2>1, <3>1 DEF StartRound, Rounds
  <2>3. \A x \in Content(room) : x < round  BY <1>2 DEF StartRound, RInv, RunBounds
  <2>4. room.sums \subseteq Content(room)  BY DEF Content
  <2>5. /\ pc' = "ask" /\ UNCHANGED <<room, disk, round>>
    BY <1>2 DEF StartRound
  <2>6. \A x \in Content(room) : x <= round  BY <1>t, <1>c, <2>3
  <2> QED  BY <2>2, <2>3, <2>4, <2>5, <2>6 DEF RInv, RunBounds, BelowCap
<1>3. CASE EndRun
  BY <1>3, FinishRounds DEF EndRun, Save, RInv
<1>4. CASE StopEarly
  BY <1>4, FinishRounds DEF StopEarly, RInv
<1>5. CASE Continue
  <2>1. \A x \in Content(room) : x < round + 1
    BY <1>5, <1>t, <1>c DEF Continue, RInv, RunBounds
  <2>2. pc' = "next" /\ round' = round + 1 /\ UNCHANGED <<room, disk>>
    BY <1>5 DEF Continue
  <2> QED  BY <2>1, <2>2 DEF RInv, RunBounds
<1>6. ASSUME NEW replies \in Replies, TierAnswers(replies) PROVE RInv'
  <2>1. pc = "ask" /\ room' = Answered(replies) /\ round' = round
        /\ pc' \in {"ask", "aged", "settle"}
    BY <1>6 DEF TierAnswers
  <2>2. /\ room'.sums = room.sums
        /\ LiveRounds(room') \subseteq LiveRounds(room) \cup {round}
        /\ Fresh(room')
    BY <2>1, AnsweredRounds DEF RInv, RunBounds, Sound
  <2>3. Content(room') \subseteq Content(room) \cup {round}
    BY <2>2 DEF Content
  <2>4. BelowCap(room', round) /\ \A x \in Content(room') : x <= round
    BY <1>t, <2>1, <2>3 DEF RInv, RunBounds, BelowCap
  <2>5. round \in Rounds  BY DEF TypeOK
  <2>6. Sound(room')  BY <2>2, <2>4, <2>5 DEF Sound
  <2>7. disk' \in {room', disk}  BY <1>6 DEF TierAnswers, Save
  <2>8. Sound(disk')  BY <2>6, <2>7 DEF RInv
  <2>9. \A x \in room'.sums : x < round  BY <2>1, <2>2 DEF RInv, RunBounds
  <2> QED  BY <2>1, <2>4, <2>6, <2>8, <2>9 DEF RInv, RunBounds
<1>7. ASSUME NEW ok \in BOOLEAN, Compress(ok) PROVE RInv'
  <2>1. pc = "aged" /\ pc' = "settle" /\ room' = Compressed(room, ok) /\ round' = round
    BY <1>7 DEF Compress, run
  <2>2. Content(room') \subseteq Content(room) /\ Fresh(room')
    BY <2>1, CompressedRounds DEF RInv, Sound
  <2>3. BelowCap(room', round) /\ \A x \in Content(room') : x <= round
    BY <2>1, <2>2 DEF RInv, RunBounds, BelowCap
  <2>4. round \in Rounds  BY DEF TypeOK
  <2>5. Sound(room')  BY <2>2, <2>3, <2>4 DEF Sound
  <2>6. disk' \in {room', disk}  BY <1>7 DEF Compress, Save
  <2>7. Sound(disk')  BY <2>5, <2>6 DEF RInv
  <2> QED  BY <2>1, <2>3, <2>5, <2>7 DEF RInv, RunBounds
<1>8. ASSUME NEW errs \in SUBSET busy, NEW others \in SUBSET busy, Abort(errs, others)
      PROVE  RInv'
  <2>1. room'.turns = room.turns /\ room'.sums = room.sums
    BY <1>8 DEF Abort, TypeOK, State
  <2>2. Sound(room')  BY <2>1, SameRounds DEF RInv
  <2> QED  BY <1>8, <2>2, FinishRounds DEF Abort, RInv
<1>9. ASSUME NEW n \in stray, NEW reply, StrayEnds(n, reply) PROVE RInv'
  <2>1. room'.turns = room.turns /\ room'.sums = room.sums
    BY <1>9 DEF StrayEnds, TypeOK, State
  <2>2. (Sound(room') <=> Sound(room)) /\ Content(room') = Content(room)
    BY <2>1, SameRounds
  <2>3. UNCHANGED <<disk, pc, round>>  BY <1>9 DEF StrayEnds, run
  <2> QED  BY <2>1, <2>2, <2>3 DEF RInv, RunBounds, BelowCap
<1>10. CASE Inject
  BY <1>10 DEF Inject, run, RInv, RunBounds
<1>11. ASSUME NEW n \in Names, AddParticipant(n) PROVE RInv'
  <2>1. room'.turns = room.turns /\ room'.sums = room.sums
    BY <1>11 DEF AddParticipant, TypeOK, State
  <2>2. Sound(room')  BY <2>1, SameRounds DEF RInv
  <2>3. disk' \in {room', disk} /\ pc' = "idle"  BY <1>11 DEF AddParticipant, Save
  <2> QED  BY <2>2, <2>3 DEF RInv, RunBounds
<1>12. CASE Restart
  BY <1>12, FinishRounds DEF Restart, RInv
<1>13. CASE UNCHANGED vars
  BY <1>13 DEF vars, run, RInv, RunBounds
<1> QED
  BY <1>1, <1>2, <1>3, <1>4, <1>5, <1>6, <1>7, <1>8, <1>9, <1>10, <1>11, <1>12, <1>13
  DEF Next, Step

(* No round number is ever used twice, and no participant has two turns in *)
(* a round, for any number of participants and any sequence of calls,      *)
(* compressions, aborted runs, failed saves and restarts.                  *)
THEOREM RoundsStayFresh == Spec => []RoundsAreFresh
<1>1. RInv => RoundsAreFresh  BY DEF RInv, Sound, Fresh, RoundsAreFresh
<1> QED  BY <1>1, TypeInit, TypeStep, RoundsInit, RoundsStep, PTL DEF Spec

(* The number of rounds with content never exceeds max_total_rounds.       *)
THEOREM RoundsStayCapped == Spec => []RoundsAreCapped
<1>1. RInv => RoundsAreCapped
  <2> SUFFICES ASSUME RInv PROVE RoundsAreCapped  OBVIOUS
  <2>1. PICK k \in Rounds : Content(room) \subseteq (1 .. (Cap - 1)) \cup {k}
    BY DEF RInv, Sound, BelowCap
  <2>2. IsFiniteSet(1 .. (Cap - 1)) /\ Cardinality(1 .. (Cap - 1)) = Cap - 1
    <3>1. 1 \in Int /\ Cap - 1 \in Nat  BY RoomAssumption
    <3>2. Cardinality(1 .. (Cap - 1)) = IF 1 > Cap - 1 THEN 0 ELSE (Cap - 1) - 1 + 1
      BY <3>1, FS_Interval
    <3>3. IsFiniteSet(1 .. (Cap - 1))  BY <3>1, FS_Interval
    <3> QED  BY <3>1, <3>2, <3>3
  <2>3. /\ IsFiniteSet((1 .. (Cap - 1)) \cup {k})
        /\ Cardinality((1 .. (Cap - 1)) \cup {k}) <= Cap
    <3> DEFINE I == 1 .. (Cap - 1)
    <3>1. IsFiniteSet(I) /\ Cardinality(I) = Cap - 1  BY <2>2
    <3> HIDE DEF I
    <3>2. /\ IsFiniteSet(I \cup {k})
          /\ Cardinality(I \cup {k}) = IF k \in I THEN Cardinality(I) ELSE Cardinality(I) + 1
      BY <3>1, FS_AddElement
    <3>3. Cardinality(I \cup {k}) <= Cap  BY <3>1, <3>2, RoomAssumption
    <3> QED  BY <3>2, <3>3 DEF I
  <2>4. Cardinality(Content(room)) <= Cardinality((1 .. (Cap - 1)) \cup {k})
        /\ IsFiniteSet(Content(room))
    BY <2>1, <2>3, FS_Subset
  <2>5. Cardinality(Content(room)) \in Int /\ Cardinality((1 .. (Cap - 1)) \cup {k}) \in Int
    BY <2>3, <2>4, FS_CardinalityType
  <2> QED  BY <2>3, <2>4, <2>5, RoomAssumption DEF Content, RoundsAreCapped
<1> QED  BY <1>1, TypeInit, TypeStep, RoundsInit, RoundsStep, PTL DEF Spec

-----------------------------------------------------------------------------
(* The file.  Memory is never behind it: whatever the file has is in       *)
(* memory, as a turn or in a SUMMARY, so that saving gives nothing up.     *)

Ahead(r, d) ==
  /\ \A t \in d.turns : t \in r.turns \/ t.round \in r.sums
  /\ d.sums \subseteq r.sums

LEMMA AheadIsTransitive ==
  ASSUME NEW r, NEW q, NEW d, Ahead(r, q), Ahead(q, d) PROVE Ahead(r, d)
BY DEF Ahead

LEMMA AheadIsReflexive == ASSUME NEW r PROVE Ahead(r, r)
BY DEF Ahead

LEMMA AnsweredIsAhead == ASSUME TypeOK, NEW replies PROVE Ahead(Answered(replies), room)
<1> DEFINE new == {t \in UNION {TurnOf(n, replies[n]) : n \in busy} : Missing(t)}
           r == Answered(replies)
<1>1. r.turns = room.turns \cup new /\ r.sums = room.sums
  BY DEF Answered, TypeOK, State
<1> HIDE DEF new, r
<1>2. Ahead(r, room)  BY <1>1 DEF Ahead
<1> QED  BY <1>2 DEF r

LEMMA CompressedIsAhead == ASSUME TypeOK, NEW ok PROVE Ahead(Compressed(room, ok), room)
BY DEF TypeOK, State, Compressed, Ahead

LEMMA AheadStep ==
  TInv /\ Ahead(room, disk) /\ [Next]_vars => Ahead(room', disk') /\ Ahead(disk', disk)
<1> SUFFICES ASSUME TInv, Ahead(room, disk), [Next]_vars
             PROVE  Ahead(room', disk') /\ Ahead(disk', disk)
  OBVIOUS
<1> USE DEF TInv
<1>1. ASSUME Ahead(room', room), disk' \in {room', disk}
      PROVE  Ahead(room', disk') /\ Ahead(disk', disk)
  <2>1. Ahead(room', disk)  BY <1>1, AheadIsTransitive
  <2> QED  BY <1>1, <2>1, AheadIsReflexive
<1>2. ASSUME UNCHANGED <<room, disk>> PROVE Ahead(room', disk') /\ Ahead(disk', disk)
  BY <1>2, AheadIsReflexive
<1>3. ASSUME room'.turns = room.turns, room'.sums = room.sums, disk' \in {room', disk}
      PROVE  Ahead(room', disk') /\ Ahead(disk', disk)
  <2>1. Ahead(room', room)  BY <1>3 DEF Ahead
  <2> QED  BY <1>1, <1>3, <2>1
<1>4. ASSUME NEW n \in 1 .. MaxCall, NEW m \in Modes, NEW s \in BOOLEAN, Begin(n, m, s)
      PROVE  Ahead(room', disk') /\ Ahead(disk', disk)
  BY <1>2, <1>4 DEF Begin
<1>5. CASE StartRound  BY <1>2, <1>5 DEF StartRound
<1>6. CASE EndRun
  <2>1. room' = room /\ disk' \in {room', disk}  BY <1>6 DEF EndRun, Save
  <2> QED  BY <1>1, <2>1, AheadIsReflexive
<1>7. CASE StopEarly  BY <1>2, <1>7 DEF StopEarly
<1>8. CASE Continue  BY <1>2, <1>8 DEF Continue
<1>9. ASSUME NEW replies \in Replies, TierAnswers(replies)
      PROVE  Ahead(room', disk') /\ Ahead(disk', disk)
  <2>1. Ahead(room', room)  BY <1>9, AnsweredIsAhead DEF TierAnswers
  <2>2. disk' \in {room', disk}  BY <1>9 DEF TierAnswers, Save
  <2> QED  BY <1>1, <2>1, <2>2
<1>10. ASSUME NEW ok \in BOOLEAN, Compress(ok)
       PROVE  Ahead(room', disk') /\ Ahead(disk', disk)
  <2>1. Ahead(room', room)  BY <1>10, CompressedIsAhead DEF Compress
  <2>2. disk' \in {room', disk}  BY <1>10 DEF Compress, Save
  <2> QED  BY <1>1, <2>1, <2>2
<1>11. ASSUME NEW errs \in SUBSET busy, NEW others \in SUBSET busy, Abort(errs, others)
       PROVE  Ahead(room', disk') /\ Ahead(disk', disk)
  BY <1>3, <1>11 DEF Abort, TypeOK, State
<1>12. ASSUME NEW n \in stray, NEW reply, StrayEnds(n, reply)
       PROVE  Ahead(room', disk') /\ Ahead(disk', disk)
  BY <1>3, <1>12 DEF StrayEnds, TypeOK, State
<1>13. CASE Inject
  BY <1>1, <1>13, AheadIsReflexive DEF Inject
<1>14. ASSUME NEW n \in Names, AddParticipant(n)
       PROVE  Ahead(room', disk') /\ Ahead(disk', disk)
  BY <1>3, <1>14 DEF AddParticipant, TypeOK, State, Save
<1>15. CASE Restart
  BY <1>15, AheadIsReflexive DEF Restart
<1>16. CASE UNCHANGED vars
  BY <1>2, <1>16 DEF vars
<1> QED
  BY <1>4, <1>5, <1>6, <1>7, <1>8, <1>9, <1>10, <1>11, <1>12, <1>13, <1>14, <1>15, <1>16
  DEF Next, Step

(* What the file holds of a turn is given up only for the SUMMARY of its   *)
(* round, and a SUMMARY never disappears.                                  *)
THEOREM SavedStaysSaved == Spec => SavedIsKept
<1>1. Init => Ahead(room, disk)  BY AheadIsReflexive DEF Init
<1>2. TInv /\ Ahead(room, disk) /\ [Next]_vars
        => [ /\ \A t \in disk.turns : t \in disk'.turns \/ t.round \in disk'.sums
             /\ disk.sums \subseteq disk'.sums ]_vars
  BY AheadStep DEF Ahead
<1>3. TInv /\ Ahead(room, disk) /\ [Next]_vars => Ahead(room, disk)'
  BY AheadStep
<1> QED  BY <1>1, <1>2, <1>3, TypeInit, TypeStep, PTL DEF Spec, SavedIsKept

-----------------------------------------------------------------------------
(* The dag.  Those who are asked are a tier of those who are not through.  *)

InTier == pc = "ask" => busy \in Tier(active \ done)

LEMMA TierInit == Init => InTier
BY DEF Init, InTier

LEMMA TierStep == InTier /\ [Next]_vars => InTier'
<1> SUFFICES ASSUME InTier, [Next]_vars PROVE InTier'  OBVIOUS
<1>1. ASSUME pc' # "ask" PROVE InTier'  BY <1>1 DEF InTier
<1>2. ASSUME UNCHANGED <<pc, run>> PROVE InTier'  BY <1>2 DEF run, InTier, Tier
<1>3. ASSUME NEW n \in 1 .. MaxCall, NEW m \in Modes, NEW s \in BOOLEAN, Begin(n, m, s)
      PROVE  InTier'
  BY <1>1, <1>3 DEF Begin
<1>4. CASE StartRound
  <2>1. busy' \in Tier(Active) /\ active' = Active /\ done' = {} /\ mode' = mode
    BY <1>4 DEF StartRound
  <2>2. active' \ done' = Active  BY <2>1
  <2> QED  BY <2>1, <2>2 DEF InTier, Tier
<1>5. CASE EndRun  BY <1>1, <1>5 DEF EndRun, Finish
<1>6. CASE StopEarly  BY <1>1, <1>6 DEF StopEarly, Finish
<1>7. CASE Continue  BY <1>1, <1>7 DEF Continue
<1>8. ASSUME NEW replies \in Replies, TierAnswers(replies) PROVE InTier'
  <2>1. CASE done' = active  BY <1>1, <1>8, <2>1 DEF TierAnswers
  <2>2. CASE done' # active
    <3>1. busy' \in Tier(active \ done') /\ active' = active /\ mode' = mode
      BY <1>8, <2>2 DEF TierAnswers
    <3> QED  BY <3>1 DEF InTier, Tier
  <2> QED  BY <2>1, <2>2
<1>9. ASSUME NEW ok \in BOOLEAN, Compress(ok) PROVE InTier'
  BY <1>1, <1>9 DEF Compress
<1>10. ASSUME NEW errs \in SUBSET busy, NEW others \in SUBSET busy, Abort(errs, others)
       PROVE  InTier'
  BY <1>1, <1>10 DEF Abort, Finish
<1>11. ASSUME NEW n \in stray, NEW reply, StrayEnds(n, reply) PROVE InTier'
  BY <1>2, <1>11 DEF StrayEnds
<1>12. CASE Inject  BY <1>2, <1>12 DEF Inject
<1>13. ASSUME NEW n \in Names, AddParticipant(n) PROVE InTier'
  BY <1>2, <1>13 DEF AddParticipant
<1>14. CASE Restart  BY <1>1, <1>14 DEF Restart, Finish
<1>15. CASE UNCHANGED vars  BY <1>2, <1>15 DEF vars
<1> QED
  BY <1>3, <1>4, <1>5, <1>6, <1>7, <1>8, <1>9, <1>10, <1>11, <1>12, <1>13, <1>14, <1>15
  DEF Next, Step

(* In a dag nobody is asked before those it depends on, unless it waits    *)
(* for a cycle: a tier without anybody who is ready is all of it in cycles *)
(* or behind them.                                                         *)
THEOREM DependenciesGoFirst == Spec => []DepsFirst
<1>1. InTier => DepsFirst
  <2> SUFFICES ASSUME InTier, pc = "ask", mode = "dag", NEW n \in busy, NEW m \in active,
                      Grounded(n), m \in Deps[n], m \notin done
               PROVE  FALSE
    BY DEF DepsFirst
  <2> DEFINE rest  == active \ done
             ready == {k \in rest : Deps[k] \cap rest = {}}
  <2>1. busy \in Tier(rest)  BY DEF InTier
  <2>2. CASE ready # {}
    <3>1. busy = ready  BY <2>1, <2>2 DEF Tier
    <3> QED  BY <3>1
  <2>3. CASE ready = {}
    <3>1. n \in rest  BY <2>1, <2>3 DEF Tier
    <3>2. rest \in SUBSET active /\ \A k \in rest : Deps[k] \cap rest # {}  BY <2>3
    <3> QED  BY <3>1, <3>2 DEF Grounded
  <2> QED  BY <2>2, <2>3
<1> QED  BY <1>1, TierInit, TierStep, PTL DEF Spec
=============================================================================
