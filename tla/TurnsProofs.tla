---------------------------- MODULE TurnsProofs -----------------------------
(* Proofs about the parts of MCRooms that decide how a debate goes: the    *)
(* end of its rounds and its judge, the turns inside a round, and the      *)
(* watchdog of a claude call.                                              *)
EXTENDS MCRooms, FiniteSetTheorems, SequenceTheorems, TLAPS

(* A step of the rooms is a step of the component or leaves it alone.      *)
LEMMA TurnsSteps ==
  [Next]_vars => [Debate!Next]_debateVars /\ [Turns!Next]_turnsVars /\ [Claude!Next]_claudeVars
BY DEF Next, vars, debateVars, turnsVars, claudeVars, RegistryRuns, DetachedRuns, CompiledRuns,
       PageRuns, ClaudeRuns, TurnsRuns, DebateRuns

-----------------------------------------------------------------------------
(* The end of a debate.                                                    *)

(* What the ledger holds was claimed in the room, also after a restart.    *)
DebateClaims == debateLedger \subseteq debateMade /\ saved.ledger \subseteq debateMade

(* A list of rounds ends with n agreed ones.                               *)
EndsAgreed(l, n) == n <= Len(l) /\ \A i \in 1 .. Len(l) : i > Len(l) - n => l[i] = "agreed"

(* Only a run has an open round, and it has no reason to stop yet; the     *)
(* streak of an adaptive one counts the agreed rounds it ends with.        *)
DebateRounds ==
  /\ contents # {} => debateMode # "idle"
  /\ debateMode # "idle" => stopped = None
  /\ debateMode = "adaptive" => streak < Streak /\ EndsAgreed(log, streak)

DebateInv == Debate!TypeOK /\ DebateClaims /\ DebateRounds /\ Debate!JudgementIsEarned

(* An open round that ends in agreement is one in which nobody disagreed   *)
(* or said anything new, and somebody cited, in a room with claims.        *)
LEMMA DebateQuiet ==
  ASSUME DebateClaims, NEW c, Debate!Converged(c)
  PROVE  Debate!Quiet(c) /\ debateMade # {}
BY DEF DebateClaims, Debate!Converged, Debate!Quiet, Debate!New, Debate!Populated

(* A list that is cut from the left to Streak entries keeps its end.       *)
LEMMA LastRounds ==
  ASSUME NEW S, NEW l \in Seq(S), Len(l) <= Streak, NEW v \in S, NEW r,
         r = IF Len(Append(l, v)) > Streak THEN Tail(Append(l, v)) ELSE Append(l, v)
  PROVE  /\ r \in Seq(S) /\ Len(r) <= Streak /\ Len(r) >= 1 /\ r[Len(r)] = v
         /\ \A n \in Nat : n < Streak /\ v = "agreed" /\ EndsAgreed(l, n) => EndsAgreed(r, n + 1)
<1> DEFINE a == Append(l, v)
<1>0. Streak \in Nat \ {0}  BY StreaksAreRounds
<1>1. /\ a \in Seq(S) /\ Len(a) = Len(l) + 1 /\ Len(l) \in Nat /\ a[Len(a)] = v
      /\ \A i \in 1 .. Len(l) : a[i] = l[i]
  OBVIOUS
<1>2. CASE Len(a) > Streak
  <2>1. /\ r = Tail(a) /\ r \in Seq(S) /\ Len(r) = Len(l) /\ Len(r) >= 1
        /\ \A i \in 1 .. Len(r) : r[i] = a[i + 1]
    BY <1>0, <1>1, <1>2
  <2>2. r[Len(r)] = v  BY <1>1, <2>1
  <2>3. ASSUME NEW n \in Nat, n < Streak, n <= Len(l), v = "agreed",
               \A i \in 1 .. Len(l) : i > Len(l) - n => l[i] = "agreed",
               NEW i \in 1 .. Len(r), i > Len(r) - (n + 1)
        PROVE  r[i] = "agreed"
    <3>1. CASE i = Len(r)  BY <3>1, <2>2, <2>3
    <3>2. CASE i # Len(r)
      <4>1. i + 1 \in 1 .. Len(l) /\ i + 1 > Len(l) - n  BY <1>1, <2>1, <2>3, <3>2
      <4> QED  BY <1>1, <2>1, <2>3, <4>1
    <3> QED  BY <3>1, <3>2
  <2>4. \A n \in Nat : n < Streak => n + 1 <= Len(r)  BY <1>0, <1>1, <1>2, <2>1
  <2> HIDE DEF a
  <2> QED  BY <2>1, <2>2, <2>3, <2>4 DEF EndsAgreed
<1>3. CASE ~(Len(a) > Streak)
  <2>1. r = a  BY <1>3
  <2>2. ASSUME NEW n \in Nat, n <= Len(l), v = "agreed",
               \A i \in 1 .. Len(l) : i > Len(l) - n => l[i] = "agreed",
               NEW i \in 1 .. Len(r), i > Len(r) - (n + 1)
        PROVE  r[i] = "agreed"
    <3>1. CASE i = Len(a)  BY <1>1, <2>1, <2>2, <3>1
    <3>2. CASE i # Len(a)
      <4>1. i \in 1 .. Len(l) /\ i > Len(l) - n  BY <1>1, <2>1, <2>2, <3>2
      <4> QED  BY <1>1, <2>1, <2>2, <4>1
    <3> QED  BY <3>1, <3>2
  <2>3. Len(r) <= Streak  BY <1>0, <1>1, <1>3, <2>1
  <2> HIDE DEF a
  <2> QED  BY <1>1, <2>1, <2>2, <2>3 DEF EndsAgreed
<1> QED  BY <1>2, <1>3

LEMMA DebateInit == Debate!Init => DebateInv
<1> SUFFICES ASSUME Debate!Init PROVE DebateInv  OBVIOUS
<1>1. Debate!TypeOK
  <2>1. MaxCall \in Nat /\ Streak \in Nat  BY StreaksAreRounds, BoundsAreNatural
  <2>2. log \in Seq(Debate!Verdict) /\ Len(log) = 0  BY DEF Debate!Init
  <2>3. saved \in [ledger : SUBSET Claims, flagged : BOOLEAN]
        /\ judged \in [full : SUBSET Voices, brief : SUBSET Voices, of : SUBSET Voices]
    BY DEF Debate!Init, Debate!All
  <2>4. left \in 0 .. MaxCall /\ streak \in 0 .. Streak /\ Len(log) <= Streak
    BY <2>1, <2>2 DEF Debate!Init
  <2>5. contents \in Debate!Contents \cup {{}}  BY DEF Debate!Init
  <2> QED  BY <2>2, <2>3, <2>4, <2>5 DEF Debate!Init, Debate!TypeOK
<1>2. Debate!JudgementIsEarned
  BY NoneIsNoReason
  DEF Debate!Init, Debate!JudgementIsEarned, Debate!StopIsEarned, Debate!NoEmptyConsensus,
      Debate!NobodyIsDropped, Debate!All
<1> QED  BY <1>1, <1>2 DEF Debate!Init, DebateInv, DebateClaims, DebateRounds

(* Settling a round: the one step in which a run stops early.              *)
LEMMA DebateSettles ==
  ASSUME DebateInv, NEW agreed \in BOOLEAN, Debate!Settle(agreed)
  PROVE  DebateInv'
<1> DEFINE v == CASE ~Debate!Quiet(contents) -> "open" [] agreed -> "agreed" [] OTHER -> "quiet"
<1>1. /\ contents \in Debate!Contents /\ Debate!Said(contents) \subseteq Claims
      /\ debateMode # "idle" /\ stopped = None
  <2>1. contents \in Debate!Contents /\ debateMode # "idle" /\ stopped = None
    BY DEF Debate!Settle, DebateInv, DebateRounds, Debate!TypeOK
  <2>2. \A x \in contents : x.claims \subseteq Claims  BY <2>1 DEF Debate!Contents, Debate!Answer
  <2> QED  BY <2>1, <2>2 DEF Debate!Said
<1>2. /\ debateLedger' = debateLedger \cup Debate!New(contents)
      /\ debateMade' = debateMade \cup Debate!Said(contents)
      /\ UNCHANGED <<flagged, saved, spoken, judged>>
  BY DEF Debate!Settle
<1>3. DebateClaims' /\ debateLedger' \subseteq Claims /\ debateMade' \subseteq Claims
  BY <1>1, <1>2 DEF DebateInv, DebateClaims, Debate!New, Debate!TypeOK
<1>4. v \in Debate!Verdict /\ log \in Seq(Debate!Verdict) /\ Len(log) <= Streak
  BY DEF Debate!Verdict, DebateInv, Debate!TypeOK
<1>5. log' = IF Len(Append(log, v)) > Streak THEN Tail(Append(log, v)) ELSE Append(log, v)
  BY DEF Debate!Settle, Debate!Seen
<1> HIDE DEF v
<1>6. /\ log' \in Seq(Debate!Verdict) /\ Len(log') <= Streak /\ Len(log') >= 1
      /\ log'[Len(log')] = v
      /\ \A n \in Nat :
           n < Streak /\ v = "agreed" /\ EndsAgreed(log, n) => EndsAgreed(log', n + 1)
  BY <1>4, <1>5, LastRounds
<1>7. Debate!Converged(contents) => v \in {"agreed", "quiet"} /\ (agreed => v = "agreed") /\ debateMade # {}
  BY DebateQuiet DEF DebateInv, v
<1>8. debateMode = "adaptive" =>
        /\ streak' \in 0 .. Streak /\ EndsAgreed(log', streak')
        /\ streak' # 0 => debateMade # {}
  <2> SUFFICES ASSUME debateMode = "adaptive" PROVE
        /\ streak' \in 0 .. Streak /\ EndsAgreed(log', streak')
        /\ streak' # 0 => debateMade # {}
    OBVIOUS
  <2>1. streak \in Nat /\ streak < Streak /\ EndsAgreed(log, streak)
    BY DEF DebateInv, DebateRounds, Debate!TypeOK
  <2>2. CASE agreed /\ Debate!Converged(contents)
    <3>1. streak' = streak + 1  BY <2>2 DEF Debate!Settle, Debate!Advance
    <3> QED  BY <1>6, <1>7, <2>1, <2>2, <3>1, StreaksAreRounds
  <2>3. CASE ~(agreed /\ Debate!Converged(contents))
    <3>1. streak' = 0  BY <2>3 DEF Debate!Settle, Debate!Advance
    <3> QED  BY <1>6, <3>1, StreaksAreRounds DEF EndsAgreed
  <2> QED  BY <2>2, <2>3
<1>9. streak' \in 0 .. Streak
  BY <1>8 DEF Debate!Settle, DebateInv, Debate!TypeOK
<1>10. Debate!TypeOK  BY DEF DebateInv
<1>11. log' \in Seq(Debate!Verdict) /\ Len(log') <= Streak  BY <1>6
<1>12. debateMode \in {"idle", "fixed", "stop_early", "adaptive"}  BY <1>10 DEF Debate!TypeOK
<1>13. ASSUME stopped' \in {None, "rounds", "silent", "converged", "streak"}, contents' = {},
              left' \in 0 .. MaxCall, debateMode' = debateMode \/ debateMode' = "idle"
       PROVE  Debate!TypeOK'
  BY ONLY <1>2, <1>3, <1>9, <1>10, <1>11, <1>12, <1>13 DEF Debate!TypeOK
<1>14. CASE debateMode = "adaptive" /\ streak' >= Streak /\ Debate!Stop("streak")
  <2>1. streak' = Streak /\ Len(log') = Streak /\ debateMade # {}
    BY <1>6, <1>8, <1>14, StreaksAreRounds DEF EndsAgreed
  <2>2. \A i \in DOMAIN log' : log'[i] = "agreed"
    BY <1>6, <1>8, <1>14, <2>1, StreaksAreRounds DEF EndsAgreed
  <2>3. /\ stopped' = "streak" /\ debateMode' = "idle" /\ left' = 0 /\ contents' = {}
    BY <1>14 DEF Debate!Stop
  <2>4. Debate!TypeOK'
    <3>1. 0 \in 0 .. MaxCall  BY BoundsAreNatural
    <3> QED  BY <1>13, <2>3, <3>1
  <2>5. debateMade' # {}  BY <1>2, <2>1
  <2>6. Debate!JudgementIsEarned'
    BY <1>2, <2>1, <2>2, <2>3, <2>5
    DEF DebateInv, Debate!JudgementIsEarned, Debate!StopIsEarned, Debate!NoEmptyConsensus,
        Debate!NobodyIsDropped
  <2> QED  BY <1>3, <2>3, <2>4, <2>6 DEF DebateInv, DebateRounds
<1>15. CASE debateMode = "stop_early" /\ Debate!Converged(contents) /\ Debate!Stop("converged")
  <2>1. /\ stopped' = "converged" /\ debateMode' = "idle" /\ left' = 0 /\ contents' = {}
    BY <1>15 DEF Debate!Stop
  <2>2. Debate!TypeOK'
    <3>1. 0 \in 0 .. MaxCall  BY BoundsAreNatural
    <3> QED  BY <1>13, <2>1, <3>1
  <2>3. debateMade' # {} /\ log'[Len(log')] \in {"quiet", "agreed"} /\ log' # <<>>
    BY <1>2, <1>6, <1>7, <1>15
  <2>4. Debate!JudgementIsEarned'
    BY <1>2, <2>1, <2>3
    DEF DebateInv, Debate!JudgementIsEarned, Debate!StopIsEarned, Debate!NoEmptyConsensus,
        Debate!NobodyIsDropped
  <2> QED  BY <1>3, <2>1, <2>2, <2>4 DEF DebateInv, DebateRounds
<1>16. CASE ~(debateMode = "adaptive" /\ streak' >= Streak) /\ Debate!Goes
  <2>1. /\ stopped' \in {None, "rounds"} /\ contents' = {} /\ left' \in 0 .. MaxCall
        /\ \/ debateMode' = debateMode /\ stopped' = None
           \/ debateMode' = "idle"
    <3>1. left \in 0 .. MaxCall /\ MaxCall \in Nat  BY <1>10, BoundsAreNatural DEF Debate!TypeOK
    <3>2. CASE left > 1  BY ONLY <1>1, <1>16, <3>1, <3>2 DEF Debate!Goes
    <3>3. CASE ~(left > 1)  BY ONLY <1>16, <3>1, <3>3 DEF Debate!Goes, Debate!Stop
    <3> QED  BY <3>2, <3>3
  <2>2. Debate!TypeOK'  BY <1>13, <2>1
  <2>3. Debate!JudgementIsEarned'
    BY <1>2, <2>1, NoneIsNoReason
    DEF DebateInv, Debate!JudgementIsEarned, Debate!StopIsEarned, Debate!NoEmptyConsensus,
        Debate!NobodyIsDropped
  <2>4. DebateRounds'
    BY <1>8, <1>9, <1>16, <2>1, StreaksAreRounds DEF DebateRounds
  <2> QED  BY <1>3, <2>2, <2>3, <2>4 DEF DebateInv
<1> QED  BY <1>14, <1>15, <1>16 DEF Debate!Settle

LEMMA DebateStep == DebateInv /\ [Debate!Next]_debateVars => DebateInv'
<1> SUFFICES ASSUME DebateInv, [Debate!Next]_debateVars PROVE DebateInv'  OBVIOUS
<1> USE DEF DebateInv, DebateClaims, DebateRounds, Debate!TypeOK
<1>0. /\ Debate!StopIsEarned /\ Debate!NoEmptyConsensus /\ Debate!NobodyIsDropped
      /\ MaxCall \in Nat /\ Streak \in Nat \ {0}
  BY BoundsAreNatural, StreaksAreRounds DEF Debate!JudgementIsEarned
<1>1. ASSUME NEW m \in {"fixed", "stop_early", "adaptive"}, NEW n \in 1 .. MaxCall,
             Debate!Begin(m, n)
      PROVE  DebateInv'
  <2>1. Debate!JudgementIsEarned'
    BY <1>0, <1>1, NoneIsNoReason
    DEF Debate!Begin, Debate!JudgementIsEarned, Debate!StopIsEarned,
        Debate!NoEmptyConsensus, Debate!NobodyIsDropped, Debate!All
  <2> QED  BY <1>0, <1>1, <2>1 DEF Debate!Begin, Debate!All, EndsAgreed
<1>2. ASSUME NEW c \in Debate!Contents, NEW S \in Parties, NEW unverified \in BOOLEAN,
             Debate!Round(c, S, unverified)
      PROVE  DebateInv'
  <2>1. Debate!JudgementIsEarned'
    BY <1>0, <1>2
    DEF Debate!Round, Debate!JudgementIsEarned, Debate!StopIsEarned,
        Debate!NoEmptyConsensus, Debate!NobodyIsDropped
  <2>2. /\ flagged' \in BOOLEAN /\ spoken' \subseteq Voices
        /\ saved' \in [ledger : SUBSET Claims, flagged : BOOLEAN]
        /\ saved'.ledger \subseteq debateMade
    BY <1>2, PartiesSpeak DEF Debate!Round
  <2> QED  BY <1>2, <2>1, <2>2 DEF Debate!Round
<1>3. CASE Debate!Silent \/ Debate!Poisoned
  <2>1. /\ UNCHANGED <<debateLedger, flagged, saved, debateMade, streak, log, spoken, judged>>
        /\ stopped = None /\ contents = {} /\ contents' = {}
        /\ \/ left' = left - 1 /\ left > 1 /\ UNCHANGED <<debateMode, stopped>>
           \/ stopped' \in {"rounds", "silent"} /\ debateMode' = "idle" /\ left' = 0
    BY <1>3 DEF Debate!Silent, Debate!Poisoned, Debate!Stop
  <2>2. Debate!JudgementIsEarned'
    BY <1>0, <2>1
    DEF Debate!JudgementIsEarned, Debate!StopIsEarned, Debate!NoEmptyConsensus,
        Debate!NobodyIsDropped
  <2> QED  BY <1>0, <2>1, <2>2
<1>4. ASSUME NEW agreed \in BOOLEAN, Debate!Settle(agreed) PROVE DebateInv'
  BY <1>4, DebateSettles
<1>5. CASE Debate!Cancel \/ Debate!Restart
  <2>1. \A x \in contents : x.claims \subseteq Claims  BY DEF Debate!Contents, Debate!Answer
  <2>2. Debate!Said(contents) \subseteq Claims  BY <2>1 DEF Debate!Said
  <2>3. /\ debateMade' = debateMade \cup Debate!Said(contents)
        /\ \/ debateLedger' = debateLedger /\ flagged' = flagged
           \/ debateLedger' = debateLedger \cup Debate!New(contents) /\ flagged' = flagged
           \/ debateLedger' = saved.ledger /\ flagged' = saved.flagged
        /\ debateMode' = "idle" /\ left' = 0 /\ contents' = {} /\ streak' = 0 /\ log' = <<>>
        /\ stopped' = None /\ UNCHANGED <<saved, spoken, judged>>
    BY <1>5 DEF Debate!Cancel, Debate!Restart
  <2>4. DebateClaims' /\ debateLedger' \subseteq Claims /\ debateMade' \subseteq Claims
    BY <2>2, <2>3 DEF Debate!New
  <2>5. Debate!JudgementIsEarned'
    BY <1>0, <2>3, NoneIsNoReason
    DEF Debate!JudgementIsEarned, Debate!StopIsEarned, Debate!NoEmptyConsensus,
        Debate!NobodyIsDropped
  <2> QED  BY <1>0, <2>3, <2>4, <2>5
<1>6. ASSUME NEW filter \in BOOLEAN, NEW majority \in SUBSET Voices, NEW minority \in SUBSET Voices,
             Debate!Judge(filter, majority, minority)
      PROVE  DebateInv'
  <2>1. /\ UNCHANGED <<debateLedger, flagged, saved, debateMade, debateMode, left, contents,
                       streak, log, stopped, spoken>>
        /\ \/ judged' = Debate!All(spoken)
           \/ judged' = [full |-> spoken \ majority, brief |-> spoken \cap majority, of |-> spoken]
    BY <1>6 DEF Debate!Judge, Debate!Plurality
  <2>2. /\ judged'.full \cup judged'.brief = judged'.of
        /\ judged' \in [full : SUBSET Voices, brief : SUBSET Voices, of : SUBSET Voices]
    BY <2>1 DEF Debate!All
  <2>3. Debate!JudgementIsEarned'
    BY <1>0, <2>1, <2>2
    DEF Debate!JudgementIsEarned, Debate!StopIsEarned, Debate!NoEmptyConsensus,
        Debate!NobodyIsDropped
  <2> QED  BY <2>1, <2>2, <2>3
<1>7. CASE UNCHANGED debateVars
  BY <1>7 DEF debateVars, Debate!JudgementIsEarned, Debate!StopIsEarned,
              Debate!NoEmptyConsensus, Debate!NobodyIsDropped
<1> HIDE DEF DebateInv, DebateClaims, DebateRounds, Debate!TypeOK
<1> QED  BY <1>1, <1>2, <1>3, <1>4, <1>5, <1>6, <1>7 DEF Debate!Next

(* A debate keeps its invariant.                                           *)
LEMMA DebateAlways == Spec => []DebateInv
<1>1. Init => DebateInv  BY DebateInit DEF Init
<1>2. DebateInv /\ [Next]_vars => DebateInv'  BY TurnsSteps, DebateStep
<1> QED  BY <1>1, <1>2, PTL DEF Spec

(* A run that stops early has earned it, a room in which nobody claimed    *)
(* anything does not converge, and the judge hears of everybody who spoke, *)
(* for any number of claims, participants and rounds, and however often    *)
(* runs are cancelled or the bridge restarts.                              *)
THEOREM DebatesEndEarned == Spec => []JudgementIsEarned
<1>1. DebateInv => JudgementIsEarned  BY DEF DebateInv, JudgementIsEarned
<1> QED  BY <1>1, DebateAlways, PTL

-----------------------------------------------------------------------------
(* The turns of a round.                                                   *)

(* Between runs everybody waits; an answer of a verifier that cites too    *)
(* little is in the ledger before it is committed.                         *)
TurnsWait ==
  /\ turnsMode = "idle" => \A n \in Speakers : turn[n] = Turns!Waiting
  /\ \A n \in Speakers :
       turn[n].at = "answered" /\ Turns!UnderCited(n, turn[n].cited) => <<n, round>> \in turnsLedger
  /\ \A n \in Speakers : turn[n].at = "tool" => turn[n].tries < ToolTurns[n]

(* What has been quoted or summarised is of rounds before this one.        *)
TurnsTalk ==
  /\ \A m \in quoted : \E t \in turns : t.by = m /\ (turnsMode # "idle" => t.round < round)
  /\ \A r \in summed : (\E t \in turns : t.round = r) /\ (turnsMode # "idle" => r < round)
  /\ turnsMode # "idle" => \A t \in turns : t.round <= round

(* What a participant may be shown: a predicate of the participant.        *)
Apart(n, seen) ==
  \A m \in Names :
    /\ \A k \in {"turn", "tool"} :
         Turns!ArePeers(n, m) /\ ~Turns!Granted(n, m, k) => <<m, k>> \notin seen
    /\ <<m, "quote">> \in seen => \E t \in turns : t.by = m /\ t.round < round

TurnsInv == Turns!TypeOK /\ TurnsWait /\ TurnsTalk /\ Turns!RolesAreKept

(* The state of a participant in a round.                                  *)
Turn(n) == [at : {"idle", "sent", "tool", "cite", "answered", "absent", "done"},
            tries : 0 .. ToolTurns[n], seen : SUBSET (Names \X Turns!Kinds), cited : BOOLEAN]

LEMMA TurnsTypes ==
  ASSUME Turns!TypeOK
  PROVE  /\ DOMAIN turn = Speakers /\ turn = [n \in Speakers |-> turn[n]]
         /\ \A n \in Speakers :
              turn[n] \in Turn(n) /\ ToolTurns[n] \in Nat /\ 0 \in 0 .. ToolTurns[n] /\ n \in Names
<1>1. \A n \in Speakers : n \in Names /\ ToolTurns[n] \in {0, 1}  BY PartiesSpeak DEF ToolTurns
<1>2. ASSUME NEW n \in Speakers PROVE turn[n] \in Turn(n)  BY <1>1 DEF Turns!TypeOK, Turn
<1> QED  BY <1>1, <1>2 DEF Turns!TypeOK

(* A transcript quotes earlier rounds only.                                *)
LEMMA TurnsQuotes ==
  ASSUME Turns!TypeOK, TurnsTalk, turnsMode # "idle", NEW m, <<m, "quote">> \in Turns!Quotes
  PROVE  \E t \in turns : t.by = m /\ t.round < round
<1>1. m \in quoted \/ m \in Turns!Authors(summed)  BY DEF Turns!Quotes
<1>2. CASE m \in quoted  BY <1>2 DEF TurnsTalk
<1>3. CASE m \in Turns!Authors(summed)
  <2>1. PICK t \in turns : t.by = m /\ t.round \in summed  BY <1>3 DEF Turns!Authors
  <2>2. \A r \in summed : r < round
    <3>1. \A r \in summed : turnsMode # "idle" => r < round  BY Zenon DEF TurnsTalk
    <3>2. turnsMode # "idle"  OBVIOUS
    <3> QED  BY ONLY <3>1, <3>2, Zenon
  <2>3. t.round < round  BY <2>1, <2>2
  <2> QED  BY <2>1, <2>3
<1> QED  BY <1>1, <1>2, <1>3

(* What a participant is shown in a round it may be shown.                 *)
LEMMA TurnsShown ==
  ASSUME Turns!TypeOK, TurnsTalk, turnsMode # "idle", NEW n \in Speakers
  PROVE  Apart(n, Turns!Shown(n)) /\ Turns!Shown(n) \subseteq Names \X Turns!Kinds
<1> DEFINE said == turnsSaid
           entry == matrix[round][n]
<1>1. ASSUME NEW m \in Names, NEW k \in {"turn", "tool"}, Turns!ArePeers(n, m), ~Turns!Granted(n, m, k)
      PROVE  <<m, k>> \notin Turns!Shown(n)
  <2>1. <<m, k>> \notin Turns!Quotes  BY DEF Turns!Quotes
  <2>2. entry.says # "all" /\ (entry.says = "list" => k # "turn" \/ m \notin entry.names)
    BY <1>1 DEF Turns!Granted
  <2>3. <<m, k>> \notin Turns!Scope(n)
    <3>1. n # m /\ role[n] = role[m]  BY <1>1 DEF Turns!ArePeers
    <3>2. CASE role[n] = "worker" /\ Turns!Cast("thinker") # {}
      <4>1. Turns!Scope(n) = Turns!Words(Turns!Cast("thinker"))  BY <3>2 DEF Turns!Scope
      <4>2. m \notin Turns!Cast("thinker")  BY <3>1, <3>2 DEF Turns!Cast
      <4> QED  BY <4>1, <4>2 DEF Turns!Words
    <3>3. CASE role[n] = "verifier"
      <4>1. m \in Turns!Cast("verifier")  BY <3>1, <3>3 DEF Turns!Cast
      <4>2. Turns!Scope(n) = Turns!Words(Names \ Turns!Cast("verifier"))
        BY <3>1, <3>3, <4>1 DEF Turns!Scope
      <4> QED  BY <4>1, <4>2 DEF Turns!Words
    <3> QED  BY <1>1, <3>2, <3>3 DEF Turns!ArePeers
  <2>4. <<m, k>> \notin Turns!Visible(n)
    BY <2>2, <2>3 DEF Turns!Visible, Turns!Words
  <2> QED  BY <2>1, <2>4 DEF Turns!Shown
<1>2. ASSUME NEW m \in Names, <<m, "quote">> \in Turns!Shown(n)
      PROVE  \E t \in turns : t.by = m /\ t.round < round
  <2>1. <<m, "quote">> \notin Turns!Visible(n)
    <3>1. <<m, "quote">> \notin Turns!Scope(n)
      BY DEF Turns!Scope, Turns!Words, Turns!All
    <3> QED  BY <3>1 DEF Turns!Visible, Turns!Words, Turns!All
  <2>2. <<m, "quote">> \in Turns!Quotes  BY <1>2, <2>1 DEF Turns!Shown
  <2> QED  BY <2>2, TurnsQuotes
<1>3. Turns!Shown(n) \subseteq Names \X Turns!Kinds
  <2>1. quoted \cup Turns!Authors(summed) \subseteq Names /\ Turns!Authors(Turns!Rounds \ summed) \subseteq Names
    BY DEF Turns!TypeOK, Turns!Authors
  <2>2. Turns!Transcript \subseteq Names \X Turns!Kinds
    BY <2>1 DEF Turns!Transcript, Turns!Quotes, Turns!Words, Turns!Kinds, Turns!TypeOK
  <2> QED  BY <2>2 DEF Turns!Shown
<1> QED  BY <1>1, <1>2, <1>3 DEF Apart

LEMMA TurnsApart == Turns!PeersAreApart <=> \A n \in Speakers : Apart(n, turn[n].seen)
BY DEF Turns!PeersAreApart, Apart

LEMMA TurnsInit == Turns!Init => TurnsInv
<1> SUFFICES ASSUME Turns!Init PROVE TurnsInv  OBVIOUS
<1>1. \A n \in Speakers : turn[n] = Turns!Waiting /\ ToolTurns[n] \in Nat
  BY PartiesSpeak DEF Turns!Init, ToolTurns
<1>2. ASSUME NEW n \in Speakers PROVE turn[n] \in Turn(n)
  <2>1. turn[n] = Turns!Waiting /\ 0 \in 0 .. ToolTurns[n]  BY <1>1
  <2> QED  BY <2>1 DEF Turn, Turns!Waiting
<1>3. 1 \in Turns!Rounds /\ MaxRetries \in Nat
  BY RunsAreSettings, BoundsAreNatural DEF Turns!Rounds
<1>4. Turns!TypeOK
  <2>1. role \in [Names -> Turns!Roles] /\ matrix \in [Turns!Rounds -> [Names -> Turns!Entries]]
    BY SettingsAreOfRooms DEF Turns!Init, Turns!Roles, Turns!Rounds, Turns!Entries
  <2>2. turns \subseteq [by : Names, round : Turns!Rounds, under : BOOLEAN]
    <3>1. \A n \in Names \ Speakers :
            [by |-> n, round |-> 1, under |-> FALSE] \in [by : Names, round : Turns!Rounds, under : BOOLEAN]
      BY <1>3
    <3> QED  BY <3>1 DEF Turns!Init
  <2>3. cits \in [Names -> [Turns!Rounds -> 0 .. MaxRetries]]  BY <1>3 DEF Turns!Init
  <2>4. turn \in [Speakers ->
                [at : {"idle", "sent", "tool", "cite", "answered", "absent", "done"},
                 tries : Nat, seen : SUBSET (Names \X Turns!Kinds), cited : BOOLEAN]]
    BY DEF Turns!Init, Turns!Waiting
  <2>5. \A n \in Speakers : turn[n].tries <= ToolTurns[n]  BY <1>1 DEF Turns!Waiting
  <2> QED  BY <1>3, <2>1, <2>2, <2>3, <2>4, <2>5 DEF Turns!Init, Turns!TypeOK
<1>5. TurnsWait /\ TurnsTalk
  BY <1>1 DEF TurnsWait, TurnsTalk, Turns!Init, Turns!Waiting
<1>6. Turns!RolesAreKept
  BY <1>1 DEF Turns!RolesAreKept, Turns!PeersAreApart, Turns!UnderCitedIsFlagged, Turns!Init,
              Turns!Waiting
<1> QED  BY <1>4, <1>5, <1>6 DEF TurnsInv

(* One participant goes on, the others and the round stay as they are.     *)
LEMMA TurnsOne ==
  ASSUME TurnsInv, NEW n \in Speakers, NEW t \in Turn(n), turn' = [turn EXCEPT ![n] = t],
         UNCHANGED <<role, matrix, flag, turnsMode, round, first, turns, summed, quoted>>,
         turnsSaid' \subseteq Names \X Turns!Kinds,
         turnsLedger' \subseteq Names \X Turns!Rounds, turnsLedger \subseteq turnsLedger',
         cits' \in [Names -> [Turns!Rounds -> 0 .. MaxRetries]],
         turnsMode # "idle",
         t.at = "answered" /\ Turns!UnderCited(n, t.cited) => <<n, round>> \in turnsLedger',
         t.at = "tool" => t.tries < ToolTurns[n],
         t.seen \in {{}, turn[n].seen, Turns!Shown(n)}
  PROVE  TurnsInv'
<1>1. /\ DOMAIN turn = Speakers /\ DOMAIN turn' = Speakers
      /\ turn'[n] = t /\ \A m \in Speakers : m # n => turn'[m] = turn[m]
      /\ \A m \in Speakers : turn[m] \in Turn(m)
  BY TurnsTypes DEF TurnsInv
<1>2. \A m \in Speakers : turn'[m] \in Turn(m)  BY <1>1
<1>3. Turns!TypeOK'
  <2>1. t \in [at : {"idle", "sent", "tool", "cite", "answered", "absent", "done"},
               tries : Nat, seen : SUBSET (Names \X Turns!Kinds), cited : BOOLEAN]
        /\ t.tries <= ToolTurns[n]
    BY TurnsTypes DEF Turn, TurnsInv
  <2> QED  BY <1>1, <2>1 DEF TurnsInv, Turns!TypeOK
<1>4. TurnsWait'
  BY <1>1 DEF TurnsInv, TurnsWait, Turns!UnderCited
<1>5. Turns!UnderCitedIsFlagged'
  BY DEF TurnsInv, Turns!RolesAreKept, Turns!UnderCitedIsFlagged
<1>6. Turns!PeersAreApart'
  <2>1. \A p \in Speakers : Apart(p, turn[p].seen)
    BY TurnsApart DEF TurnsInv, Turns!RolesAreKept
  <2>2. Apart(n, Turns!Shown(n))  BY TurnsShown DEF TurnsInv
  <2>3. Apart(n, {})  BY DEF Apart
  <2>4. \A p \in Speakers : Apart(p, turn'[p].seen)  BY <1>1, <2>1, <2>2, <2>3
  <2>5. \A p, m, k : (Turns!ArePeers(p, m)' <=> Turns!ArePeers(p, m))
                   /\ (Turns!Granted(p, m, k)' <=> Turns!Granted(p, m, k))
    BY DEF Turns!ArePeers, Turns!Granted, Turns!Cast
  <2> QED  BY <2>4, <2>5 DEF Turns!PeersAreApart, Apart
<1>7. TurnsTalk'  BY DEF TurnsInv, TurnsTalk
<1> QED  BY <1>3, <1>4, <1>5, <1>6, <1>7 DEF TurnsInv, Turns!RolesAreKept

(* A participant asks, runs a tool, answers, revises or fails.             *)
LEMMA TurnsSpeak ==
  ASSUME TurnsInv, NEW n \in Speakers,
         \/ Turns!Ask(n) \/ Turns!CallsTool(n) \/ Turns!ToolRuns(n) \/ Turns!RevisionFails(n)
         \/ Turns!Fails(n)
         \/ \E cited \in Turns!Scores(n) : Turns!Answers(n, cited) \/ Turns!Revises(n, cited)
  PROVE  TurnsInv'
<1>1. /\ turn[n] \in Turn(n) /\ DOMAIN turn = Speakers
      /\ turn[n].at # "idle" => turnsMode # "idle"
      /\ turnsSaid \subseteq Names \X Turns!Kinds /\ turnsLedger \subseteq Names \X Turns!Rounds
      /\ cits \in [Names -> [Turns!Rounds -> 0 .. MaxRetries]]
      /\ n \in Names /\ round \in Turns!Rounds /\ MaxRetries \in Nat /\ ToolTurns[n] \in Nat
      /\ turn[n].at = "tool" => turn[n].tries < ToolTurns[n]
      /\ 0 \in 0 .. ToolTurns[n]
  <2>1. turn[n].at # "idle" => turnsMode # "idle"  BY DEF TurnsInv, TurnsWait, Turns!Waiting
  <2>2. MaxRetries \in Nat  BY BoundsAreNatural
  <2> QED  BY <2>1, <2>2, TurnsTypes DEF TurnsInv, TurnsWait, Turns!TypeOK
<1>2. CASE Turns!Ask(n)
  <2> DEFINE t == [turn[n] EXCEPT !.at = "sent", !.seen = Turns!Shown(n)]
  <2>1. /\ turn' = [turn EXCEPT ![n] = t] /\ turnsMode # "idle"
        /\ UNCHANGED <<role, matrix, flag, turnsMode, round, first, turns, summed, quoted, turnsSaid,
                       turnsLedger, cits>>
    BY <1>1, <1>2 DEF Turns!Ask, Turns!run, Turns!talk
  <2>2. Turns!Shown(n) \subseteq Names \X Turns!Kinds  BY <2>1, TurnsShown DEF TurnsInv
  <2>3. t \in Turn(n) /\ t.at = "sent" /\ t.seen = Turns!Shown(n)  BY <1>1, <2>2 DEF Turn
  <2> HIDE DEF t
  <2> QED  BY <1>1, <2>1, <2>3, TurnsOne
<1>3. CASE \/ Turns!CallsTool(n) \/ Turns!ToolRuns(n)
  <2>1. PICK t \in Turn(n) :
          /\ turn' = [turn EXCEPT ![n] = t] /\ t.seen = turn[n].seen
          /\ \/ t.at = "tool" /\ t.tries < ToolTurns[n]
             \/ t.at = "sent"
    <3>1. CASE Turns!CallsTool(n)
      <4>1. [turn[n] EXCEPT !.at = "tool"] \in Turn(n)  BY <1>1 DEF Turn
      <4> QED  BY <1>1, <3>1, <4>1 DEF Turns!CallsTool, Turns!Becomes, Turns!At, Turn
    <3>2. CASE Turns!ToolRuns(n)
      <4> DEFINE t == [turn[n] EXCEPT !.at = "sent", !.tries = turn[n].tries + 1]
      <4>1. turn[n].tries + 1 \in 0 .. ToolTurns[n]
        BY <1>1, <3>2 DEF Turns!ToolRuns, Turns!At, Turn
      <4>2. t \in Turn(n) /\ t.seen = turn[n].seen /\ t.at = "sent"  BY <1>1, <4>1 DEF Turn
      <4>3. turn' = [turn EXCEPT ![n] = t]  BY <1>1, <3>2 DEF Turns!ToolRuns
      <4> QED  BY <4>2, <4>3
    <3> QED  BY <1>3, <3>1, <3>2
  <2>2. /\ UNCHANGED <<role, matrix, flag, turnsMode, round, first, turns, summed, quoted, turnsLedger, cits>>
        /\ turnsSaid' \subseteq Names \X Turns!Kinds
    BY <1>1, <1>3 DEF Turns!CallsTool, Turns!ToolRuns, Turns!run, Turns!talk, Turns!Kinds
  <2>3. turnsMode # "idle"  BY <1>1, <1>3 DEF Turns!CallsTool, Turns!ToolRuns, Turns!At
  <2> QED  BY <1>1, <2>1, <2>2, <2>3, TurnsOne
<1>4. ASSUME NEW cited \in BOOLEAN,
             \/ Turns!Judges(n, cited)
             \/ Turns!Settles(n, cited) /\ UNCHANGED cits,
             UNCHANGED <<role, matrix, flag, turnsMode, round, first, turns, summed, quoted, turnsSaid>>,
             turn[n].at \in {"sent", "cite"}, turnsMode # "idle"
      PROVE  TurnsInv'
  <2>1. CASE Turns!AsksAgain(n) /\ cits[n][round] < MaxRetries
    <3> DEFINE t == [turn[n] EXCEPT !.at = "cite"]
    <3>1. t \in Turn(n) /\ t.seen = turn[n].seen /\ t.at = "cite"  BY <1>1 DEF Turn
    <3>2. turn' = [turn EXCEPT ![n] = t] /\ turnsLedger' = turnsLedger
      BY <1>1, <2>1 DEF Turns!AsksAgain, Turns!Becomes
    <3>3. cits' \in [Names -> [Turns!Rounds -> 0 .. MaxRetries]]
      <4>1. cits[n] \in [Turns!Rounds -> 0 .. MaxRetries] /\ cits[n][round] + 1 \in 0 .. MaxRetries
        BY <1>1, <2>1
      <4>2. cits' = [cits EXCEPT ![n] = [cits[n] EXCEPT ![round] = cits[n][round] + 1]]
        BY <2>1 DEF Turns!AsksAgain
      <4> QED  BY <1>1, <4>1, <4>2
    <3> HIDE DEF t
    <3> QED  BY <1>1, <1>4, <3>1, <3>2, <3>3, TurnsOne
  <2>2. CASE Turns!Settles(n, cited) /\ UNCHANGED cits
    <3> DEFINE t == [Turns!Waiting EXCEPT !.at = "answered", !.cited = cited]
    <3>1. t \in Turn(n) /\ t.seen = {} /\ t.at = "answered" /\ t.cited = cited
      BY <1>1 DEF Turn, Turns!Waiting
    <3>2. /\ turn' = [turn EXCEPT ![n] = t] /\ turnsLedger \subseteq turnsLedger'
          /\ turnsLedger' \subseteq Names \X Turns!Rounds
          /\ Turns!UnderCited(n, cited) => <<n, round>> \in turnsLedger'
      BY <1>1, <2>2 DEF Turns!Settles
    <3> HIDE DEF t
    <3> QED  BY <1>1, <1>4, <2>2, <3>1, <3>2, TurnsOne
  <2> QED  BY <1>4, <2>1, <2>2 DEF Turns!Judges, Turns!Retries
<1>6. CASE Turns!Fails(n)
  <2> DEFINE t == [Turns!Waiting EXCEPT !.at = "absent"]
  <2>1. t \in Turn(n) /\ t.seen = {} /\ t.at = "absent"  BY <1>1 DEF Turn, Turns!Waiting
  <2>2. /\ turn' = [turn EXCEPT ![n] = t]
        /\ UNCHANGED <<role, matrix, flag, turnsMode, round, first, turns, summed, quoted, turnsSaid,
                       turnsLedger, cits>>
    BY <1>6 DEF Turns!Fails, Turns!run, Turns!talk
  <2>3. turnsMode # "idle"  BY <1>1, <1>6 DEF Turns!Fails, Turns!At
  <2> HIDE DEF t
  <2> QED  BY <1>1, <2>1, <2>2, <2>3, TurnsOne
<1>7. ASSUME NEW cited \in Turns!Scores(n), Turns!Answers(n, cited) \/ Turns!Revises(n, cited)
      PROVE  TurnsInv'
  <2>1. cited \in BOOLEAN  BY DEF Turns!Scores
  <2>2. /\ Turns!Judges(n, cited) /\ turn[n].at \in {"sent", "cite"} /\ turnsMode # "idle"
        /\ UNCHANGED <<role, matrix, flag, turnsMode, round, first, turns, summed, quoted, turnsSaid>>
    BY <1>1, <1>7 DEF Turns!Answers, Turns!Revises, Turns!At, Turns!run, Turns!talk
  <2> QED  BY <1>4, <2>1, <2>2
<1>8. CASE Turns!RevisionFails(n)
  BY <1>1, <1>4, <1>8 DEF Turns!RevisionFails, Turns!At, Turns!run, Turns!talk
<1> QED  BY <1>2, <1>3, <1>6, <1>7, <1>8


(* What came back is committed, for one participant or for all.            *)
LEMMA TurnsCommit ==
  ASSUME TurnsInv, NEW S \in SUBSET Speakers, Turns!Commit(S)
  PROVE  TurnsInv'
<1>1. /\ DOMAIN turn = Speakers /\ \A n \in Speakers : turn[n] \in Turn(n) /\ 0 \in 0 .. ToolTurns[n]
      /\ turnsMode # "idle" /\ S \subseteq Names /\ round \in Turns!Rounds
      /\ UNCHANGED <<role, matrix, flag, turnsMode, round, first, summed, quoted, turnsLedger, cits>>
      /\ turns' = turns \cup Turns!NewTurns(S)
      /\ \E R \in SUBSET S : turnsSaid' = turnsSaid \cup Turns!Words(R)
      /\ turn' = [n \in Speakers |-> IF n \in S THEN [Turns!Waiting EXCEPT !.at = "done"] ELSE turn[n]]
  BY TurnsTypes DEF TurnsInv, Turns!TypeOK, Turns!Commit, Turns!run, Turns!talk
<1>2. ASSUME NEW n \in Speakers
      PROVE  /\ turn'[n] \in Turn(n)
             /\ \/ turn'[n] = turn[n]
                \/ turn'[n].at = "done" /\ turn'[n].seen = {}
  BY <1>1 DEF Turn, Turns!Waiting
<1>3. \A t \in Turns!NewTurns(S) :
        /\ t \in [by : Names, round : Turns!Rounds, under : BOOLEAN]
        /\ t.under => <<t.by, t.round>> \in turnsLedger
  <2> SUFFICES ASSUME NEW n \in S, turn[n].at = "answered"
               PROVE  /\ Turns!UnderCited(n, turn[n].cited) \in BOOLEAN /\ n \in Names
                      /\ Turns!UnderCited(n, turn[n].cited) => <<n, round>> \in turnsLedger
    BY <1>1 DEF Turns!NewTurns, Turns!At
  <2> QED  BY <1>1 DEF TurnsInv, TurnsWait, Turns!UnderCited
<1>4. Turns!TypeOK'
  <2>1. \A n \in Speakers :
          turn'[n] \in [at : {"idle", "sent", "tool", "cite", "answered", "absent", "done"},
                       tries : Nat, seen : SUBSET (Names \X Turns!Kinds), cited : BOOLEAN]
          /\ turn'[n].tries <= ToolTurns[n]
    BY <1>2, TurnsTypes DEF TurnsInv, Turn
  <2> QED  BY <1>1, <1>3, <2>1 DEF TurnsInv, Turns!TypeOK, Turns!Words, Turns!Kinds
<1>5. TurnsWait'
  <2>1. \A n \in Speakers : Turns!UnderCited(n, turn[n].cited)' <=> Turns!UnderCited(n, turn'[n].cited)
    BY <1>1 DEF Turns!UnderCited
  <2> QED  BY <1>1, <1>2, <2>1 DEF TurnsInv, TurnsWait
<1>6. Turns!UnderCitedIsFlagged'
  BY <1>1, <1>3 DEF TurnsInv, Turns!RolesAreKept, Turns!UnderCitedIsFlagged
<1>7. Turns!PeersAreApart'
  <2>1. \A p \in Speakers : Apart(p, turn[p].seen) /\ Apart(p, {})
    BY TurnsApart DEF TurnsInv, Turns!RolesAreKept, Apart
  <2>2. \A p \in Speakers : Apart(p, turn'[p].seen)  BY <1>2, <2>1
  <2>3. \A p, m, k : (Turns!ArePeers(p, m)' <=> Turns!ArePeers(p, m))
                   /\ (Turns!Granted(p, m, k)' <=> Turns!Granted(p, m, k))
    BY <1>1 DEF Turns!ArePeers, Turns!Granted, Turns!Cast
  <2>4. turns \subseteq turns' /\ round' = round  BY <1>1
  <2> QED  BY <2>2, <2>3, <2>4 DEF Turns!PeersAreApart, Apart
<1>8. TurnsTalk'
  <2>1. \A t \in Turns!NewTurns(S) : t.round = round  BY DEF Turns!NewTurns
  <2>2. round <= round  BY <1>1 DEF Turns!Rounds
  <2>3. \A t \in turns' : t.round <= round  BY <1>1, <2>1, <2>2 DEF TurnsInv, TurnsTalk
  <2> QED  BY <1>1, <2>3 DEF TurnsInv, TurnsTalk
<1> QED  BY <1>4, <1>5, <1>6, <1>7, <1>8 DEF TurnsInv, Turns!RolesAreKept

(* A round or a run ends, or a run begins: everybody waits.                *)
LEMMA TurnsTogether ==
  ASSUME TurnsInv, turn' = [n \in Speakers |-> Turns!Waiting],
         UNCHANGED <<matrix, turnsSaid, turns, turnsLedger, cits>>,
         summed' \subseteq Turns!Rounds, quoted' \subseteq Names, TurnsTalk',
         role' \in [Names -> Turns!Roles], round' \in Turns!Rounds, first' \in BOOLEAN,
         flag' \in {"open", "blind", "sparse"}, turnsMode' \in {"idle", "sequential", "parallel"}
  PROVE  TurnsInv'
<1>1. \A n \in Speakers :
        /\ turn'[n] = Turns!Waiting /\ 0 \in 0 .. ToolTurns[n]
        /\ turn'[n].seen = {} /\ turn'[n].at = "idle" /\ turn'[n].tries = 0
  BY TurnsTypes DEF TurnsInv, Turns!Waiting
<1>3. Turns!TypeOK'
  <2>1. Turns!Waiting \in [at : {"idle", "sent", "tool", "cite", "answered", "absent", "done"},
                           tries : Nat, seen : SUBSET (Names \X Turns!Kinds), cited : BOOLEAN]
    BY DEF Turns!Waiting
  <2>2. \A n \in Speakers : turn'[n].tries <= ToolTurns[n]  BY <1>1, TurnsTypes DEF TurnsInv
  <2> QED  BY <2>1, <2>2 DEF TurnsInv, Turns!TypeOK
<1>4. TurnsWait'  BY <1>1 DEF TurnsWait
<1>5. Turns!UnderCitedIsFlagged'
  BY DEF TurnsInv, Turns!RolesAreKept, Turns!UnderCitedIsFlagged
<1>6. Turns!PeersAreApart'  BY <1>1 DEF Turns!PeersAreApart
<1> QED  BY <1>3, <1>4, <1>5, <1>6 DEF TurnsInv, Turns!RolesAreKept

LEMMA TurnsStep == TurnsInv /\ [Turns!Next]_turnsVars => TurnsInv'
<1> SUFFICES ASSUME TurnsInv, [Turns!Next]_turnsVars PROVE TurnsInv'  OBVIOUS
<1>1. /\ role \in [Names -> Turns!Roles] /\ round \in Turns!Rounds /\ first \in BOOLEAN
      /\ flag \in {"open", "blind", "sparse"} /\ turnsMode \in {"idle", "sequential", "parallel"}
      /\ 1 \in Turns!Rounds /\ DOMAIN turn = Speakers
  BY RunsAreSettings, TurnsTypes DEF TurnsInv, Turns!TypeOK, Turns!Rounds
<1>0. summed \subseteq Turns!Rounds /\ quoted \subseteq Names
      /\ turns \subseteq [by : Names, round : Turns!Rounds, under : BOOLEAN]
  BY DEF TurnsInv, Turns!TypeOK
<1>2. ASSUME NEW m \in {"sequential", "parallel"}, NEW f \in Flags, Turns!Run(m, f) PROVE TurnsInv'
  <2>1. \A n \in Speakers : turn[n] = Turns!Waiting
    BY <1>2 DEF Turns!Run, TurnsInv, TurnsWait
  <2>2. turn' = [n \in Speakers |-> Turns!Waiting]
    <3>1. turn = [n \in Speakers |-> turn[n]]  BY TurnsTypes DEF TurnsInv
    <3>2. [n \in Speakers |-> turn[n]] = [n \in Speakers |-> Turns!Waiting]  BY <2>1
    <3> QED  BY <1>2, <3>1, <3>2 DEF Turns!Run
  <2>3. TurnsTalk'
    <3>1. UNCHANGED <<turns, summed, quoted>> /\ round' \in Turns!Rounds
      BY <1>2 DEF Turns!Run, Turns!talk
    <3>2. \A t \in turns : t.round < round'  BY <1>2 DEF Turns!Run, Turns!Committed
    <3>3. \A t \in turns : t.round <= round'  BY <1>0, <3>1, <3>2 DEF Turns!Rounds
    <3> QED  BY <3>1, <3>2, <3>3 DEF TurnsInv, TurnsTalk
  <2> QED  BY <1>0, <1>1, <1>2, <2>2, <2>3, RunsAreSettings, TurnsTogether DEF Turns!Run, Turns!talk
<1>3. ASSUME NEW n \in Speakers,
             \/ Turns!Ask(n) \/ Turns!CallsTool(n) \/ Turns!ToolRuns(n) \/ Turns!RevisionFails(n)
             \/ Turns!Fails(n)
             \/ \E cited \in Turns!Scores(n) : Turns!Answers(n, cited) \/ Turns!Revises(n, cited)
      PROVE  TurnsInv'
  BY <1>3, TurnsSpeak
<1>4. ASSUME NEW S \in SUBSET Speakers, Turns!Commit(S) PROVE TurnsInv'  BY <1>4, TurnsCommit
<1>5. CASE Turns!EndRound
  <2>1. role' \in [Names -> Turns!Roles]
    BY <1>1, <1>5 DEF Turns!EndRound, Turns!Reassigned, Turns!Roles
  <2>2. /\ round' \in Turns!Rounds /\ first' \in BOOLEAN
        /\ flag' \in {"open", "blind", "sparse"} /\ turnsMode' \in {"idle", "sequential", "parallel"}
    <3>1. CASE /\ round < MaxRounds /\ round' = round + 1 /\ turnsMode' = turnsMode
               /\ first' = FALSE /\ flag' = flag
      <4>1. round' \in Turns!Rounds  BY <1>1, <3>1, RunsAreSettings DEF Turns!Rounds
      <4> QED  BY <1>1, <3>1, <4>1
    <3>2. CASE turnsMode' = "idle" /\ flag' = "open" /\ round' = 1 /\ first' = TRUE
      BY <1>1, <3>2
    <3> QED  BY <1>5, <3>1, <3>2 DEF Turns!EndRound
  <2>3. /\ summed' \subseteq Turns!Rounds
        /\ \A r \in summed' : r \in summed \/ (r < round /\ \E t \in turns : t.round = r)
    <3>1. \A r \in Turns!Aged : r \in Turns!Rounds /\ r < round /\ \E t \in turns : t.round = r
      <4> SUFFICES ASSUME NEW r \in Turns!Rounds, Verbatim # 0, r = round - Verbatim, Turns!Authors({r}) # {}
                   PROVE  r < round /\ \E t \in turns : t.round = r
        BY DEF Turns!Aged
      <4>1. r < round  BY <1>1, RunsAreSettings DEF Turns!Rounds
      <4> QED  BY <4>1 DEF Turns!Authors
    <3> QED  BY <1>0, <1>5, <3>1 DEF Turns!EndRound
  <2>4. /\ quoted' \subseteq Names
        /\ \A m \in quoted' : m \in quoted \/ \E t \in turns : t.by = m /\ t.round = round
    <3>1. Turns!Authors({round}) \subseteq {m \in Names : \E t \in turns : t.by = m /\ t.round = round}
      BY <1>0 DEF Turns!Authors
    <3>2. quoted' = quoted \/ \E c \in SUBSET Turns!Authors({round}) : quoted' = quoted \cup c
      BY <1>5 DEF Turns!EndRound, Turns!Challenges
    <3> QED  BY <1>0, <3>1, <3>2
  <2>5. turns' = turns /\ turnsMode # "idle" /\ (turnsMode' # "idle" => round' = round + 1)
    BY <1>5 DEF Turns!EndRound
  <2>6. TurnsTalk'
    <3>1. \A t \in turns : t.round <= round /\ t.round \in Nat /\ round \in Nat
      BY <1>0, <1>1, <2>5 DEF TurnsInv, TurnsTalk, Turns!Rounds
    <3>2. ASSUME turnsMode' # "idle", NEW t \in turns PROVE t.round < round' /\ t.round <= round'
      <4>1. round' = round + 1 /\ round \in Nat /\ t.round \in Nat /\ t.round <= round
        BY <2>5, <3>1, <3>2
      <4> QED  BY ONLY <4>1
    <3>3. \A m \in quoted' : \E t \in turns : t.by = m  BY <2>4 DEF TurnsInv, TurnsTalk
    <3>4. \A r \in summed' : \E t \in turns : t.round = r  BY <2>3 DEF TurnsInv, TurnsTalk
    <3>5. turnsMode' # "idle" => \A m \in quoted' : \E t \in turns : t.by = m /\ t.round < round'
      BY <3>2, <3>3
    <3>6. turnsMode' # "idle" => \A r \in summed' : r < round'
      BY <3>2, <3>4
    <3>7. turnsMode' # "idle" => \A t \in turns : t.round <= round'  BY <3>2
    <3>8. /\ \A m \in quoted' : \E t \in turns : t.by = m /\ (turnsMode' # "idle" => t.round < round')
          /\ \A r \in summed' : (\E t \in turns : t.round = r) /\ (turnsMode' # "idle" => r < round')
      BY ONLY <3>3, <3>4, <3>5, <3>6, Zenon
    <3>9. turns' = turns  BY <2>5
    <3> QED  BY ONLY <3>7, <3>8, <3>9 DEF TurnsTalk
  <2> QED  BY <1>5, <2>1, <2>2, <2>3, <2>4, <2>6, TurnsTogether DEF Turns!EndRound
<1>6. CASE Turns!Cancel
  <2>1. TurnsTalk'  BY <1>6 DEF Turns!Cancel, Turns!talk, TurnsInv, TurnsTalk
  <2> QED  BY <1>0, <1>1, <1>6, <2>1, TurnsTogether DEF Turns!Cancel, Turns!talk
<1>7. CASE UNCHANGED turnsVars
  <2>1. TurnsWait'  BY <1>7 DEF turnsVars, TurnsInv, TurnsWait, Turns!UnderCited
  <2>2. Turns!TypeOK'  BY <1>7 DEF turnsVars, TurnsInv, Turns!TypeOK
  <2>3. Turns!RolesAreKept'
    BY <1>7 DEF turnsVars, TurnsInv, Turns!RolesAreKept, Turns!PeersAreApart,
                Turns!UnderCitedIsFlagged, Turns!ArePeers, Turns!Granted, Turns!Cast
  <2>4. TurnsTalk'  BY <1>7 DEF turnsVars, TurnsInv, TurnsTalk
  <2> QED  BY <2>1, <2>2, <2>3, <2>4 DEF TurnsInv
<1>8. \A n \in Speakers : {n} \in SUBSET Speakers  OBVIOUS
<1>9. Speakers \in SUBSET Speakers  OBVIOUS
<1> QED
  BY <1>2, <1>3, <1>4, <1>5, <1>6, <1>7, <1>8, <1>9 DEF Turns!Next, Turns!Step

(* A round keeps its invariant.                                            *)
LEMMA TurnsAlways == Spec => []TurnsInv
<1>1. Init => TurnsInv  BY TurnsInit DEF Init
<1>2. TurnsInv /\ [Next]_vars => TurnsInv'  BY TurnsSteps, TurnsStep
<1> QED  BY <1>1, <1>2, PTL DEF Spec

(* Workers and verifiers are not shown the messages and tool logs of their *)
(* peers unless the matrix says so, and claims only as quotes from earlier *)
(* rounds; and an under-cited verifier turn has its UNVERIFIED entry, over *)
(* any number of rounds, retries and cancelled runs.                       *)
THEOREM TurnsKeepRoles == Spec => []RolesAreKept
<1>1. TurnsInv => RolesAreKept  BY DEF TurnsInv, RolesAreKept
<1> QED  BY <1>1, TurnsAlways, PTL

-----------------------------------------------------------------------------
(* The watchdog of a claude call.                                          *)

(* The watch's clocks are not behind what they measure, and its history is *)
(* the end of what was done.                                               *)
ClaudeClocks ==
  /\ stepped <= moved /\ stepped <= now
  /\ limited > 0 => limited + Progress <= resumes
  /\ tree <= Len(done)
  /\ phase # "ended" => outcome = None
ClaudeHistory ==
  \E k \in Nat : /\ Len(done) = Len(history) + k
                 /\ \A i \in 1 .. Len(history) : history[i] = done[i + k]

ClaudeInv == Claude!TypeOK /\ ClaudeClocks /\ ClaudeHistory /\ Claude!VerdictIsDeserved

(* The instance counts as the rooms do.                                    *)
LEMMA ClaudeCounts == \A S : Claude!Cardinality(S) = Cardinality(S)
BY Zenon DEF Claude!Cardinality, Cardinality

(* The least of two or three numbers is one of them and not above any.     *)
LEMMA LeastOf ==
  ASSUME NEW a \in Nat, NEW b \in Nat, NEW c \in Nat, NEW S, S = {a, b} \/ S = {a, b, c}
  PROVE  Claude!Min(S) \in S /\ \A x \in S : Claude!Min(S) <= x
<1>1. \E x \in S : \A y \in S : x <= y
  <2>1. CASE S = {a, b}  BY <2>1
  <2>2. CASE S = {a, b, c}  BY <2>2
  <2> QED  BY <2>1, <2>2
<1> QED  BY <1>1 DEF Claude!Min

LEMMA ClaudeInit == Claude!Init => ClaudeInv
<1> SUFFICES ASSUME Claude!Init PROVE ClaudeInv  OBVIOUS
<1>1. /\ {MaxActions, Timeout, Progress} \subseteq Nat
      /\ history = <<>> /\ done = <<>> /\ Len(history) = 0 /\ Len(done) = 0
  BY BoundsAreNatural DEF Claude!Init
<1>2. history \in Seq(Claude!Entries) /\ done \in Seq(Claude!Entries)  BY <1>1
<1>3. Claude!TypeOK  BY <1>1, <1>2 DEF Claude!Init, Claude!TypeOK
<1>4. ClaudeClocks /\ ClaudeHistory
  BY <1>1 DEF Claude!Init, ClaudeClocks, ClaudeHistory
<1>5. Claude!VerdictIsDeserved
  BY NoneIsNoReason DEF Claude!Init, Claude!VerdictIsDeserved
<1> QED  BY <1>3, <1>4, <1>5 DEF ClaudeInv

(* Dropping what has left the window leaves the end of the history.        *)
LEMMA ClaudeRecent ==
  ASSUME NEW S, NEW h \in Seq(S)
  PROVE  \E c \in 0 .. Len(h) :
           /\ Claude!Recent(h) \in Seq(S) /\ Len(Claude!Recent(h)) = Len(h) - c
           /\ \A i \in 1 .. Len(h) - c : Claude!Recent(h)[i] = h[c + i]
<1> DEFINE c == Cardinality(Claude!Past(h))
<1>1. Claude!Past(h) \in SUBSET (1 .. Len(h)) /\ Len(h) \in Nat  BY DEF Claude!Past
<1>2. IsFiniteSet(1 .. Len(h)) /\ Cardinality(1 .. Len(h)) = Len(h)
  <2>1. ASSUME NEW n \in Nat PROVE IsFiniteSet(1 .. n) /\ Cardinality(1 .. n) = n
    <3>1. 1 \in Int /\ n \in Int  OBVIOUS
    <3>2. IsFiniteSet(1 .. n) /\ Cardinality(1 .. n) = IF 1 > n THEN 0 ELSE n - 1 + 1
      BY <3>1, FS_Interval
    <3> QED  BY <3>2
  <2> QED  BY <1>1, <2>1
<1>3. c \in 0 .. Len(h)  BY <1>1, <1>2, FS_Subset, FS_CardinalityType
<1>4. Claude!Recent(h) = SubSeq(h, c + 1, Len(h))
  BY ClaudeCounts, Zenon DEF Claude!Recent
<1> HIDE DEF c
<1>5. \A i \in c + 1 .. Len(h) : h[i] \in S  BY <1>3
<1>6. /\ SubSeq(h, c + 1, Len(h)) \in Seq(S)
      /\ Len(SubSeq(h, c + 1, Len(h))) = IF c + 1 <= Len(h) THEN Len(h) - (c + 1) + 1 ELSE 0
      /\ \A i \in 1 .. Len(h) - (c + 1) + 1 : SubSeq(h, c + 1, Len(h))[i] = h[c + 1 + i - 1]
  BY <1>1, <1>3, <1>5, SubSeqProperties
<1>7. Len(SubSeq(h, c + 1, Len(h))) = Len(h) - c  BY <1>1, <1>3, <1>6
<1>8. \A i \in 1 .. Len(h) - c : SubSeq(h, c + 1, Len(h))[i] = h[c + i]
  BY <1>1, <1>3, <1>6
<1> QED  BY <1>3, <1>4, <1>6, <1>7, <1>8

(* An action enters the list of what was done and the history.             *)
LEMMA ClaudeActs ==
  ASSUME ClaudeInv, NEW a \in Actions, NEW writes \in BOOLEAN, Claude!Acts(a, writes)
  PROVE  ClaudeInv'
<1> DEFINE t == IF writes THEN tree + 1 ELSE tree
           entry == [digest |-> <<a, t>>, at |-> now]
<1>1. /\ history \in Seq(Claude!Entries) /\ done \in Seq(Claude!Entries)
      /\ Len(done) \in Nat /\ Len(history) \in Nat
      /\ tree \in 0 .. MaxActions /\ tree <= Len(done) /\ now \in 0 .. Timeout
      /\ {MaxActions, Timeout} \subseteq Nat
  <2>1. /\ history \in Seq(Claude!Entries) /\ done \in Seq(Claude!Entries)
        /\ tree \in 0 .. MaxActions /\ now \in 0 .. Timeout
    BY DEF ClaudeInv, Claude!TypeOK
  <2>2. tree <= Len(done)  BY DEF ClaudeInv, ClaudeClocks
  <2>3. Len(done) \in Nat /\ Len(history) \in Nat  BY <2>1
  <2>4. {MaxActions, Timeout} \subseteq Nat  BY BoundsAreNatural
  <2> QED  BY <2>1, <2>2, <2>3, <2>4
<1>2. /\ Len(done) < MaxActions /\ tree' = t /\ phase = "asleep"
      /\ history' = Append(Claude!Recent(history), entry) /\ done' = Append(done, entry)
      /\ heard' = now /\ moved' = now /\ stepped' = now
      /\ UNCHANGED <<claudeMode, phase, process, reader, now, wake, resumes, limited, outcome>>
  BY DEF Claude!Acts, Claude!Reads, Claude!clocks
<1>3. t \in 0 .. MaxActions /\ t <= Len(done) + 1  BY <1>1, <1>2
<1>4. entry \in Claude!Entries  BY <1>1, <1>3 DEF Claude!Entries
<1> HIDE DEF t, entry
<1>5. PICK k \in Nat : /\ Len(done) = Len(history) + k
                       /\ \A i \in 1 .. Len(history) : history[i] = done[i + k]
  BY DEF ClaudeInv, ClaudeHistory
<1> DEFINE r == Claude!Recent(history)
<1>6. PICK c \in 0 .. Len(history) :
        /\ r \in Seq(Claude!Entries) /\ Len(r) = Len(history) - c
        /\ \A i \in 1 .. Len(history) - c : r[i] = history[c + i]
  BY <1>1, ClaudeRecent
<1> HIDE DEF r
<1>7. history' = Append(r, entry)  BY <1>2 DEF r
<1>8. /\ history' \in Seq(Claude!Entries) /\ Len(history') = Len(history) - c + 1
      /\ \A i \in 1 .. Len(history) - c : history'[i] = history[c + i]
      /\ history'[Len(history) - c + 1] = entry
  BY <1>1, <1>4, <1>6, <1>7
<1>9. /\ done' \in Seq(Claude!Entries) /\ Len(done') = Len(done) + 1
      /\ \A i \in 1 .. Len(done) : done'[i] = done[i]
      /\ done'[Len(done) + 1] = entry
  BY <1>1, <1>2, <1>4
<1>10. ClaudeHistory'
  <2>1. k + c \in Nat /\ Len(done') = Len(history') + (k + c)  BY <1>1, <1>5, <1>8, <1>9
  <2>2. ASSUME NEW i \in 1 .. Len(history') PROVE history'[i] = done'[i + (k + c)]
    <3>1. CASE i = Len(history) - c + 1
      <4>1. i + (k + c) = Len(done) + 1  BY <1>1, <1>5, <3>1
      <4> QED  BY <1>8, <1>9, <3>1, <4>1
    <3>2. CASE i # Len(history) - c + 1
      <4>1. i \in 1 .. Len(history) - c /\ c + i \in 1 .. Len(history)
        <5>1. i \in Nat /\ 1 <= i /\ i <= Len(history) - c + 1 /\ c \in Nat /\ c <= Len(history)
          BY <1>1, <1>8
        <5> QED  BY <1>1, <3>2, <5>1
      <4>2. history'[i] = done[(c + i) + k]  BY <1>5, <1>8, <4>1
      <4>3. (c + i) + k = i + (k + c) /\ (c + i) + k \in 1 .. Len(done)
        BY <1>1, <1>5, <4>1
      <4> QED  BY <1>9, <4>2, <4>3
    <3> QED  BY <3>1, <3>2
  <2> QED  BY <2>1, <2>2 DEF ClaudeHistory
<1>11. ClaudeClocks'
  BY <1>1, <1>2, <1>3, <1>9 DEF ClaudeInv, ClaudeClocks
<1>12. Claude!TypeOK'
  BY <1>1, <1>2, <1>3, <1>8, <1>9 DEF ClaudeInv, Claude!TypeOK
<1>13. Claude!VerdictIsDeserved'
  BY <1>2, NoneIsNoReason DEF ClaudeInv, ClaudeClocks, Claude!VerdictIsDeserved
<1> QED  BY <1>10, <1>11, <1>12, <1>13 DEF ClaudeInv

(* What repeats in the history repeats among all that was done.            *)
LEMMA ClaudeLoops ==
  ASSUME ClaudeInv, Claude!Looping
  PROVE  \E x \in Claude!Range(done) :
           Claude!Cardinality({i \in DOMAIN done :
             done[i].digest = x.digest /\ now - done[i].at < Window}) >= Repeats
<1>1. /\ history \in Seq(Claude!Entries) /\ done \in Seq(Claude!Entries)
      /\ Len(done) \in Nat /\ Len(history) \in Nat /\ Repeats \in Nat
  <2>1. history \in Seq(Claude!Entries) /\ done \in Seq(Claude!Entries)
    BY DEF ClaudeInv, Claude!TypeOK
  <2>2. Len(done) \in Nat /\ Len(history) \in Nat  BY <2>1
  <2>3. Repeats \in Nat  BY BoundsAreNatural
  <2> QED  BY <2>1, <2>2, <2>3
<1>2. PICK k \in Nat : /\ Len(done) = Len(history) + k
                       /\ \A i \in 1 .. Len(history) : history[i] = done[i + k]
  BY DEF ClaudeInv, ClaudeHistory
<1>3. PICK x \in Claude!Range(history) :
        Claude!Cardinality({i \in DOMAIN history :
          history[i].digest = x.digest /\ now - history[i].at < Window}) >= Repeats
  BY DEF Claude!Looping
<1> DEFINE H == {i \in DOMAIN history : history[i].digest = x.digest /\ now - history[i].at < Window}
           D == {i \in DOMAIN done : done[i].digest = x.digest /\ now - done[i].at < Window}
           f == [i \in H |-> i + k]
<1>4. \A i \in H : i + k \in D
  <2>1. \A i \in H : i \in 1 .. Len(history) /\ i + k \in 1 .. Len(done)  BY <1>1, <1>2
  <2> QED  BY <1>1, <1>2, <2>1
<1>5. H \subseteq Nat  BY <1>1
<1>6. D \in SUBSET (1 .. Len(done))  BY <1>1
<1>7. IsFiniteSet(D)  BY <1>1, <1>6, FS_Interval, FS_Subset
<1>8. x \in Claude!Range(done)
  <2>1. PICK i \in DOMAIN history : x = history[i]  BY <1>3 DEF Claude!Range
  <2>2. i \in 1 .. Len(history) /\ i + k \in DOMAIN done /\ x = done[i + k]
    BY <1>1, <1>2, <2>1
  <2> QED  BY <2>2 DEF Claude!Range
<1>9. Cardinality(H) >= Repeats  BY <1>3, ClaudeCounts, Zenon
<1> HIDE DEF H, D
<1>10. f \in Injection(H, D)  BY <1>4, <1>5 DEF Injection, IsInjective
<1> HIDE DEF f
<1>11. IsFiniteSet(H) /\ Cardinality(H) <= Cardinality(D)  BY <1>7, <1>10, FS_Injection
<1>12. Cardinality(H) \in Nat /\ Cardinality(D) \in Nat  BY <1>7, <1>11, FS_CardinalityType
<1>13. Cardinality(D) >= Repeats  BY <1>1, <1>9, <1>11, <1>12
<1>14. Claude!Cardinality(D) >= Repeats  BY <1>13, ClaudeCounts, Zenon
<1> QED  BY <1>8, <1>14 DEF D

(* The loop looks: it ends the call with a reason or sleeps again.         *)
LEMMA ClaudeLooks == ClaudeInv /\ Claude!Look => ClaudeInv'
<1> SUFFICES ASSUME ClaudeInv, Claude!Look PROVE ClaudeInv'  OBVIOUS
<1>1. /\ Claude!TypeOK /\ ClaudeClocks /\ ClaudeHistory
      /\ {Timeout, Idle, Progress} \subseteq Nat
      /\ outcome = None /\ phase = "looking"
  BY BoundsAreNatural DEF ClaudeInv, ClaudeClocks, Claude!Look
<1>2. ASSUME NEW why \in {"timeout", "idle", "stalled", "looping"}, Claude!Ends(why),
             UNCHANGED <<claudeMode, reader, now, wake, heard, moved, resumes, history, tree, done,
                         stepped, limited>>,
             why \in {"stalled", "looping"} => claudeMode = "on",
             why = "stalled" => Claude!Stalled, why = "looping" => Claude!Looping
      PROVE  ClaudeInv'
  <2>1. outcome' = why /\ phase' = "ended" /\ process' = "dead"  BY <1>2 DEF Claude!Ends
  <2>2. Claude!TypeOK'  BY <1>1, <1>2, <2>1 DEF Claude!TypeOK
  <2>3. ClaudeClocks' /\ ClaudeHistory'
    BY <1>1, <1>2, <2>1 DEF ClaudeClocks, ClaudeHistory
  <2>4. why = "stalled" => now - stepped >= Progress /\ (limited > 0 => now - limited >= Progress)
    <3>1. /\ {now, stepped, moved, limited, resumes, Progress} \subseteq Nat /\ stepped <= moved
          /\ limited > 0 => limited + Progress <= resumes
      <4>1. Timeout \in Nat /\ Progress \in Nat  BY <1>1
      <4> QED  BY ONLY <1>1, <4>1 DEF Claude!TypeOK, ClaudeClocks
    <3>2. why = "stalled" => now - moved >= Progress /\ ~(now < resumes)
      BY <1>2 DEF Claude!Stalled, Claude!Suspended
    <3> QED  BY ONLY <3>1, <3>2
  <2>5. why = "looping" =>
          \E x \in Claude!Range(done) :
            Claude!Cardinality({i \in DOMAIN done :
              done[i].digest = x.digest /\ now - done[i].at < Window}) >= Repeats
    BY <1>2, ClaudeLoops
  <2>6. Claude!VerdictIsDeserved'
    BY <1>2, <2>1, <2>4, <2>5 DEF Claude!VerdictIsDeserved
  <2> QED  BY <2>2, <2>3, <2>6 DEF ClaudeInv
<1>3. ASSUME NEW m \in {moved, now}, NEW h \in {history, <<>>}, Claude!Sleeps(m, h)
      PROVE  ClaudeInv'
  <2>1. /\ now \in Nat /\ heard \in Nat /\ moved \in Nat /\ resumes \in Nat /\ stepped \in Nat
        /\ stepped <= moved /\ stepped <= now /\ now <= Timeout /\ moved <= Timeout
    BY <1>1 DEF Claude!TypeOK, ClaudeClocks
  <2>2. Claude!NextStall(m, resumes) \in Nat  BY <1>1, <2>1 DEF Claude!NextStall
  <2>3. wake' \in 0 .. Timeout
    <3> DEFINE S == {heard + Idle, Timeout} \cup
                    (IF claudeMode = "off" THEN {} ELSE {Claude!NextStall(m, resumes)})
               n == Claude!NextStall(m, resumes)
    <3>1. S = {heard + Idle, Timeout} \/ S = {heard + Idle, Timeout, n}  OBVIOUS
    <3>2. S \subseteq Nat /\ Timeout \in S  BY <1>1, <2>1, <2>2
    <3>3. wake' = Claude!Min(S)  BY <1>3 DEF Claude!Sleeps
    <3> HIDE DEF S, n
    <3>4. heard + Idle \in Nat /\ Timeout \in Nat /\ n \in Nat  BY <1>1, <2>1, <2>2 DEF n
    <3>5. Claude!Min(S) \in S /\ \A x \in S : Claude!Min(S) <= x  BY <3>1, <3>4, LeastOf
    <3>6. Claude!Min(S) \in Nat /\ Claude!Min(S) <= Timeout  BY <3>2, <3>5
    <3> QED  BY <1>1, <3>3, <3>6
  <2>4. /\ phase' = "asleep" /\ moved' = m /\ history' = h
        /\ UNCHANGED <<claudeMode, process, reader, now, heard, resumes, tree, done, stepped,
                       limited, outcome>>
    BY <1>3 DEF Claude!Sleeps
  <2>5. m \in 0 .. Timeout /\ stepped <= m  BY <1>1, <2>1
  <2>6. h \in Seq(Claude!Entries)
    <3>1. history \in Seq(Claude!Entries)  BY <1>1 DEF Claude!TypeOK
    <3>2. <<>> \in Seq(Claude!Entries)  OBVIOUS
    <3>3. h = history \/ h = <<>>  OBVIOUS
    <3> QED  BY <3>1, <3>2, <3>3
  <2>7. Claude!TypeOK'  BY <1>1, <2>3, <2>4, <2>5, <2>6 DEF Claude!TypeOK
  <2>8. ClaudeClocks'  BY <1>1, <2>4, <2>5 DEF ClaudeClocks
  <2>9. ClaudeHistory'
    <3>1. CASE h = history  BY <1>1, <2>4, <3>1 DEF ClaudeHistory
    <3>2. CASE h = <<>>
      <4>1. Len(done) \in Nat /\ Len(history') = 0  BY <1>1, <2>4, <3>2 DEF Claude!TypeOK
      <4> QED  BY <2>4, <4>1 DEF ClaudeHistory
    <3> QED  BY <3>1, <3>2
  <2>10. Claude!VerdictIsDeserved'
    BY <1>1, <2>4, NoneIsNoReason DEF Claude!VerdictIsDeserved
  <2> QED  BY <2>7, <2>8, <2>9, <2>10 DEF ClaudeInv
<1> QED  BY <1>2, <1>3 DEF Claude!Look, Claude!clocks, Claude!watch

LEMMA ClaudeStep == ClaudeInv /\ [Claude!Next]_claudeVars => ClaudeInv'
<1> SUFFICES ASSUME ClaudeInv, [Claude!Next]_claudeVars PROVE ClaudeInv'  OBVIOUS
<1>1. ASSUME NEW a \in Actions, NEW writes \in BOOLEAN, Claude!Acts(a, writes) PROVE ClaudeInv'
  BY <1>1, ClaudeActs
<1>2. CASE Claude!Look  BY <1>2, ClaudeLooks
<1>3. CASE Claude!Finishes \/ Claude!Cancelled
  <2>1. /\ outcome' \in {"result", "empty", "cancelled"} /\ phase' = "ended" /\ process' = "dead"
        /\ UNCHANGED <<claudeMode, reader, now, wake, heard, moved, resumes, history, tree,
                       done, stepped, limited>>
    BY <1>3 DEF Claude!Finishes, Claude!Cancelled, Claude!Ends, Claude!clocks, Claude!watch
  <2> QED
    BY <2>1 DEF ClaudeInv, Claude!TypeOK, ClaudeClocks, ClaudeHistory, Claude!VerdictIsDeserved
<1>4. ASSUME /\ UNCHANGED <<claudeMode, history, tree, done, outcome>>
             /\ outcome = None /\ phase # "ended" /\ phase' # "ended"
             /\ Claude!TypeOK' /\ ClaudeClocks'
      PROVE  ClaudeInv'
  BY <1>4, NoneIsNoReason DEF ClaudeInv, ClaudeHistory, Claude!VerdictIsDeserved
<1>5. {Timeout, Progress} \subseteq Nat  BY BoundsAreNatural
<1>6. CASE Claude!Written \/ Claude!TimesOut \/ Claude!Result \/ Claude!Exit \/ Claude!Hook
  BY <1>4, <1>6
  DEF Claude!Written, Claude!TimesOut, Claude!Result, Claude!Exit, Claude!Hook, Claude!Reads,
      Claude!clocks, Claude!watch, ClaudeInv, Claude!TypeOK, ClaudeClocks
<1>7. CASE Claude!Grows
  BY <1>4, <1>7 DEF Claude!Grows, Claude!Reads, Claude!clocks, ClaudeInv, Claude!TypeOK, ClaudeClocks
<1>8. CASE Claude!RateLimit
  BY <1>4, <1>5, <1>8
  DEF Claude!RateLimit, Claude!Reads, Claude!clocks, ClaudeInv, Claude!TypeOK, ClaudeClocks
<1>9. CASE Claude!Tick
  BY <1>4, <1>5, <1>9 DEF Claude!Tick, Claude!watch, ClaudeInv, Claude!TypeOK, ClaudeClocks
<1>10. CASE UNCHANGED claudeVars
  <2>1. Claude!TypeOK'  BY <1>10 DEF claudeVars, ClaudeInv, Claude!TypeOK
  <2>2. ClaudeClocks' /\ ClaudeHistory'
    BY <1>10 DEF claudeVars, ClaudeInv, ClaudeClocks, ClaudeHistory
  <2>3. Claude!VerdictIsDeserved'  BY <1>10 DEF claudeVars, ClaudeInv, Claude!VerdictIsDeserved
  <2> QED  BY <2>1, <2>2, <2>3 DEF ClaudeInv
<1> QED  BY <1>1, <1>2, <1>3, <1>6, <1>7, <1>8, <1>9, <1>10 DEF Claude!Next

(* A call keeps its invariant.                                             *)
LEMMA ClaudeAlways == Spec => []ClaudeInv
<1>1. Init => ClaudeInv  BY ClaudeInit DEF Init
<1>2. ClaudeInv /\ [Next]_vars => ClaudeInv'  BY TurnsSteps, ClaudeStep
<1> QED  BY <1>1, <1>2, PTL DEF Spec

(* A claude turn is killed as stalled only after a whole progress timeout  *)
(* without growth or rate limit, and as looping only when one action was   *)
(* repeated within the window, for any timeouts, windows and turns.        *)
THEOREM VerdictsAreDeserved == Spec => []VerdictIsDeserved
<1>1. ClaudeInv => VerdictIsDeserved  BY DEF ClaudeInv, VerdictIsDeserved
<1> QED  BY <1>1, ClaudeAlways, PTL

=============================================================================
