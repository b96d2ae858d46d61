----------------------------- MODULE Consensus ------------------------------
(***************************************************************************)
(* When a room stops talking and what its judge is shown: the end of a     *)
(* round in rooms.py, run_rounds with _round_converged and the claim       *)
(* ledger, adaptive_stop and stop_early, and the majority and minority of  *)
(* _detect_plurality.  A round's answers arrive in one step here; module   *)
(* Turn has how they come about.                                           *)
(*                                                                         *)
(* Operators named Bug_... are seeded faults of the definition that        *)
(* follows them; nothing in the specification uses them.                   *)
(***************************************************************************)
EXTENDS Integers, Sequences, FiniteSets, FiniteSetsExt

CONSTANTS
  Claims,      \* assertions that _extract_claims would find
  Voices,      \* authors of messages: participants, and their tool logs
  Parties,     \* those of them that speak in a round
  Streak,      \* adaptive_k
  MaxCall,     \* bound: rounds asked for in one run
  None

Answer   == [claims : SUBSET Claims, cited : BOOLEAN, dissent : BOOLEAN]
Contents == {{x} : x \in Answer} \cup {{x, y} : x, y \in Answer}
Verdict  == {"open", "quiet", "agreed"}

All(S) == [full |-> S, brief |-> {}, of |-> S]

VARIABLES
  ledger,      \* claims of the claim ledger
  flagged,     \* whether it has UNVERIFIED entries too
  saved,       \* the two of them in the room's file
  made,        \* everything that was claimed in the room so far
  mode,        \* how this run stops: idle, fixed, stop_early or adaptive
  left,        \* rounds it has left
  contents,    \* the good answers of the round that is being settled
  streak,      \* _conv_streak
  log,         \* the last Streak rounds of this run, as they really were
  stopped,     \* why the last run ended
  spoken,      \* who is in the transcript
  judged       \* what the last judge was shown, of whom

vars == <<ledger, flagged, saved, made, mode, left, contents, streak, log, stopped, spoken, judged>>

TypeOK ==
  /\ ledger \subseteq Claims /\ flagged \in BOOLEAN /\ made \subseteq Claims
  /\ saved \in [ledger : SUBSET Claims, flagged : BOOLEAN]
  /\ mode \in {"idle", "fixed", "stop_early", "adaptive"} /\ left \in 0 .. MaxCall
  /\ contents \in Contents \cup {{}} /\ streak \in 0 .. Streak
  /\ log \in Seq(Verdict) /\ Len(log) <= Streak
  /\ stopped \in {None, "rounds", "silent", "converged", "streak"}
  /\ spoken \subseteq Voices
  /\ judged \in [full : SUBSET Voices, brief : SUBSET Voices, of : SUBSET Voices]

Init ==
  /\ ledger = {} /\ flagged = FALSE /\ saved = [ledger |-> {}, flagged |-> FALSE]
  /\ made = {} /\ mode = "idle" /\ left = 0 /\ contents = {} /\ streak = 0
  /\ log = <<>> /\ stopped = None /\ spoken = {}
  /\ judged = All({})

-----------------------------------------------------------------------------
(* _round_converged.                                                       *)

Said(c)   == UNION {x.claims : x \in c}
Calm(c)   == \A x \in c : ~x.dissent
Cited(c)  == \E x \in c : x.cited

(* Claims of a round with disagreement in it do not enter the ledger.      *)
New(c) == IF Calm(c) THEN Said(c) \ ledger ELSE {}

(* UNVERIFIED entries are verification failures, not prior claims.         *)
Bug_Populated == ledger # {} \/ flagged
Populated     == ledger # {}

Converged(c) == Calm(c) /\ New(c) = {} /\ Cited(c) /\ Populated

-----------------------------------------------------------------------------
Begin(m, n) ==
  /\ mode = "idle"
  /\ mode' = m /\ left' = n /\ streak' = 0 /\ log' = <<>> /\ stopped' = None
  /\ judged' = All({})
  /\ UNCHANGED <<ledger, flagged, saved, made, contents, spoken>>

Stop(why) ==
  /\ stopped' = why /\ mode' = "idle" /\ left' = 0 /\ contents' = {}

(* The answers are committed and the room is saved: with the ledger as it  *)
(* was before this round, but for what its verifiers could not cite.       *)
Round(c, S, unverified) ==
  /\ mode # "idle" /\ contents = {} /\ left > 0
  /\ contents' = c
  /\ spoken' = spoken \cup S
  /\ flagged' = (flagged \/ unverified)
  /\ saved' \in {[ledger |-> ledger, flagged |-> flagged'], saved}
  /\ UNCHANGED <<ledger, made, mode, left, streak, log, stopped, judged>>

(* A round in which nobody answered ends a run that may stop early.        *)
Silent ==
  /\ mode # "idle" /\ contents = {} /\ left > 0
  /\ IF mode = "fixed" /\ left > 1 THEN left' = left - 1 /\ UNCHANGED <<mode, contents, stopped>>
     ELSE Stop(IF mode = "fixed" THEN "rounds" ELSE "silent")
  /\ UNCHANGED <<ledger, flagged, saved, made, streak, log, spoken, judged>>

(* Only poisoned turns came: nothing is settled.                           *)
Poisoned ==
  /\ mode # "idle" /\ contents = {} /\ left > 0
  /\ IF left > 1 THEN left' = left - 1 /\ UNCHANGED <<mode, contents, stopped>> ELSE Stop("rounds")
  /\ UNCHANGED <<ledger, flagged, saved, made, streak, log, spoken, judged>>

Bug_Advance(both) == IF both THEN streak + 1 ELSE streak

(* Scorer and ledger have to agree; a scorer that fails does not.          *)
Advance(both) == IF both THEN streak + 1 ELSE 0

(* A round is quiet when nobody disagreed in it or said anything that the  *)
(* room had not heard, and somebody cited.                                 *)
Quiet(c) == Calm(c) /\ Said(c) \subseteq made /\ Cited(c)

Seen(c, agreed) ==
  LET rounds == Append(log, CASE ~Quiet(c) -> "open" [] agreed -> "agreed" [] OTHER -> "quiet")
  IN  IF Len(rounds) > Streak THEN Tail(rounds) ELSE rounds

Goes ==
  IF left > 1 THEN left' = left - 1 /\ contents' = {} /\ UNCHANGED <<mode, stopped>>
  ELSE Stop("rounds")

Settle(agreed) ==
  /\ contents # {}
  /\ ledger' = ledger \cup New(contents)
  /\ made' = made \cup Said(contents)
  /\ log' = Seen(contents, agreed)
  /\ streak' = IF mode = "adaptive" THEN Advance(agreed /\ Converged(contents)) ELSE streak
  /\ CASE mode = "adaptive" /\ streak' >= Streak           -> Stop("streak")
       [] mode = "stop_early" /\ Converged(contents)       -> Stop("converged")
       [] OTHER                                            -> Goes
  /\ UNCHANGED <<flagged, saved, spoken, judged>>

(* The call is cancelled, in particular while the scorer is asked.         *)
Cancel ==
  /\ mode # "idle"
  /\ made' = made \cup Said(contents)
  /\ ledger' \in {ledger, ledger \cup New(contents)}
  /\ mode' = "idle" /\ left' = 0 /\ contents' = {} /\ streak' = 0 /\ log' = <<>>
  /\ stopped' = None
  /\ UNCHANGED <<flagged, saved, spoken, judged>>

(* The bridge restarts: the ledger is what the last save had of it.        *)
Restart ==
  /\ ledger' = saved.ledger /\ flagged' = saved.flagged
  /\ made' = made \cup Said(contents)
  /\ mode' = "idle" /\ left' = 0 /\ contents' = {} /\ streak' = 0 /\ log' = <<>>
  /\ stopped' = None
  /\ UNCHANGED <<saved, spoken, judged>>

-----------------------------------------------------------------------------
(* synthesize with minority_filter: a classifier names the majority, and   *)
(* whoever it does not name is shown in full.  What it says is not used    *)
(* when it names nobody known or everybody.                                *)

Bug_Plurality(majority, minority) ==
  IF Cardinality(spoken) < 3 \/ majority \cap spoken = {} \/ spoken \subseteq majority
  THEN All(spoken)
  ELSE [full |-> minority \cap spoken, brief |-> majority \cap spoken, of |-> spoken]

Plurality(majority, minority) ==
  IF Cardinality(spoken) < 3 \/ majority \cap spoken = {} \/ spoken \subseteq majority
  THEN All(spoken)
  ELSE [full |-> spoken \ majority, brief |-> spoken \cap majority, of |-> spoken]

Judge(filter, majority, minority) ==
  /\ mode = "idle" /\ spoken # {}
  /\ judged' = IF filter THEN Plurality(majority, minority) ELSE All(spoken)
  /\ UNCHANGED <<ledger, flagged, saved, made, mode, left, contents, streak, log, stopped, spoken>>

Next ==
  \/ \E m \in {"fixed", "stop_early", "adaptive"}, n \in 1 .. MaxCall : Begin(m, n)
  \/ \E c \in Contents, S \in Parties, unverified \in BOOLEAN : Round(c, S, unverified)
  \/ Silent \/ Poisoned
  \/ \E agreed \in BOOLEAN : Settle(agreed)
  \/ Cancel \/ Restart
  \/ \E filter \in BOOLEAN, majority, minority \in SUBSET Voices : Judge(filter, majority, minority)

Spec == Init /\ [][Next]_vars
-----------------------------------------------------------------------------
(* Properties.                                                             *)

(* A run that stops early has earned it: in each of its last adaptive_k    *)
(* answered rounds (in the last, with stop_early) nobody disagreed or said *)
(* anything the room had not heard before, and somebody cited; across      *)
(* cancelled runs and restarts, which lose part of the ledger.             *)
StopIsEarned ==
  /\ stopped = "streak" => Len(log) = Streak /\ \A i \in DOMAIN log : log[i] = "agreed"
  /\ stopped = "converged" => log # <<>> /\ log[Len(log)] \in {"quiet", "agreed"}

(* A room in which nobody has claimed anything does not converge, though   *)
(* the ledger fills with what its verifiers could not cite.                *)
NoEmptyConsensus == stopped \in {"streak", "converged"} => made # {}

(* With the minority filter the judge still hears of everybody who spoke,  *)
(* in full or within the majority's summary, whatever the classifier says. *)
NobodyIsDropped == judged.full \cup judged.brief = judged.of

(* What ends a debate and what its judge rests on is earned by what was said. *)
JudgementIsEarned == StopIsEarned /\ NoEmptyConsensus /\ NobodyIsDropped
=============================================================================
