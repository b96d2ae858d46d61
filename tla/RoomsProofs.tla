---------------------------- MODULE RoomsProofs -----------------------------
(* Proofs about the parts of MCRooms that keep what a room produced: the   *)
(* detached panels, the registry of rooms, and the transcript of the page. *)
EXTENDS MCRooms, FiniteSetTheorems, SequenceTheorems, TLAPS

(* A step of the rooms is a step of the component or leaves it alone.      *)
LEMMA RoomsSteps ==
  [Next]_vars =>
    [Detached!Next]_fusionVars /\ [Registry!Next]_registryVars /\ [Page!Next]_dashboardVars
BY DEF Next, vars, fusionVars, registryVars, dashboardVars, RegistryRuns, DetachedRuns,
       CompiledRuns, PageRuns, ClaudeRuns, TurnsRuns, DebateRuns

-----------------------------------------------------------------------------
(* The detached panels.                                                    *)

(* A task that works has a record, with rounds left while it is in them;   *)
(* the conductor runs its one room.                                        *)
FusionWorks ==
  \A f \in Fusions :
    /\ Detached!Works(f) => record[f] # None
    /\ task[f] = "rounds" => record[f].rounds < RoundsTotal
    /\ kind[f] = None => /\ task[f] = "none" /\ record[f] = None
                         /\ f \notin fusionFile /\ f \notin told
    /\ kind[f] = "conductor" => running[f] \subseteq {"dense"}

(* The text of a record is in its file too, unless that could not be       *)
(* written, and a client hears of a result when one of them has it.        *)
FusionText ==
  /\ \A f \in Fusions : record[f] # None =>
       /\ record[f].status = "done" => record[f].text
       /\ record[f].text => f \in fusionFile \/ f \in unsaved
  /\ \A f \in told : Detached!Readable(f) \/ (f \in unsaved /\ record[f] = None)

FusionInv == Detached!TypeOK /\ FusionWorks /\ FusionText

LEMMA FusionInit == Detached!Init => FusionInv
BY BoundsAreNatural
DEF Detached!Init, FusionInv, Detached!TypeOK, FusionWorks, FusionText, Detached!Works

(* A step of one run: the others stay, and what it leaves of this one has  *)
(* rounds left while it is in them and its text in a file if it can.       *)
FusionGoes(f) ==
  /\ \A g \in Fusions : g # f => /\ record'[g] = record[g] /\ task'[g] = task[g]
                                 /\ kind'[g] = kind[g] /\ running'[g] = running[g]
  /\ fusionFile \subseteq fusionFile' /\ fusionFile' \subseteq fusionFile \cup {f}
  /\ unsaved \subseteq unsaved'
  /\ told' \subseteq told \cup {f}
  /\ kind'[f] # None /\ record'[f] # None
  /\ task'[f] = "rounds" => record'[f].rounds < RoundsTotal
  /\ kind'[f] = "conductor" => running'[f] \subseteq {"dense"}
  /\ record'[f].status = "done" => record'[f].text
  /\ record'[f].text => f \in fusionFile' \/ f \in unsaved'
  /\ f \in told' => record'[f].text \/ f \in fusionFile'

LEMMA FusionOne ==
  ASSUME FusionInv, NEW f \in Fusions, Detached!TypeOK', FusionGoes(f)
  PROVE  FusionInv'
<1>1. FusionWorks'
  BY DEF FusionInv, FusionWorks, Detached!Works, FusionGoes
<1>2. FusionText'
  <2>1. ASSUME NEW g \in Fusions, record'[g] # None
        PROVE  /\ record'[g].status = "done" => record'[g].text
               /\ record'[g].text => g \in fusionFile' \/ g \in unsaved'
    BY <2>1 DEF FusionInv, FusionText, FusionGoes
  <2>2. ASSUME NEW g \in told'
        PROVE  Detached!Readable(g)' \/ (g \in unsaved' /\ record'[g] = None)
    <3>1. CASE g = f
      BY <3>1, <2>2 DEF FusionGoes, Detached!Readable
    <3>2. CASE g # f
      <4>1. g \in told /\ g \in Fusions
        BY <3>2, <2>2 DEF FusionGoes, FusionInv, Detached!TypeOK
      <4> QED  BY <4>1, <3>2 DEF FusionGoes, FusionInv, FusionText, Detached!Readable
    <3> QED  BY <3>1, <3>2
  <2> QED  BY <2>1, <2>2 DEF FusionText
<1> QED  BY <1>1, <1>2 DEF FusionInv

LEMMA FusionTypes == FusionInv /\ [Detached!Next]_fusionVars => Detached!TypeOK'
<1> SUFFICES ASSUME FusionInv, [Detached!Next]_fusionVars
             PROVE  Detached!TypeOK'
  OBVIOUS
<1> USE BoundsAreNatural, RunsHaveRounds
        DEF Detached!TypeOK, Detached!Kinds, Detached!Statuses
<1>0. Detached!TypeOK
  BY DEF FusionInv
<1>1. ASSUME NEW f \in Fusions, NEW k \in Detached!Kinds, NEW how \in {"inline", "background"},
             Detached!Start(f, k, how)
      PROVE  Detached!TypeOK'
  BY <1>0, <1>1 DEF Detached!Start, Detached!RoomsOf
<1>2. ASSUME NEW f \in Fusions, NEW room \in {"sparse", "dense"}, Detached!RoundsEnd(f, room)
      PROVE  Detached!TypeOK'
  <2>1. record[f] \in [status : Detached!Statuses, rounds : 0 .. RoundsTotal, text : BOOLEAN]
        /\ record[f].rounds < RoundsTotal
    BY <1>0, <1>2 DEF Detached!RoundsEnd, FusionInv, FusionWorks, Detached!Works
  <2> DEFINE n == IF kind[f] = "conductor" THEN record[f].rounds + 1 ELSE RoundsTotal
             going == IF n < RoundsTotal THEN running[f] ELSE running[f] \ {room}
  <2>2. n \in 0 .. RoundsTotal /\ going \in SUBSET {"sparse", "dense"}
    BY <2>1, <1>0
  <2> HIDE DEF n, going
  <2>3. running' = [running EXCEPT ![f] = going]
    BY <1>2 DEF Detached!RoundsEnd, n, going
  <2>4. \/ task' = [task EXCEPT ![f] = "synthesis"] /\ record' = [record EXCEPT ![f].rounds = n, ![f].status = "synthesizing"]
        \/ /\ record' = [record EXCEPT ![f].rounds = IF kind[f] = "conductor" THEN n ELSE @]
           /\ UNCHANGED task
    BY <1>2 DEF Detached!RoundsEnd, n, going
  <2>5. record'[f] \in [status : Detached!Statuses, rounds : 0 .. RoundsTotal, text : BOOLEAN]
        /\ record' = [record EXCEPT ![f] = record'[f]]
    BY <2>1, <2>2, <2>4, <1>0
  <2>6. task' \in [Fusions -> {"none", "rounds", "synthesis", "memory", "gone"}]
    BY <2>4, <1>0
  <2> QED  BY <2>2, <2>3, <2>5, <2>6, <1>0, <1>2 DEF Detached!RoundsEnd
<1>3. ASSUME NEW f \in Fusions, Detached!Fails(f), Detached!Works(f)
      PROVE  /\ record' \in [Fusions -> {None} \cup
                  [status : Detached!Statuses, rounds : 0 .. RoundsTotal, text : BOOLEAN]]
             /\ task' \in [Fusions -> {"none", "rounds", "synthesis", "memory", "gone"}]
             /\ told' \subseteq Fusions
  <2>1. record[f] \in [status : Detached!Statuses, rounds : 0 .. RoundsTotal, text : BOOLEAN]
    BY <1>0, <1>3 DEF FusionInv, FusionWorks
  <2> QED  BY <2>1, <1>0, <1>3 DEF Detached!Fails
<1>4. ASSUME NEW f \in Fusions, Detached!Keeps(f), Detached!Works(f)
      PROVE  /\ record' \in [Fusions -> {None} \cup
                  [status : Detached!Statuses, rounds : 0 .. RoundsTotal, text : BOOLEAN]]
             /\ task' \in [Fusions -> {"none", "rounds", "synthesis", "memory", "gone"}]
             /\ told' \subseteq Fusions /\ fusionFile' \subseteq Fusions /\ unsaved' \subseteq Fusions
  <2>1. record[f] \in [status : Detached!Statuses, rounds : 0 .. RoundsTotal, text : BOOLEAN]
    BY <1>0, <1>4 DEF FusionInv, FusionWorks
  <2> QED  BY <2>1, <1>0, <1>4 DEF Detached!Keeps
<1>5. ASSUME NEW f \in Fusions, NEW room \in {"sparse", "dense"}, Detached!RoundsRaise(f, room)
      PROVE  Detached!TypeOK'
  <2>1. Detached!Works(f)
    BY <1>5 DEF Detached!RoundsRaise, Detached!Works
  <2> QED  BY <2>1, <1>3, <1>5, <1>0 DEF Detached!RoundsRaise
<1>6. ASSUME NEW f \in Fusions, Detached!Synthesized(f)
      PROVE  Detached!TypeOK'
  <2>1. Detached!Works(f)
    BY <1>6 DEF Detached!Synthesized, Detached!Works
  <2>2. CASE Detached!Keeps(f)
    BY <2>1, <2>2, <1>4, <1>6, <1>0 DEF Detached!Synthesized
  <2>3. CASE Detached!KeepsOrFails(f)
    <3>1. CASE Detached!Fails(f) /\ UNCHANGED <<fusionFile, unsaved>>
      BY <3>1, <2>1, <1>3, <1>6, <1>0 DEF Detached!Synthesized
    <3>2. ASSUME NEW status \in {"done", "error"},
                 record' = [record EXCEPT ![f].status = status, ![f].text = TRUE],
                 task' = [task EXCEPT ![f] = "gone"],
                 fusionFile' = fusionFile \cup {f}, UNCHANGED <<unsaved, told>>
          PROVE  Detached!TypeOK'
      <4>1. record[f] \in [status : Detached!Statuses, rounds : 0 .. RoundsTotal, text : BOOLEAN]
        BY <2>1, <1>0 DEF FusionInv, FusionWorks
      <4> QED  BY <4>1, <3>2, <1>0, <1>6 DEF Detached!Synthesized
    <3> QED  BY <3>1, <3>2, <2>3 DEF Detached!KeepsOrFails
  <2>4. CASE task' = [task EXCEPT ![f] = "memory"] /\ UNCHANGED <<record, fusionFile, unsaved, told>>
    BY <2>4, <1>0, <1>6 DEF Detached!Synthesized
  <2> QED  BY <2>2, <2>3, <2>4, <1>6 DEF Detached!Synthesized
<1>7. ASSUME NEW f \in Fusions, Detached!Remembered(f)
      PROVE  Detached!TypeOK'
  <2>1. Detached!Works(f)
    BY <1>7 DEF Detached!Remembered, Detached!Works
  <2> QED  BY <2>1, <1>4, <1>7, <1>0 DEF Detached!Remembered
<1>8. ASSUME NEW f \in Fusions, Detached!SynthesisRaises(f)
      PROVE  Detached!TypeOK'
  <2>1. Detached!Works(f)
    BY <1>8 DEF Detached!SynthesisRaises, Detached!Works
  <2> QED  BY <2>1, <1>3, <1>8, <1>0 DEF Detached!SynthesisRaises
<1>9. ASSUME NEW f \in Fusions, Detached!StrayEnds(f) \/ Detached!Drop(f) \/ Detached!Tell(f)
      PROVE  Detached!TypeOK'
  BY <1>0, <1>9 DEF Detached!StrayEnds, Detached!Drop, Detached!Tell
<1>10. CASE Detached!Restart
  BY <1>0, <1>10 DEF Detached!Restart
<1>11. CASE UNCHANGED fusionVars
  BY <1>0, <1>11 DEF fusionVars
<1> QED
  BY <1>1, <1>2, <1>5, <1>6, <1>7, <1>8, <1>9, <1>10, <1>11
  DEF Detached!Next, Detached!Proceeds, Detached!vars, fusionVars

LEMMA RecordsAreSome ==
  ASSUME NEW r \in [status : Detached!Statuses, rounds : 0 .. RoundsTotal, text : BOOLEAN]
  PROVE  r # None
BY Zenon, NoneIsNoRecord DEF Detached!Statuses

(* Whatever raises ends the run with an error.                             *)
LEMMA FusionFails ==
  ASSUME FusionInv, NEW f \in Fusions, Detached!Works(f), Detached!Fails(f),
         UNCHANGED <<kind, fusionFile, unsaved>>,
         \A g \in Fusions : running'[g] \subseteq running[g],
         \A g \in Fusions : g # f => running'[g] = running[g]
  PROVE  FusionGoes(f)
<1>1. /\ record[f] \in [status : Detached!Statuses, rounds : 0 .. RoundsTotal, text : BOOLEAN]
      /\ kind[f] # None /\ f \in DOMAIN record /\ f \in DOMAIN task
      /\ kind[f] = "conductor" => running[f] \subseteq {"dense"}
      /\ record[f].text => f \in fusionFile \/ f \in unsaved
      /\ f \in told => record[f].text \/ f \in fusionFile
  BY DEF FusionInv, FusionWorks, FusionText, Detached!Works, Detached!Readable, Detached!TypeOK
<1>2. /\ record'[f] = [record[f] EXCEPT !.status = "error"] /\ task'[f] = "gone"
      /\ \A g \in Fusions : g # f => record'[g] = record[g] /\ task'[g] = task[g]
  BY DEF Detached!Fails, FusionInv, Detached!TypeOK
<1>3. /\ record'[f] \in [status : Detached!Statuses, rounds : 0 .. RoundsTotal, text : BOOLEAN]
      /\ record'[f].text = record[f].text /\ record'[f].status = "error"
  BY <1>1, <1>2 DEF Detached!Statuses
<1>4. record'[f] # None
  BY <1>3, RecordsAreSome
<1> QED  BY <1>1, <1>2, <1>3, <1>4 DEF FusionGoes, Detached!Fails

(* The result is in the record, and in the file if that can be written.    *)
LEMMA FusionKeeps ==
  ASSUME FusionInv, NEW f \in Fusions, Detached!Works(f),
         UNCHANGED <<kind, running>>,
         \/ fusionFile' = fusionFile \cup {f} /\ UNCHANGED unsaved
         \/ unsaved' = unsaved \cup {f} /\ UNCHANGED fusionFile,
         NEW status \in {"done", "error"},
         record' = [record EXCEPT ![f].status = status, ![f].text = TRUE],
         task' = [task EXCEPT ![f] = "gone"],
         told' \in {told, told \cup {f}}
  PROVE  FusionGoes(f)
<1>1. /\ record[f] \in [status : Detached!Statuses, rounds : 0 .. RoundsTotal, text : BOOLEAN]
      /\ kind[f] # None /\ f \in DOMAIN record /\ f \in DOMAIN task
      /\ kind[f] = "conductor" => running[f] \subseteq {"dense"}
  BY DEF FusionInv, FusionWorks, Detached!Works, Detached!TypeOK
<1>2. /\ record'[f] = [record[f] EXCEPT !.status = status, !.text = TRUE] /\ task'[f] = "gone"
      /\ \A g \in Fusions : g # f => record'[g] = record[g] /\ task'[g] = task[g]
  BY DEF FusionInv, Detached!TypeOK
<1>3. /\ record'[f] \in [status : Detached!Statuses, rounds : 0 .. RoundsTotal, text : BOOLEAN]
      /\ record'[f].text
  BY <1>1, <1>2 DEF Detached!Statuses
<1>4. record'[f] # None
  BY <1>3, RecordsAreSome
<1> QED  BY <1>1, <1>2, <1>3, <1>4 DEF FusionGoes

LEMMA FusionStep == FusionInv /\ [Detached!Next]_fusionVars => FusionInv'
<1> SUFFICES ASSUME FusionInv, [Detached!Next]_fusionVars
             PROVE  FusionInv'
  OBVIOUS
<1>0. Detached!TypeOK /\ Detached!TypeOK' /\ None \notin Detached!Kinds
  BY FusionTypes, NoneIsNoRecord DEF FusionInv, Detached!Kinds
<1>1. ASSUME NEW f \in Fusions, NEW k \in Detached!Kinds, NEW how \in {"inline", "background"},
             Detached!Start(f, k, how)
      PROVE  FusionInv'
  <2>1. record'[f] = [status |-> "running", rounds |-> 0, text |-> FALSE] /\ record'[f] # None
    <3>1. record'[f] = [status |-> "running", rounds |-> 0, text |-> FALSE]
      BY <1>0, <1>1 DEF Detached!TypeOK, Detached!Start
    <3>2. record'[f] \in [status : Detached!Statuses, rounds : 0 .. RoundsTotal, text : BOOLEAN]
      BY <3>1, RunsHaveRounds DEF Detached!Statuses
    <3> QED  BY <3>1, <3>2, RecordsAreSome
  <2>2. f \notin told
    BY <1>1 DEF Detached!Start, FusionInv, FusionWorks
  <2>3. kind'[f] = k /\ running'[f] = Detached!RoomsOf(k) /\ k # None
    BY <1>0, <1>1 DEF Detached!TypeOK, Detached!Start
  <2>4. \A g \in Fusions : g # f => /\ record'[g] = record[g] /\ task'[g] = task[g]
                                    /\ kind'[g] = kind[g] /\ running'[g] = running[g]
    BY <1>0, <1>1 DEF Detached!TypeOK, Detached!Start
  <2>5. FusionGoes(f)
    BY <1>1, <2>1, <2>2, <2>3, <2>4, RunsHaveRounds
    DEF Detached!Start, FusionGoes, Detached!RoomsOf
  <2> QED  BY <1>0, <2>5, FusionOne
<1>2. ASSUME NEW f \in Fusions, NEW room \in {"sparse", "dense"}, Detached!RoundsEnd(f, room)
      PROVE  FusionInv'
  <2>1. /\ record[f] \in [status : Detached!Statuses, rounds : 0 .. RoundsTotal, text : BOOLEAN]
        /\ record[f] # None /\ kind[f] # None /\ record[f].rounds < RoundsTotal
        /\ kind[f] = "conductor" => running[f] \subseteq {"dense"}
    BY <1>0, <1>2 DEF Detached!RoundsEnd, FusionInv, FusionWorks, Detached!Works, Detached!TypeOK
  <2> DEFINE n == IF kind[f] = "conductor" THEN record[f].rounds + 1 ELSE RoundsTotal
             going == IF n < RoundsTotal THEN running[f] ELSE running[f] \ {room}
  <2>2. n \in 0 .. RoundsTotal /\ going \subseteq running[f]
    BY <2>1, RunsHaveRounds
  <2>3. kind[f] = "conductor" /\ going # {} => n < RoundsTotal
    BY <2>1, <1>2 DEF Detached!RoundsEnd
  <2>4. /\ running' = [running EXCEPT ![f] = going]
        /\ IF going = {}
           THEN /\ task' = [task EXCEPT ![f] = "synthesis"]
                /\ record' = [record EXCEPT ![f].rounds = n, ![f].status = "synthesizing"]
           ELSE /\ record' = [record EXCEPT ![f].rounds = IF kind[f] = "conductor" THEN n ELSE @]
                /\ task' = task
    BY <1>2 DEF Detached!RoundsEnd
  <2> HIDE DEF n, going
  <2>5. /\ \A g \in Fusions : g # f => /\ record'[g] = record[g] /\ task'[g] = task[g]
                                       /\ running'[g] = running[g]
        /\ running'[f] = going
        /\ task'[f] = "rounds" => record'[f].rounds < RoundsTotal
        /\ record'[f].text = record[f].text
        /\ record'[f].status \in {record[f].status, "synthesizing"}
        /\ record'[f] \in [status : Detached!Statuses, rounds : 0 .. RoundsTotal, text : BOOLEAN]
    <3>1. CASE going = {}
      <4>1. record'[f] = [record[f] EXCEPT !.rounds = n, !.status = "synthesizing"]
        BY <2>4, <3>1, <1>0 DEF Detached!TypeOK
      <4> QED  BY <4>1, <2>1, <2>2, <2>4, <3>1, <1>0 DEF Detached!TypeOK, Detached!Statuses
    <3>2. CASE going # {}
      <4>1. record'[f] = [record[f] EXCEPT !.rounds = IF kind[f] = "conductor" THEN n ELSE @]
        BY <2>4, <3>2, <1>0 DEF Detached!TypeOK
      <4> QED  BY <4>1, <2>1, <2>2, <2>3, <2>4, <3>2, <1>0 DEF Detached!TypeOK
    <3> QED  BY <3>1, <3>2
  <2>6. FusionGoes(f)
    <3>1. record'[f] # None
      BY <2>5, RecordsAreSome
    <3>2. record[f].status = "done" => record[f].text
      BY <2>1 DEF FusionInv, FusionText
    <3>3. record[f].text => f \in fusionFile \/ f \in unsaved
      BY <2>1 DEF FusionInv, FusionText
    <3>4. f \in told => record[f].text \/ f \in fusionFile
      BY <2>1 DEF FusionInv, FusionText, Detached!Readable
    <3> QED  BY <1>2, <2>1, <2>2, <2>5, <3>1, <3>2, <3>3, <3>4 DEF FusionGoes, Detached!RoundsEnd
  <2> QED  BY <1>0, <2>6, FusionOne
<1>3. ASSUME NEW f \in Fusions, NEW room \in {"sparse", "dense"}, Detached!RoundsRaise(f, room)
      PROVE  FusionInv'
  <2>1. Detached!Works(f) /\ Detached!Fails(f) /\ UNCHANGED <<kind, fusionFile, unsaved>>
    BY <1>3 DEF Detached!RoundsRaise, Detached!Works
  <2>2. /\ \A g \in Fusions : running'[g] \subseteq running[g]
        /\ \A g \in Fusions : g # f => running'[g] = running[g]
    BY <1>0, <1>3 DEF Detached!RoundsRaise, Detached!TypeOK
  <2> QED  BY <1>0, <2>1, <2>2, FusionFails, FusionOne
<1>4. ASSUME NEW f \in Fusions, Detached!Synthesized(f)
      PROVE  FusionInv'
  <2>1. Detached!Works(f) /\ UNCHANGED <<kind, running>>
    BY <1>4 DEF Detached!Synthesized, Detached!Works
  <2>2. CASE Detached!Keeps(f)
    BY <1>0, <2>1, <2>2, FusionKeeps, FusionOne DEF Detached!Keeps
  <2>3. CASE Detached!Fails(f) /\ UNCHANGED <<fusionFile, unsaved>>
    BY <1>0, <2>1, <2>3, FusionFails, FusionOne
  <2>4. ASSUME NEW status \in {"done", "error"},
               record' = [record EXCEPT ![f].status = status, ![f].text = TRUE],
               task' = [task EXCEPT ![f] = "gone"],
               fusionFile' = fusionFile \cup {f}, UNCHANGED <<unsaved, told>>
        PROVE  FusionInv'
    BY <1>0, <2>1, <2>4, FusionKeeps, FusionOne
  <2>5. CASE task' = [task EXCEPT ![f] = "memory"] /\ UNCHANGED <<record, fusionFile, unsaved, told>>
    BY <1>0, <2>1, <2>5
    DEF FusionInv, FusionWorks, FusionText, Detached!Works, Detached!Readable, Detached!TypeOK
  <2> QED  BY <1>4, <2>2, <2>3, <2>4, <2>5 DEF Detached!Synthesized, Detached!KeepsOrFails
<1>5. ASSUME NEW f \in Fusions, Detached!Remembered(f)
      PROVE  FusionInv'
  <2>1. Detached!Works(f) /\ UNCHANGED <<kind, running>> /\ Detached!Keeps(f)
    BY <1>5 DEF Detached!Remembered, Detached!Works
  <2> QED  BY <1>0, <2>1, FusionKeeps, FusionOne DEF Detached!Keeps
<1>6. ASSUME NEW f \in Fusions, Detached!SynthesisRaises(f)
      PROVE  FusionInv'
  <2>1. Detached!Works(f) /\ Detached!Fails(f) /\ UNCHANGED <<kind, running, fusionFile, unsaved>>
    BY <1>6 DEF Detached!SynthesisRaises, Detached!Works
  <2> QED  BY <1>0, <2>1, FusionFails, FusionOne
<1>7. ASSUME NEW f \in Fusions, Detached!StrayEnds(f)
      PROVE  FusionInv'
  BY <1>0, <1>7
  DEF Detached!StrayEnds, FusionInv, FusionWorks, FusionText, Detached!Works,
      Detached!Readable, Detached!TypeOK
<1>8. ASSUME NEW f \in Fusions, Detached!Drop(f)
      PROVE  FusionInv'
  BY <1>0, <1>8
  DEF Detached!Drop, FusionInv, FusionWorks, FusionText, Detached!Works,
      Detached!Readable, Detached!TypeOK
<1>9. ASSUME NEW f \in Fusions, Detached!Tell(f)
      PROVE  FusionInv'
  <2>1. Detached!Readable(f)
    BY <1>9 DEF Detached!Tell, FusionInv, FusionText, Detached!Readable
  <2>2. kind[f] # None
    BY <2>1 DEF FusionInv, FusionWorks, Detached!Readable
  <2> QED
    BY <1>0, <1>9, <2>1, <2>2
    DEF Detached!Tell, FusionInv, FusionWorks, FusionText, Detached!Works,
        Detached!Readable, Detached!TypeOK
<1>10. CASE Detached!Restart
  <2>1. \A f \in Fusions : record'[f] = None /\ task'[f] \in {"none", "gone"}
                           /\ (task[f] = "none" => task'[f] = "none")
    BY <1>0, <1>10 DEF Detached!Restart, Detached!TypeOK
  <2>2. FusionWorks'
    BY <2>1, <1>10 DEF Detached!Restart, FusionInv, FusionWorks, Detached!Works
  <2>3. FusionText'
    <3>1. \A f \in told : f \in Fusions
      BY <1>0 DEF Detached!TypeOK
    <3>2. \A f \in told : f \in fusionFile \/ f \in unsaved
      BY <3>1 DEF FusionInv, FusionText, Detached!Readable
    <3> QED  BY <2>1, <3>1, <3>2, <1>10 DEF Detached!Restart, FusionText, Detached!Readable
  <2> QED  BY <1>0, <2>2, <2>3 DEF FusionInv
<1>11. CASE UNCHANGED fusionVars
  BY <1>0, <1>11
  DEF fusionVars, FusionInv, FusionWorks, FusionText, Detached!Works, Detached!Readable
<1> QED
  BY <1>1, <1>2, <1>3, <1>4, <1>5, <1>6, <1>7, <1>8, <1>9, <1>10, <1>11
  DEF Detached!Next, Detached!Proceeds, Detached!vars, fusionVars

(* The panels keep their invariant.                                        *)
LEMMA FusionAlways == Spec => []FusionInv
<1>1. Init => FusionInv  BY FusionInit DEF Init
<1>2. FusionInv /\ [Next]_vars => FusionInv'  BY RoomsSteps, FusionStep
<1> QED  BY <1>1, <1>2, PTL DEF Spec

(* A result a client was told of can be read again, by anyone and after    *)
(* any number of restarts, unless the write of its file failed and the     *)
(* bridge restarted, for any number of panels and rounds.                  *)
THEOREM ResultsAreKept == Spec => []ResultIsKept
<1>1. FusionInv => ResultIsKept
  BY DEF FusionInv, FusionText, ResultIsKept, Detached!ResultIsKept
<1> QED  BY <1>1, FusionAlways, PTL

-----------------------------------------------------------------------------
(* The transcript of the page.                                             *)

(* What the page counts is a number.                                       *)
LEMMA PageNumbers ==
  ASSUME Page!TypeOK
  PROVE  /\ MaxMessages \in Nat /\ counted \in Nat /\ dashboardMade \in Nat
         /\ dashboardMade <= MaxMessages
         /\ dashboardRoom \in Seq(Page!Ids) /\ Len(dashboardRoom) \in Nat
         /\ queue \in Seq(Page!Events) /\ Len(queue) \in Nat
<1>1. MaxMessages \in Nat  BY BoundsAreNatural
<1>2. dashboardMade \in 0 .. MaxMessages /\ counted \in 0 .. MaxMessages
  BY DEF Page!TypeOK
<1>3. dashboardRoom \in Seq(Page!Ids) /\ queue \in Seq(Page!Events)
  BY DEF Page!TypeOK
<1>4. Len(dashboardRoom) \in Nat /\ Len(queue) \in Nat  BY <1>3, LenProperties
<1> QED  BY ONLY <1>1, <1>2, <1>3, <1>4

(* x is the beginning of the room r, and the events of q that x lacks      *)
(* continue it in the room's order, up to the n-th message.                *)
Continues(x, r, q, n) ==
  /\ Len(x) <= Len(r)
  /\ \A i \in 1 .. Len(x) : x[i] = r[i]
  /\ \A i \in 1 .. Len(q) : q[i].index > Len(x) =>
       q[i].index <= Len(r) /\ q[i].message = r[q[i].index]
  /\ \A i \in 1 .. Len(q) : q[i].index > Len(x) + 1 =>
       i > 1 /\ q[i - 1].index = q[i].index - 1
  /\ Len(x) >= n \/ (q # <<>> /\ q[Len(q)].index = n)

(* What the page shows or will show.                                       *)
Copy == IF transcript # None THEN transcript ELSE response

(* Without a reset behind them the events are of messages the watcher has  *)
(* counted, and there are none without a stream.                           *)
PageCounts ==
  /\ Len(dashboardRoom) <= dashboardMade
  /\ ~ compressed => counted <= Len(dashboardRoom)
  /\ stream # "on" => queue = <<>>
  /\ transcript = None \/ response = None
  /\ \A i \in 1 .. Len(queue) :
       \/ queue[i].type = "message" /\ queue[i].index <= counted
       \/ \E j \in i .. Len(queue) : queue[j].type = "reset"

PageFollows ==
  Page!Wanted /\ ~ missed /\ ~ Page!ResetIsComing =>
    Continues(Copy, dashboardRoom, queue, counted)

PageInv == Page!TypeOK /\ PageCounts /\ PageFollows

(* A copy that is the beginning of the room in TLA+'s words.               *)
LEMMA PrefixFacts ==
  ASSUME NEW S, NEW x \in Seq(S), NEW r \in Seq(S), Len(x) <= Len(r),
         \A i \in 1 .. Len(x) : x[i] = r[i]
  PROVE  Page!IsPrefix(x, r)
<1>1. Len(x) \in Nat /\ Len(r) \in Nat  BY LenProperties
<1>2. \A i \in 1 .. Len(x) : x[i] \in S /\ r[i] \in S
  BY <1>1, ElementOfSeq
<1>3. /\ SubSeq(x, 1, Len(x)) \in Seq(S) /\ Len(SubSeq(x, 1, Len(x))) = Len(x)
      /\ \A i \in 1 .. Len(x) : SubSeq(x, 1, Len(x))[i] = x[i]
  <2>1. /\ SubSeq(x, 1, Len(x)) \in Seq(S)
        /\ Len(SubSeq(x, 1, Len(x))) = IF 1 <= Len(x) THEN Len(x) - 1 + 1 ELSE 0
        /\ \A i \in 1 .. Len(x) - 1 + 1 : SubSeq(x, 1, Len(x))[i] = x[1 + i - 1]
    BY <1>1, <1>2, SubSeqProperties
  <2> QED  BY <2>1, <1>1
<1>4. /\ SubSeq(r, 1, Len(x)) \in Seq(S) /\ Len(SubSeq(r, 1, Len(x))) = Len(x)
      /\ \A i \in 1 .. Len(x) : SubSeq(r, 1, Len(x))[i] = r[i]
  <2>1. /\ SubSeq(r, 1, Len(x)) \in Seq(S)
        /\ Len(SubSeq(r, 1, Len(x))) = IF 1 <= Len(x) THEN Len(x) - 1 + 1 ELSE 0
        /\ \A i \in 1 .. Len(x) - 1 + 1 : SubSeq(r, 1, Len(x))[i] = r[1 + i - 1]
    BY <1>1, <1>2, SubSeqProperties
  <2> QED  BY <2>1, <1>1
<1>5. SubSeq(x, 1, Len(x)) = SubSeq(r, 1, Len(x))
  BY <1>3, <1>4, SeqEqual
<1> QED  BY <1>5 DEF Page!IsPrefix

LEMMA PageInit == Page!Init => PageInv
<1> SUFFICES ASSUME Page!Init PROVE PageInv  OBVIOUS
<1>1. Page!TypeOK
  <2>1. 0 \in 0 .. MaxMessages /\ 0 \in 0 .. MaxBreaks  BY BoundsAreNatural
  <2>2. <<>> \in Seq(Page!Ids) /\ <<>> \in Seq(Page!Events)  OBVIOUS
  <2> QED  BY <2>1, <2>2 DEF Page!Init, Page!TypeOK
<1>2. PageCounts
  BY DEF Page!Init, PageCounts
<1>3. PageFollows
  BY DEF Page!Init, PageFollows, Page!Wanted
<1> QED  BY <1>1, <1>2, <1>3 DEF PageInv

(* A new message continues whatever the room continued.                    *)
LEMMA SaidContinues ==
  ASSUME NEW S, NEW x \in Seq(S), NEW r \in Seq(S), NEW m \in S, NEW E, NEW q \in Seq(E),
         NEW n \in Nat, Continues(x, r, q, n), \A i \in 1 .. Len(q) : q[i].index \in Nat \ {0}
  PROVE  Continues(x, Append(r, m), q, n)
<1>1. /\ Len(Append(r, m)) = Len(r) + 1 /\ Len(r) \in Nat /\ Len(x) \in Nat
      /\ \A i \in 1 .. Len(r) : Append(r, m)[i] = r[i]
  OBVIOUS
<1> QED  BY <1>1 DEF Continues

(* A transcript taken while the events are of counted messages.            *)
LEMMA OpenedContinues ==
  ASSUME NEW S, NEW r \in Seq(S), NEW E, NEW q \in Seq(E), NEW n \in Nat, n <= Len(r),
         \A i \in 1 .. Len(q) : q[i].index \in Nat /\ q[i].index <= n
  PROVE  Continues(r, r, q, n)
<1>1. Len(r) \in Nat  OBVIOUS
<1> QED  BY <1>1 DEF Continues

(* What the watcher appends continues what it appended before.             *)
LEMMA PolledContinues ==
  ASSUME NEW S, NEW x \in Seq(S), NEW r \in Seq(S), NEW E, NEW q \in Seq(E), NEW p \in Seq(E),
         NEW n \in Nat, n <= Len(r), Continues(x, r, q, n),
         \A i \in 1 .. Len(q) : q[i].index \in Nat /\ q[i].index <= n,
         Len(p) = Len(r) - n,
         \A i \in 1 .. Len(p) : p[i].index = n + i /\ p[i].message = r[n + i]
  PROVE  Continues(x, r, q \o p, Len(r))
<1>1. /\ Len(x) \in Nat /\ Len(r) \in Nat /\ Len(q) \in Nat /\ Len(p) \in Nat /\ n \in Nat
      /\ Len(p) = Len(r) - n /\ \A i \in 1 .. Len(q) : q[i].index \in Nat /\ q[i].index <= n
      /\ Len(q \o p) = Len(q) + Len(p)
      /\ \A i \in 1 .. Len(q) : (q \o p)[i] = q[i]
      /\ \A i \in Len(q) + 1 .. Len(q) + Len(p) : (q \o p)[i] = p[i - Len(q)]
  <2>1. /\ Len(x) \in Nat /\ Len(r) \in Nat /\ Len(q) \in Nat /\ Len(p) \in Nat  OBVIOUS
  <2>2. /\ Len(q \o p) = Len(q) + Len(p)
        /\ \A i \in 1 .. Len(q) + Len(p) :
             (q \o p)[i] = IF i <= Len(q) THEN q[i] ELSE p[i - Len(q)]
    BY ConcatProperties
  <2> QED  BY <2>1, <2>2
<1> DEFINE w == q \o p
<1>2. /\ Len(w) = Len(q) + Len(p)
      /\ \A i \in 1 .. Len(q) : w[i] = q[i]
      /\ \A i \in Len(q) + 1 .. Len(q) + Len(p) :
           w[i].index = n + (i - Len(q)) /\ w[i].message = r[n + (i - Len(q))]
  <2>1. ASSUME NEW i \in Len(q) + 1 .. Len(q) + Len(p)
        PROVE  w[i].index = n + (i - Len(q)) /\ w[i].message = r[n + (i - Len(q))]
    <3>1. i - Len(q) \in 1 .. Len(p) /\ w[i] = p[i - Len(q)]
      BY <1>1, <2>1
    <3> QED  BY <3>1
  <2> QED  BY <1>1, <2>1
<1> HIDE DEF w
<1>3. ASSUME NEW i \in 1 .. Len(w), w[i].index > Len(x)
      PROVE  w[i].index <= Len(r) /\ w[i].message = r[w[i].index]
  <2>1. CASE i <= Len(q)
    <3>1. i \in 1 .. Len(q) /\ w[i] = q[i]  BY <2>1, <1>1, <1>2
    <3> QED  BY <3>1, <1>3 DEF Continues
  <2>2. CASE i > Len(q)
    <3>1. /\ i \in Len(q) + 1 .. Len(q) + Len(p)
          /\ w[i].index = n + (i - Len(q)) /\ w[i].message = r[n + (i - Len(q))]
      BY <2>2, <1>1, <1>2
    <3>2. n + (i - Len(q)) <= Len(r)  BY <3>1, <1>1
    <3> QED  BY <3>1, <3>2
  <2> QED  BY <2>1, <2>2, <1>1, <1>2
<1>4. ASSUME NEW i \in 1 .. Len(w), w[i].index > Len(x) + 1
      PROVE  i > 1 /\ w[i - 1].index = w[i].index - 1
  <2>1. CASE i <= Len(q)
    <3>1. i \in 1 .. Len(q) /\ w[i] = q[i]  BY <2>1, <1>1, <1>2
    <3>2. i > 1 /\ q[i - 1].index = q[i].index - 1  BY <3>1, <1>4 DEF Continues
    <3>3. i - 1 \in 1 .. Len(q) /\ w[i - 1] = q[i - 1]  BY <3>1, <3>2, <1>1, <1>2
    <3> QED  BY <3>1, <3>2, <3>3
  <2>2. CASE i = Len(q) + 1
    <3>1. w[i].index = n + 1
      <4>1. i \in Len(q) + 1 .. Len(q) + Len(p)  BY <1>1, <1>2, <2>2
      <4>2. w[i].index = n + (i - Len(q))  BY <4>1, <1>2
      <4>3. i - Len(q) = 1  BY <2>2, <1>1
      <4> QED  BY <4>2, <4>3
    <3>2. q # <<>> /\ q[Len(q)].index = n
      BY <3>1, <1>1, <1>4 DEF Continues
    <3>3. Len(q) \in 1 .. Len(q) /\ i - 1 = Len(q)
      <4>1. Len(q) # 0  BY <3>2
      <4> QED  BY <4>1, <2>2, <1>1
    <3>4. w[i - 1] = q[Len(q)] /\ i > 1  BY <3>3, <1>2, <2>2, <1>1
    <3>5. n = (n + 1) - 1  BY <1>1
    <3> QED  BY <3>1, <3>2, <3>4, <3>5
  <2>3. CASE i > Len(q) + 1
    <3>1. i - 1 \in Len(q) + 1 .. Len(q) + Len(p) /\ i \in Len(q) + 1 .. Len(q) + Len(p)
      BY <1>1, <1>2, <2>3
    <3>2. w[i].index = n + (i - Len(q)) /\ w[i - 1].index = n + ((i - 1) - Len(q))
      BY <3>1, <1>2
    <3>3. n + ((i - 1) - Len(q)) = (n + (i - Len(q))) - 1 /\ i > 1
      BY <1>1, <2>3
    <3> QED  BY <3>2, <3>3
  <2> QED  BY <1>1, <1>2, <2>1, <2>2, <2>3
<1>5. Len(x) >= Len(r) \/ (w # <<>> /\ w[Len(w)].index = Len(r))
  <2>1. CASE Len(p) = 0
    <3>1. Len(w) = Len(q) /\ Len(r) = n  BY <2>1, <1>1, <1>2
    <3>2. CASE Len(x) >= n  BY <3>1, <3>2
    <3>3. CASE q # <<>> /\ q[Len(q)].index = n
      <4>1. Len(q) \in 1 .. Len(q)  BY <3>3, <1>1
      <4> QED  BY <4>1, <3>1, <3>3, <1>2
    <3> QED  BY <3>2, <3>3 DEF Continues
  <2>2. CASE Len(p) > 0
    <3>1. Len(w) \in Len(q) + 1 .. Len(q) + Len(p)  BY <2>2, <1>1, <1>2
    <3>2. w[Len(w)].index = n + (Len(w) - Len(q))  BY <3>1, <1>2
    <3>3. w[Len(w)].index = Len(r)  BY <3>2, <1>1, <1>2
    <3>4. w # <<>>  BY <3>1, <1>1
    <3> QED  BY <3>3, <3>4
  <2>3. Len(p) = 0 \/ Len(p) > 0  BY <1>1
  <2> QED  BY <2>1, <2>2, <2>3
<1> QED  BY <1>3, <1>4, <1>5 DEF Continues, w

(* The page has the head of the queue already, or lacks exactly that one.  *)
LEMMA ReceivedContinues ==
  ASSUME NEW S, NEW x \in Seq(S), NEW r \in Seq(S), NEW E, NEW q \in Seq(E), q # <<>>,
         NEW n \in Nat, Continues(x, r, q, n), \A i \in 1 .. Len(q) : q[i].index \in Nat \ {0}
  PROVE  /\ Head(q).index > Len(x) => Continues(Append(x, Head(q).message), r, Tail(q), n)
         /\ Head(q).index <= Len(x) => Continues(x, r, Tail(q), n)
<1> DEFINE t == Tail(q)
<1>1. /\ Len(x) \in Nat /\ Len(r) \in Nat /\ Len(q) \in Nat \ {0} /\ n \in Nat
      /\ Len(t) = Len(q) - 1 /\ Head(q) = q[1]
      /\ \A i \in 1 .. Len(t) : t[i] = q[i + 1]
  <2>1. /\ Len(x) \in Nat /\ Len(r) \in Nat /\ Len(q) \in Nat \ {0} /\ Head(q) = q[1]
    OBVIOUS
  <2> QED  BY <2>1, HeadTailProperties
<1>2. 1 \in 1 .. Len(q) /\ q[1].index \in Nat  BY <1>1
<1> HIDE DEF t
<1>3. /\ \A i \in 1 .. Len(t) : i + 1 \in 1 .. Len(q) /\ t[i] = q[i + 1]
      /\ \A i \in 1 .. Len(t) : i > 1 => i - 1 \in 1 .. Len(t) /\ t[i - 1] = q[i]
  BY <1>1
<1>4. Len(t) = 0 \/ (t # <<>> /\ Len(t) \in 1 .. Len(t) /\ t[Len(t)] = q[Len(q)])
  <2>1. CASE Len(t) # 0
    <3>1. Len(t) \in 1 .. Len(t) /\ Len(t) + 1 = Len(q)  BY <2>1, <1>1
    <3>2. t # <<>>  BY <2>1
    <3> QED  BY <3>1, <3>2, <1>1
  <2> QED  BY <2>1
<1>5. ASSUME Head(q).index > Len(x)
      PROVE  Continues(Append(x, Head(q).message), r, t, n)
  <2> DEFINE y == Append(x, Head(q).message)
  <2>1. /\ Head(q).index = Len(x) + 1 /\ Len(x) + 1 <= Len(r)
        /\ Head(q).message = r[Len(x) + 1]
    <3>1. Head(q).index <= Len(r) /\ Head(q).message = r[Head(q).index]
      BY <1>1, <1>2, <1>5 DEF Continues
    <3>2. ~ (Head(q).index > Len(x) + 1)
      BY <1>1, <1>2 DEF Continues
    <3>3. Head(q).index = Len(x) + 1
      BY <3>2, <1>1, <1>2, <1>5
    <3> QED  BY <3>1, <3>3
  <2>2. /\ Len(y) = Len(x) + 1 /\ y[Len(x) + 1] = Head(q).message
        /\ \A i \in 1 .. Len(x) : y[i] = x[i]
    OBVIOUS
  <2> HIDE DEF y
  <2>3. Len(y) <= Len(r) /\ \A i \in 1 .. Len(y) : y[i] = r[i]
    BY <2>1, <2>2, <1>1 DEF Continues
  <2>4. ASSUME NEW i \in 1 .. Len(t), t[i].index > Len(y)
        PROVE  t[i].index <= Len(r) /\ t[i].message = r[t[i].index]
    <3>1. i + 1 \in 1 .. Len(q) /\ t[i] = q[i + 1] /\ q[i + 1].index \in Nat  BY <1>3
    <3>2. q[i + 1].index > Len(x)  BY <3>1, <2>2, <2>4, <1>1
    <3> QED  BY <3>1, <3>2 DEF Continues
  <2>5. ASSUME NEW i \in 1 .. Len(t), t[i].index > Len(y) + 1
        PROVE  i > 1 /\ t[i - 1].index = t[i].index - 1
    <3>1. i + 1 \in 1 .. Len(q) /\ t[i] = q[i + 1] /\ q[i + 1].index \in Nat  BY <1>3
    <3>2. q[i + 1].index > Len(x) + 1  BY <3>1, <2>2, <2>5, <1>1
    <3>3. q[i].index = q[i + 1].index - 1
      <4>1. q[(i + 1) - 1].index = q[i + 1].index - 1  BY <3>1, <3>2 DEF Continues
      <4> QED  BY <4>1
    <3>4. i # 1
      <4>1. q[i].index > Len(y)  BY <3>1, <3>3, <2>5, <2>2, <1>1
      <4> QED  BY <4>1, <2>1, <2>2, <1>1
    <3>5. i > 1  BY <3>4
    <3> QED  BY <3>1, <3>3, <3>5, <1>3
  <2>6. Len(y) >= n \/ (t # <<>> /\ t[Len(t)].index = n)
    <3>1. CASE Len(x) >= n  BY <3>1, <2>2, <1>1
    <3>2. CASE q[Len(q)].index = n
      <4>1. CASE Len(t) = 0
        <5>1. Len(q) = 1  BY <4>1, <1>1
        <5>2. n = Len(x) + 1  BY <5>1, <3>2, <2>1, <1>1
        <5> QED  BY <5>2, <2>2, <1>1
      <4>2. CASE Len(t) # 0  BY <4>2, <1>4, <3>2
      <4> QED  BY <4>1, <4>2
    <3> QED  BY <3>1, <3>2 DEF Continues
  <2>7. Continues(y, r, t, n)
    BY <2>3, <2>4, <2>5, <2>6 DEF Continues
  <2> QED  BY <2>7 DEF y
<1>6. ASSUME Head(q).index <= Len(x)
      PROVE  Continues(x, r, t, n)
  <2>1. ASSUME NEW i \in 1 .. Len(t), t[i].index > Len(x)
        PROVE  t[i].index <= Len(r) /\ t[i].message = r[t[i].index]
    BY <2>1, <1>3 DEF Continues
  <2>2. ASSUME NEW i \in 1 .. Len(t), t[i].index > Len(x) + 1
        PROVE  i > 1 /\ t[i - 1].index = t[i].index - 1
    <3>1. i + 1 \in 1 .. Len(q) /\ t[i] = q[i + 1] /\ q[i + 1].index \in Nat  BY <1>3
    <3>2. q[i + 1].index > Len(x) + 1  BY <3>1, <2>2
    <3>3. q[i].index = q[i + 1].index - 1
      <4>1. q[(i + 1) - 1].index = q[i + 1].index - 1  BY <3>1, <3>2 DEF Continues
      <4> QED  BY <4>1
    <3>4. i # 1
      <4>1. q[i].index > Len(x)  BY <3>1, <3>2, <3>3, <1>1
      <4> QED  BY <4>1, <1>1, <1>2, <1>6
    <3>5. i > 1  BY <3>4
    <3> QED  BY <3>1, <3>3, <3>5, <1>3
  <2>3. Len(x) >= n \/ (t # <<>> /\ t[Len(t)].index = n)
    <3>1. CASE q[Len(q)].index = n
      <4>1. CASE Len(t) = 0
        <5>1. Len(q) = 1  BY <4>1, <1>1
        <5> QED  BY <5>1, <3>1, <1>1, <1>6
      <4>2. CASE Len(t) # 0  BY <4>2, <1>4, <3>1
      <4> QED  BY <4>1, <4>2
    <3> QED  BY <3>1 DEF Continues
  <2>4. Len(x) <= Len(r) /\ \A i \in 1 .. Len(x) : x[i] = r[i]  BY DEF Continues
  <2> QED  BY <2>1, <2>2, <2>3, <2>4 DEF Continues
<1> QED  BY <1>5, <1>6 DEF t

(* What a round of the watcher has to tell.                                *)
LEMMA NewsFacts ==
  ASSUME PageInv
  PROVE  /\ Page!News \in Seq(Page!Events)
         /\ Len(dashboardRoom) < counted => Page!News = <<[type |-> "reset"]>>
         /\ Len(dashboardRoom) >= counted =>
              /\ Len(Page!News) = Len(dashboardRoom) - counted
              /\ \A i \in 1 .. Len(Page!News) :
                   /\ Page!News[i].type = "message" /\ Page!News[i].index = counted + i
                   /\ Page!News[i].message = dashboardRoom[counted + i]
<1>1. /\ counted \in Nat /\ Len(dashboardRoom) \in Nat /\ Len(dashboardRoom) <= MaxMessages
      /\ dashboardRoom \in Seq(Page!Ids)
  <2>1. Page!TypeOK /\ Len(dashboardRoom) <= dashboardMade  BY DEF PageInv, PageCounts
  <2> QED  BY ONLY <2>1, PageNumbers
<1>2. CASE Len(dashboardRoom) < counted
  <2>1. Page!News = <<[type |-> "reset"]>>  BY <1>2 DEF Page!News
  <2>2. [type |-> "reset"] \in Page!Events  BY DEF Page!Events
  <2> QED  BY <2>1, <2>2, <1>1, <1>2
<1>3. CASE Len(dashboardRoom) >= counted
  <2> DEFINE n == Len(dashboardRoom) - counted
  <2>1. /\ n \in Nat
        /\ Page!News = [i \in 1 .. n |-> [type |-> "message", index |-> counted + i,
                                          message |-> dashboardRoom[counted + i]]]
    BY <1>1, <1>3 DEF Page!News
  <2>2. ASSUME NEW i \in 1 .. n
        PROVE  [type |-> "message", index |-> counted + i,
                message |-> dashboardRoom[counted + i]] \in Page!Events
    <3>1. counted + i \in 1 .. Len(dashboardRoom)  BY <1>1
    <3>2. dashboardRoom[counted + i] \in Page!Ids  BY <3>1, <1>1, ElementOfSeq
    <3>3. counted + i \in Page!Ids  BY <3>1, <1>1, BoundsAreNatural DEF Page!Ids
    <3> QED  BY <3>2, <3>3 DEF Page!Events
  <2> HIDE DEF n
  <2>3. Page!News \in Seq(Page!Events) /\ Len(Page!News) = n
    BY <2>1, <2>2
  <2>4. \A i \in 1 .. n : Page!News[i] = [type |-> "message", index |-> counted + i,
                                          message |-> dashboardRoom[counted + i]]
    BY <2>1
  <2>5. n = Len(dashboardRoom) - counted /\ ~ (Len(dashboardRoom) < counted)
    BY <1>1, <1>3 DEF n
  <2>6. \A i \in 1 .. n : /\ Page!News[i].type = "message" /\ Page!News[i].index = counted + i
                         /\ Page!News[i].message = dashboardRoom[counted + i]
    <3> TAKE i \in 1 .. n
    <3> DEFINE k == counted + i
    <3>1. Page!News[i] = [type |-> "message", index |-> k, message |-> dashboardRoom[k]]
      BY <2>4
    <3> HIDE DEF k
    <3>2. /\ Page!News[i].type = "message" /\ Page!News[i].index = k
          /\ Page!News[i].message = dashboardRoom[k]
      BY <3>1
    <3> QED  BY <3>2 DEF k
  <2> QED  BY <2>3, <2>5, <2>6
<1> QED  BY <1>1, <1>2, <1>3

LEMMA PageTypes == PageInv /\ [Page!Next]_dashboardVars => Page!TypeOK'
<1> SUFFICES ASSUME PageInv, [Page!Next]_dashboardVars
             PROVE  Page!TypeOK'
  OBVIOUS
<1>0. /\ Page!TypeOK /\ MaxMessages \in Nat /\ MaxBreaks \in Nat
      /\ Len(dashboardRoom) <= dashboardMade
  BY BoundsAreNatural DEF PageInv, PageCounts
<1>1. CASE Page!Say
  <2>1. dashboardMade + 1 \in Page!Ids /\ dashboardMade' = dashboardMade + 1
        /\ dashboardMade + 1 \in 0 .. MaxMessages
    BY <1>0, <1>1 DEF Page!Say, Page!TypeOK, Page!Ids
  <2>2. dashboardRoom' \in Seq(Page!Ids)
    BY <2>1, <1>0, <1>1 DEF Page!Say, Page!TypeOK
  <2> QED  BY <2>1, <2>2, <1>0, <1>1 DEF Page!Say, Page!TypeOK
<1>2. CASE Page!Compress
  <2>1. dashboardMade + 1 \in Page!Ids /\ dashboardMade' = dashboardMade + 1
        /\ dashboardMade + 1 \in 0 .. MaxMessages
    BY <1>0, <1>2 DEF Page!Compress, Page!TypeOK, Page!Ids
  <2>2. SubSeq(dashboardRoom, 3, Len(dashboardRoom)) \in Seq(Page!Ids)
    <3>1. \A i \in 3 .. Len(dashboardRoom) : dashboardRoom[i] \in Page!Ids
      BY <1>0 DEF Page!TypeOK
    <3>2. Len(dashboardRoom) \in Int
      BY <1>0 DEF Page!TypeOK
    <3> QED  BY <3>1, <3>2, SubSeqProperties
  <2>3. <<dashboardMade + 1>> \o SubSeq(dashboardRoom, 3, Len(dashboardRoom)) \in Seq(Page!Ids)
    BY <2>1, <2>2, ConcatProperties
  <2> QED  BY <2>1, <2>3, <1>0, <1>2 DEF Page!Compress, Page!TypeOK
<1>3. CASE Page!Poll
  <2>1. queue' \in Seq(Page!Events)
    <3>1. queue \o Page!News \in Seq(Page!Events)
      BY <1>0, NewsFacts, ConcatProperties DEF Page!TypeOK
    <3> QED  BY <3>1, <1>0, <1>3 DEF Page!Poll, Page!TypeOK
  <2>2. counted' \in 0 .. MaxMessages
    BY <1>0, <1>3 DEF Page!Poll, Page!TypeOK
  <2>3. missed' \in BOOLEAN
    BY <1>0, <1>3 DEF Page!Poll, Page!TypeOK
  <2> QED  BY <2>1, <2>2, <2>3, <1>0, <1>3 DEF Page!Poll, Page!TypeOK
<1>4. CASE Page!Connect \/ Page!Registered
  BY <1>0, <1>4 DEF Page!Connect, Page!Registered, Page!TypeOK
<1>5. CASE Page!Break
  <2>1. missed' \in BOOLEAN /\ breaks' \in 0 .. MaxBreaks /\ queue' \in Seq(Page!Events)
    BY <1>0, <1>5 DEF Page!Break, Page!TypeOK
  <2> QED  BY <2>1, <1>0, <1>5 DEF Page!Break, Page!TypeOK
<1>6. CASE Page!Open
  BY <1>0, <1>6 DEF Page!Open, Page!TypeOK
<1>7. CASE Page!Hydrate
  BY <1>0, <1>7 DEF Page!Hydrate, Page!TypeOK
<1>8. CASE Page!Receive
  <2>1. queue' \in Seq(Page!Events) /\ Head(queue) \in Page!Events
    BY <1>0, <1>8, HeadTailProperties DEF Page!Receive, Page!TypeOK
  <2>2. missed' \in BOOLEAN
    BY <1>0, <1>8 DEF Page!Receive, Page!TypeOK
  <2>3. transcript' = None \/ transcript' \in Seq(Page!Ids)
    <3>1. CASE Head(queue).type = "reset"
      BY <3>1, <1>8 DEF Page!Receive
    <3>2. CASE transcript = None
      BY <3>2, <1>8 DEF Page!Receive
    <3>3. CASE Head(queue).type # "reset" /\ transcript # None
      <4>1. Head(queue).message \in Page!Ids
        BY <3>3, <2>1 DEF Page!Events
      <4>2. transcript' = Page!Shown(Head(queue))
        BY <3>3, <1>8 DEF Page!Receive
      <4> QED  BY <4>1, <4>2, <3>3, <1>0 DEF Page!Shown, Page!TypeOK
    <3> QED  BY <3>1, <3>2, <3>3
  <2> QED  BY <2>1, <2>2, <2>3, <1>0, <1>8 DEF Page!Receive, Page!TypeOK
<1>9. CASE UNCHANGED dashboardVars
  BY <1>0, <1>9 DEF dashboardVars, Page!TypeOK
<1> QED
  BY <1>1, <1>2, <1>3, <1>4, <1>5, <1>6, <1>7, <1>8, <1>9
  DEF Page!Next, Page!vars, dashboardVars

(* The counts and the queue of the page.                                   *)
LEMMA PageCountsStep == PageInv /\ [Page!Next]_dashboardVars => PageCounts'
<1> SUFFICES ASSUME PageInv, [Page!Next]_dashboardVars
             PROVE  PageCounts'
  OBVIOUS
<1>0. /\ Page!TypeOK /\ PageCounts /\ counted \in Nat /\ dashboardMade \in Nat
      /\ dashboardRoom \in Seq(Page!Ids) /\ Len(dashboardRoom) \in Nat
      /\ queue \in Seq(Page!Events) /\ Len(queue) \in Nat
  <2>1. Page!TypeOK /\ PageCounts  BY DEF PageInv
  <2> QED  BY ONLY <2>1, PageNumbers
<1>1. CASE Page!Say
  <2>1. Len(dashboardRoom') = Len(dashboardRoom) + 1 /\ dashboardMade' = dashboardMade + 1
    BY <1>0, <1>1 DEF Page!Say
  <2> QED  BY <2>1, <1>0, <1>1 DEF Page!Say, PageCounts
<1>2. CASE Page!Compress
  <2> DEFINE rest == SubSeq(dashboardRoom, 3, Len(dashboardRoom))
  <2>1. rest \in Seq(Page!Ids) /\ Len(rest) <= Len(dashboardRoom)
    <3>1. \A i \in 3 .. Len(dashboardRoom) : dashboardRoom[i] \in Page!Ids
      BY <1>0
    <3>2. Len(dashboardRoom) \in Int
      BY <1>0
    <3>3. rest \in Seq(Page!Ids)
          /\ Len(rest) = IF 3 <= Len(dashboardRoom) THEN Len(dashboardRoom) - 3 + 1 ELSE 0
      BY <3>1, <3>2, SubSeqProperties
    <3> QED  BY <3>3, <1>0
  <2>2. dashboardMade + 1 \in Page!Ids
    <3>1. dashboardMade < MaxMessages  BY <1>2 DEF Page!Compress
    <3> QED  BY ONLY <1>0, <3>1, BoundsAreNatural DEF Page!Ids
  <2>3. dashboardRoom' = <<dashboardMade + 1>> \o rest
    BY <1>2 DEF Page!Compress
  <2> HIDE DEF rest
  <2>4. Len(dashboardRoom') = 1 + Len(rest)
    BY <2>1, <2>2, <2>3, ConcatProperties
  <2>5. Len(dashboardRoom') <= dashboardMade'
    <3>1. Len(rest) \in Nat  BY <2>1
    <3>2. dashboardMade' = dashboardMade + 1 /\ Len(dashboardRoom) <= dashboardMade
      BY <1>2, <1>0 DEF Page!Compress, PageCounts
    <3> QED  BY <3>1, <3>2, <2>1, <2>4, <1>0
  <2> QED  BY <2>5, <1>0, <1>2 DEF Page!Compress, PageCounts
<1>3. CASE Page!Poll
  <2> DEFINE news == Page!News
             both == queue \o news
  <2>1. news \in Seq(Page!Events) /\ Len(news) \in Nat
    BY NewsFacts
  <2>2. /\ Len(both) = Len(queue) + Len(news)
        /\ \A i \in 1 .. Len(both) :
             both[i] = IF i <= Len(queue) THEN queue[i] ELSE news[i - Len(queue)]
    BY <1>0, <2>1, ConcatProperties
  <2>3. \A i \in 1 .. Len(queue') :
          \/ queue'[i].type = "message" /\ queue'[i].index <= counted'
          \/ \E j \in i .. Len(queue') : queue'[j].type = "reset"
    <3>1. CASE stream # "on"
      BY <3>1, <1>0, <1>3 DEF Page!Poll, PageCounts
    <3>2. CASE stream = "on" /\ Len(dashboardRoom) < counted
      <4>1. queue' = both /\ Len(news) = 1 /\ news[1].type = "reset"
        BY <3>2, <1>3, NewsFacts DEF Page!Poll
      <4> HIDE DEF both, news
      <4>2. both[Len(queue) + 1] = news[1] /\ Len(both) = Len(queue) + 1
        <5>1. Len(queue) + 1 \in 1 .. Len(both) /\ Len(both) = Len(queue) + 1
          BY <4>1, <2>2, <1>0
        <5>2. both[Len(queue) + 1] = news[(Len(queue) + 1) - Len(queue)]
          BY <5>1, <2>2, <1>0
        <5>3. (Len(queue) + 1) - Len(queue) = 1  BY <1>0
        <5> QED  BY <5>1, <5>2, <5>3
      <4>3. \A i \in 1 .. Len(queue') : Len(queue) + 1 \in i .. Len(queue')
        BY <4>1, <4>2, <1>0
      <4> QED  BY <4>1, <4>2, <4>3
    <3>3. CASE stream = "on" /\ Len(dashboardRoom) >= counted
      <4>1. /\ queue' = both /\ Len(news) = Len(dashboardRoom) - counted
            /\ \A i \in 1 .. Len(news) : news[i].type = "message" /\ news[i].index = counted + i
            /\ counted' = Len(dashboardRoom)
        BY <3>3, <1>3, NewsFacts DEF Page!Poll
      <4> HIDE DEF both, news
      <4> TAKE i \in 1 .. Len(queue')
      <4>2. CASE i <= Len(queue)
        <5>1. i \in 1 .. Len(queue) /\ both[i] = queue[i]  BY <4>1, <4>2, <2>2, <1>0
        <5>2. CASE queue[i].type = "message" /\ queue[i].index <= counted
          <6>1. queue[i].index \in Nat
            BY <5>1, <5>2, <1>0, ElementOfSeq DEF Page!Events, Page!Ids
          <6> QED  BY <6>1, <5>1, <5>2, <4>1, <3>3, <1>0
        <5>3. ASSUME NEW j \in i .. Len(queue), queue[j].type = "reset"
              PROVE  \E k \in i .. Len(queue') : queue'[k].type = "reset"
          <6>1. j \in i .. Len(queue') /\ j \in 1 .. Len(both) /\ j <= Len(queue)
            BY <5>1, <4>1, <2>1, <2>2, <1>0
          <6>2. both[j] = queue[j]  BY <6>1, <2>2
          <6> QED  BY <6>1, <6>2, <5>3, <4>1
        <5> QED  BY <5>1, <5>2, <5>3, <1>0 DEF PageCounts
      <4>3. CASE i > Len(queue)
        <5>1. i - Len(queue) \in 1 .. Len(news) /\ i \in 1 .. Len(both)
          BY <4>1, <4>3, <2>1, <2>2, <1>0
        <5>2. both[i] = news[i - Len(queue)]
          BY <5>1, <4>3, <2>2, <1>0
        <5>3. both[i].type = "message" /\ both[i].index = counted + (i - Len(queue))
          BY <5>1, <5>2, <4>1
        <5>4. counted + (i - Len(queue)) <= Len(dashboardRoom)
          BY <5>1, <4>1, <1>0
        <5> QED  BY <5>3, <5>4, <4>1
      <4> QED  BY <4>2, <4>3, <1>0
    <3> QED  BY <3>1, <3>2, <3>3, <1>0
  <2>4. stream' # "on" => queue' = <<>>
    BY <1>0, <1>3 DEF Page!Poll, PageCounts
  <2> QED  BY <2>3, <2>4, <1>0, <1>3 DEF Page!Poll, PageCounts
<1>4. CASE Page!Connect \/ Page!Registered
  BY <1>0, <1>4 DEF Page!Connect, Page!Registered, PageCounts
<1>5. CASE Page!Break
  <2>1. queue' = <<>> /\ Len(queue') = 0
    BY <1>5 DEF Page!Break
  <2> QED  BY <2>1, <1>0, <1>5 DEF Page!Break, PageCounts
<1>6. CASE Page!Open
  BY <1>0, <1>6 DEF Page!Open, PageCounts
<1>7. CASE Page!Hydrate
  BY <1>0, <1>7 DEF Page!Hydrate, PageCounts
<1>8. CASE Page!Receive
  <2>1. /\ queue' = Tail(queue) /\ queue # <<>> /\ Len(queue') = Len(queue) - 1
        /\ \A i \in 1 .. Len(queue') : queue'[i] = queue[i + 1]
    BY <1>0, <1>8, HeadTailProperties DEF Page!Receive
  <2>2. ASSUME NEW i \in 1 .. Len(queue')
        PROVE  \/ queue'[i].type = "message" /\ queue'[i].index <= counted
               \/ \E j \in i .. Len(queue') : queue'[j].type = "reset"
    <3>1. i + 1 \in 1 .. Len(queue) /\ queue'[i] = queue[i + 1]
      BY <2>1, <1>0
    <3>2. ASSUME NEW j \in i + 1 .. Len(queue), queue[j].type = "reset"
          PROVE  \E k \in i .. Len(queue') : queue'[k].type = "reset"
      <4>1. j - 1 \in i .. Len(queue') /\ j - 1 \in 1 .. Len(queue') /\ (j - 1) + 1 = j
        BY <2>1, <1>0
      <4>2. queue'[j - 1] = queue[j]
        BY <4>1, <2>1
      <4> QED  BY <4>1, <4>2, <3>2
    <3> QED  BY <3>1, <3>2, <1>0 DEF PageCounts
  <2>3. transcript = None => transcript' = None
    BY <1>8 DEF Page!Receive
  <2> QED
    BY <2>1, <2>2, <2>3, <1>0, <1>8 DEF Page!Receive, PageCounts
<1>9. CASE UNCHANGED dashboardVars
  BY <1>0, <1>9 DEF dashboardVars, PageCounts
<1> QED
  BY <1>1, <1>2, <1>3, <1>4, <1>5, <1>6, <1>7, <1>8, <1>9
  DEF Page!Next, Page!vars, dashboardVars

(* The copy of the page stays one, or the page knows that it is not.       *)
LEMMA PageFollowsStep == PageInv /\ [Page!Next]_dashboardVars => PageFollows'
<1> SUFFICES ASSUME PageInv, [Page!Next]_dashboardVars
             PROVE  PageFollows'
  OBVIOUS
<1>0. /\ Page!TypeOK /\ PageCounts /\ PageFollows /\ counted \in Nat
      /\ dashboardRoom \in Seq(Page!Ids) /\ Len(dashboardRoom) \in Nat
      /\ queue \in Seq(Page!Events) /\ Len(queue) \in Nat
      /\ Page!Wanted => Copy \in Seq(Page!Ids)
  <2>1. Page!TypeOK /\ PageCounts /\ PageFollows  BY DEF PageInv
  <2>2. /\ counted \in Nat /\ dashboardRoom \in Seq(Page!Ids) /\ queue \in Seq(Page!Events)
    BY ONLY <2>1, BoundsAreNatural DEF Page!TypeOK
  <2>3. Page!Wanted => Copy \in Seq(Page!Ids)
    BY ONLY <2>1 DEF Page!TypeOK, Page!Wanted, Copy
  <2> QED  BY ONLY <2>1, <2>2, <2>3
(* Without a reset the queue holds messages that were counted.             *)
<1>a. ~ Page!ResetIsComing =>
        /\ ~ compressed /\ counted <= Len(dashboardRoom)
        /\ \A i \in 1 .. Len(queue) :
             queue[i].type = "message" /\ queue[i].index \in Nat \ {0} /\ queue[i].index <= counted
  <2> SUFFICES ASSUME ~ Page!ResetIsComing
               PROVE  /\ ~ compressed /\ counted <= Len(dashboardRoom)
                      /\ \A i \in 1 .. Len(queue) : /\ queue[i].type = "message"
                                                    /\ queue[i].index \in Nat \ {0}
                                                    /\ queue[i].index <= counted
    OBVIOUS
  <2>1. \A i \in 1 .. Len(queue) : queue[i].type # "reset" /\ queue[i] \in Page!Events
    BY <1>0 DEF Page!ResetIsComing
  <2>2. \A i \in 1 .. Len(queue) : queue[i].type = "message" /\ queue[i].index \in Nat \ {0}
    BY <2>1 DEF Page!Events, Page!Ids
  <2>3. \A i \in 1 .. Len(queue) : queue[i].index <= counted
    <3> TAKE i \in 1 .. Len(queue)
    <3>1. \A j \in i .. Len(queue) : j \in 1 .. Len(queue)  BY <1>0
    <3> QED  BY <3>1, <2>1, <1>0 DEF PageCounts
  <2> QED  BY <2>2, <2>3, <1>0 DEF Page!ResetIsComing, PageCounts
<1>b. SUFFICES ASSUME Page!Wanted', ~ missed', ~ Page!ResetIsComing'
               PROVE  Continues(Copy', dashboardRoom', queue', counted')
  BY DEF PageFollows
<1>1. CASE Page!Say
  <2>1. Page!Wanted /\ ~ missed /\ ~ Page!ResetIsComing /\ Copy' = Copy /\ queue' = queue
        /\ counted' = counted
    BY <1>1, <1>b DEF Page!Say, Page!Wanted, Page!ResetIsComing, Copy
  <2>2. dashboardRoom' = Append(dashboardRoom, dashboardMade + 1) /\ dashboardMade + 1 \in Page!Ids
    <3>1. dashboardRoom' = Append(dashboardRoom, dashboardMade + 1) /\ dashboardMade < MaxMessages
      BY <1>1 DEF Page!Say
    <3>2. dashboardMade \in 0 .. MaxMessages  BY <1>0 DEF Page!TypeOK
    <3> QED  BY ONLY <3>1, <3>2, BoundsAreNatural DEF Page!Ids
  <2>3. Continues(Copy, dashboardRoom, queue, counted)
    BY <2>1, <1>0 DEF PageFollows
  <2>4. \A i \in 1 .. Len(queue) : queue[i].index \in Nat \ {0}
    BY <2>1, <1>a
  <2> QED  BY <2>1, <2>2, <2>3, <2>4, <1>0, SaidContinues
<1>2. CASE Page!Compress
  BY <1>2, <1>b DEF Page!Compress, Page!ResetIsComing
<1>3. CASE Page!Poll
  <2>1. Page!Wanted /\ ~ missed /\ Copy' = Copy /\ dashboardRoom' = dashboardRoom
        /\ counted' = Len(dashboardRoom)
        /\ ~ (Page!News # <<>> /\ stream # "on") /\ ~ (compressed /\ Len(dashboardRoom) >= counted)
    BY <1>3, <1>b DEF Page!Poll, Page!Wanted, Copy
  <2>2. Len(dashboardRoom) >= counted
    <3>1. SUFFICES ASSUME Len(dashboardRoom) < counted PROVE FALSE  BY <1>0
    <3>2. Page!News = <<[type |-> "reset"]>>  BY <3>1, NewsFacts
    <3>3. stream = "on" /\ queue' = queue \o <<[type |-> "reset"]>>
      BY <3>2, <2>1, <1>3 DEF Page!Poll
    <3>4. [type |-> "reset"] \in Page!Events  BY DEF Page!Events
    <3>5. <<[type |-> "reset"]>> \in Seq(Page!Events) /\ Len(<<[type |-> "reset"]>>) = 1
      BY <3>4
    <3>6. /\ Len(queue') = Len(queue) + 1 /\ queue' \in Seq(Page!Events)
          /\ queue'[Len(queue) + 1] = <<[type |-> "reset"]>>[(Len(queue) + 1) - Len(queue)]
      <4>1. Len(queue) + 1 \in 1 .. Len(queue) + 1 /\ ~ (Len(queue) + 1 <= Len(queue))  BY <1>0
      <4> QED  BY <4>1, <3>3, <3>5, <1>0, ConcatProperties
    <3>7. (Len(queue) + 1) - Len(queue) = 1  BY <1>0
    <3>8. queue'[Len(queue) + 1].type = "reset" /\ Len(queue) + 1 \in DOMAIN queue'
      <4>1. queue'[Len(queue) + 1] = [type |-> "reset"]  BY <3>6, <3>7
      <4>2. Len(queue) + 1 \in DOMAIN queue'  BY <3>6, <1>0, LenProperties
      <4> QED  BY <4>1, <4>2
    <3> QED  BY <3>8, <1>b DEF Page!ResetIsComing
  <2>3. ~ compressed  BY <2>1, <2>2
  <2>4. /\ Page!News \in Seq(Page!Events) /\ Len(Page!News) = Len(dashboardRoom) - counted
        /\ \A i \in 1 .. Len(Page!News) :
             Page!News[i].index = counted + i /\ Page!News[i].message = dashboardRoom[counted + i]
    BY <2>2, NewsFacts
  <2>5. queue' = queue \o Page!News
    <3>1. CASE stream = "on"  BY <3>1, <1>3 DEF Page!Poll
    <3>2. CASE stream # "on"
      <4>1. Page!News = <<>> /\ queue' = queue  BY <3>2, <2>1, <1>3 DEF Page!Poll
      <4> QED  BY <4>1, <1>0, ConcatEmptySeq
    <3> QED  BY <3>1, <3>2
  <2>6. ~ Page!ResetIsComing
    <3>1. ASSUME NEW i \in DOMAIN queue PROVE queue[i].type # "reset"
      <4>1. i \in 1 .. Len(queue) /\ i \in 1 .. Len(queue) + Len(Page!News)
        BY <1>0, <2>4
      <4>2. queue'[i] = queue[i] /\ queue' \in Seq(Page!Events)
            /\ Len(queue') = Len(queue) + Len(Page!News)
        <5>1. /\ queue \o Page!News \in Seq(Page!Events)
              /\ Len(queue \o Page!News) = Len(queue) + Len(Page!News)
              /\ \A k \in 1 .. Len(queue) + Len(Page!News) : (queue \o Page!News)[k] =
                     IF k <= Len(queue) THEN queue[k] ELSE Page!News[k - Len(queue)]
          BY <2>4, <1>0, ConcatProperties
        <5> QED  BY <5>1, <4>1, <2>5, <1>0
      <4>3. i \in DOMAIN queue'  BY <4>1, <4>2
      <4> QED  BY <4>2, <4>3, <1>b DEF Page!ResetIsComing
    <3> QED  BY <3>1, <2>3 DEF Page!ResetIsComing
  <2>7. Continues(Copy, dashboardRoom, queue, counted)
    BY <2>1, <2>6, <1>0 DEF PageFollows
  <2>8. \A i \in 1 .. Len(queue) : queue[i].index \in Nat /\ queue[i].index <= counted
    BY <2>6, <1>a
  <2>9. Copy \in Seq(Page!Ids) /\ counted <= Len(dashboardRoom)
    BY <2>1, <2>6, <1>0, <1>a
  <2>10. Continues(Copy, dashboardRoom, queue \o Page!News, Len(dashboardRoom))
    BY <2>4, <2>7, <2>8, <2>9, <1>0, PolledContinues
  <2> QED  BY <2>1, <2>5, <2>10
<1>4. CASE Page!Connect \/ Page!Registered
  <2>1. Page!Wanted /\ ~ missed /\ ~ Page!ResetIsComing /\ Copy' = Copy /\ queue' = queue
        /\ counted' = counted /\ dashboardRoom' = dashboardRoom
    BY <1>4, <1>b DEF Page!Connect, Page!Registered, Page!Wanted, Page!ResetIsComing, Copy
  <2> QED  BY <2>1, <1>0 DEF PageFollows
<1>5. CASE Page!Break
  <2>1. Page!Wanted /\ ~ missed /\ Copy' = Copy /\ queue' = <<>> /\ queue = <<>>
        /\ counted' = counted /\ dashboardRoom' = dashboardRoom /\ compressed' = compressed
    BY <1>5, <1>b DEF Page!Break, Page!Wanted, Copy
  <2>2. ~ Page!ResetIsComing
    BY <2>1, <1>b DEF Page!ResetIsComing
  <2> QED  BY <2>1, <2>2, <1>0 DEF PageFollows
<1>6. CASE Page!Open
  <2>1. Copy' = dashboardRoom /\ queue' = queue /\ counted' = counted
        /\ dashboardRoom' = dashboardRoom /\ ~ Page!ResetIsComing
    BY <1>6, <1>b DEF Page!Open, Page!ResetIsComing, Copy
  <2>2. /\ counted <= Len(dashboardRoom)
        /\ \A i \in 1 .. Len(queue) : queue[i].index \in Nat /\ queue[i].index <= counted
    BY <2>1, <1>a
  <2> QED  BY <2>1, <2>2, <1>0, OpenedContinues
<1>7. CASE Page!Hydrate
  <2>1. Page!Wanted /\ ~ missed /\ ~ Page!ResetIsComing /\ Copy' = Copy /\ queue' = queue
        /\ counted' = counted /\ dashboardRoom' = dashboardRoom
    BY <1>0, <1>7, <1>b DEF Page!Hydrate, Page!Wanted, Page!ResetIsComing, Copy, PageCounts
  <2> QED  BY <2>1, <1>0 DEF PageFollows
<1>8. CASE Page!Receive
  <2>1. /\ queue # <<>> /\ queue' = Tail(queue) /\ counted' = counted /\ ~ missed
        /\ dashboardRoom' = dashboardRoom /\ compressed' = compressed /\ response' = response
        /\ Head(queue) = queue[1] /\ 1 \in 1 .. Len(queue)
        /\ ~ (response # None /\ (Head(queue).type = "reset" \/ Head(queue).index > Len(response)))
    <3>1. /\ queue # <<>> /\ queue' = Tail(queue) /\ counted' = counted
          /\ dashboardRoom' = dashboardRoom /\ compressed' = compressed /\ response' = response
          /\ missed' = (missed \/ (response # None
                         /\ (Head(queue).type = "reset" \/ Head(queue).index > Len(response))))
      BY <1>8 DEF Page!Receive
    <3>2. Head(queue) = queue[1] /\ 1 \in 1 .. Len(queue)
      <4>1. Len(queue) # 0  BY <3>1, <1>0
      <4> QED  BY <4>1, <1>0
    <3> QED  BY <3>1, <3>2, <1>b
  <2>2. Head(queue).type # "reset"
    <3>1. SUFFICES ASSUME Head(queue).type = "reset" PROVE FALSE  OBVIOUS
    <3>2. transcript' = None /\ response' = None
      BY <3>1, <2>1, <1>8 DEF Page!Receive
    <3> QED  BY <3>2, <1>b DEF Page!Wanted
  <2>3. ~ Page!ResetIsComing
    <3>1. ASSUME NEW i \in DOMAIN queue PROVE queue[i].type # "reset"
      <4>1. CASE i = 1  BY <4>1, <2>1, <2>2
      <4>2. CASE i # 1
        <5>1. i - 1 \in 1 .. Len(queue) - 1 /\ (i - 1) + 1 = i  BY <4>2, <1>0
        <5>2. queue' \in Seq(Page!Events) /\ Len(queue') = Len(queue) - 1 /\ queue'[i - 1] = queue[i]
          <6>1. /\ Tail(queue) \in Seq(Page!Events) /\ Len(Tail(queue)) = Len(queue) - 1
                /\ \A j \in 1 .. Len(Tail(queue)) : Tail(queue)[j] = queue[j + 1]
            BY <1>0, <2>1, HeadTailProperties
          <6> QED  BY <6>1, <5>1, <2>1
        <5>3. i - 1 \in DOMAIN queue'  BY <5>1, <5>2
        <5> QED  BY <5>2, <5>3, <1>b DEF Page!ResetIsComing
      <4> QED  BY <4>1, <4>2
    <3> QED  BY <3>1, <2>1, <1>b DEF Page!ResetIsComing
  <2>4. Page!Wanted
    BY <2>1, <2>2, <1>8, <1>b DEF Page!Receive, Page!Wanted
  <2>5. Continues(Copy, dashboardRoom, queue, counted) /\ Copy \in Seq(Page!Ids)
        /\ \A i \in 1 .. Len(queue) : queue[i].index \in Nat \ {0}
    BY <2>1, <2>3, <2>4, <1>0, <1>a DEF PageFollows
  <2>6. /\ Head(queue).index > Len(Copy) =>
             Continues(Append(Copy, Head(queue).message), dashboardRoom, Tail(queue), counted)
        /\ Head(queue).index <= Len(Copy) =>
             Continues(Copy, dashboardRoom, Tail(queue), counted)
    BY <2>1, <2>5, <1>0, ReceivedContinues
  <2>7. Head(queue).index \in Nat /\ Len(Copy) \in Nat
    BY <2>1, <2>5
  <2>8. CASE transcript = None
    <3>1. Copy = response /\ response # None /\ transcript' = None
      BY <2>8, <2>4, <1>8 DEF Copy, Page!Wanted, Page!Receive
    <3>2. Head(queue).index <= Len(Copy)
      BY <3>1, <2>1, <2>7
    <3> QED  BY <3>1, <3>2, <2>1, <2>6 DEF Copy
  <2>9. CASE transcript # None
    <3>1. Copy = transcript /\ response = None /\ transcript' = Page!Shown(Head(queue))
      BY <2>9, <2>2, <1>0, <1>8 DEF Copy, Page!Receive, PageCounts
    <3>2. transcript' # None
      BY <3>1, <2>1, <1>b DEF Page!Wanted
    <3>3. Copy' = Page!Shown(Head(queue))
      BY <3>1, <3>2 DEF Copy
    <3>4. CASE Head(queue).index > Len(Copy)
      BY <3>1, <3>3, <3>4, <2>1, <2>6 DEF Page!Shown
    <3>5. CASE Head(queue).index <= Len(Copy)
      <4>1. ~ (Head(queue).index > Len(transcript))  BY <3>1, <3>5, <2>7
      <4> QED  BY <4>1, <3>1, <3>3, <3>5, <2>1, <2>6 DEF Page!Shown
    <3> QED  BY <3>4, <3>5, <2>7
  <2> QED  BY <2>8, <2>9
<1>9. CASE UNCHANGED dashboardVars
  <2>1. Page!Wanted /\ ~ missed /\ ~ Page!ResetIsComing /\ Copy' = Copy /\ queue' = queue
        /\ counted' = counted /\ dashboardRoom' = dashboardRoom
    BY <1>9, <1>b DEF dashboardVars, Page!Wanted, Page!ResetIsComing, Copy
  <2> QED  BY <2>1, <1>0 DEF PageFollows
<1> QED
  BY <1>1, <1>2, <1>3, <1>4, <1>5, <1>6, <1>7, <1>8, <1>9
  DEF Page!Next, Page!vars, dashboardVars

(* The page keeps its invariant.                                           *)
LEMMA PageAlways == Spec => []PageInv
<1>1. Init => PageInv  BY PageInit DEF Init
<1>2. PageInv /\ [Next]_vars => PageInv'
  BY RoomsSteps, PageTypes, PageCountsStep, PageFollowsStep DEF PageInv
<1> QED  BY <1>1, <1>2, PTL DEF Spec

(* The transcript on the page is the beginning of the room, without a      *)
(* message twice or left out, unless a reset is under way or an event was  *)
(* lost on the page, for any number of messages and broken connections.    *)
THEOREM TranscriptsAreTrue == Spec => []TranscriptIsTrue
<1>1. PageInv => TranscriptIsTrue
  <2> SUFFICES ASSUME PageInv, transcript # None, ~ missed, ~ Page!ResetIsComing
               PROVE  Page!IsPrefix(transcript, dashboardRoom)
    BY DEF TranscriptIsTrue, Page!TranscriptIsTrue
  <2>1. Continues(transcript, dashboardRoom, queue, counted)
    BY DEF PageInv, PageFollows, Page!Wanted, Copy
  <2>2. transcript \in Seq(Page!Ids) /\ dashboardRoom \in Seq(Page!Ids)
    BY DEF PageInv, Page!TypeOK
  <2> QED  BY <2>1, <2>2, PrefixFacts DEF Continues
<1> QED  BY <1>1, PageAlways, PTL

=============================================================================
