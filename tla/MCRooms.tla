------------------------------ MODULE MCRooms -------------------------------
(* Instances for TLC of the components around the room engine: each        *)
(* behaviour is one of the component `which' names, the others stay as     *)
(* they start.  They share no state.                                       *)
EXTENDS Naturals, FiniteSets, Sequences, TLC

CONSTANTS
    Rooms, Challenged, Spare, Objects, Calls, Fusions, RoundsTotal, Agents, Own, MaxSteps,
    Everybody, MaxMessages, MaxBreaks, Timeout, Idle, Progress, Window, Repeats,
    Actions, MaxActions, Names, Speakers, MaxRetries, Flags, Verbatim, MaxRounds,
    Claims, Voices, Parties, Streak, MaxCall, pa, pb, pc, f1, f2, None, MaxCrashes,
    MaxFaults

ASSUME RunsHaveRounds == RoundsTotal \in Nat \ {0}
ASSUME StreaksAreRounds == Streak \in Nat \ {0}
ASSUME PartiesSpeak == Parties \subseteq SUBSET Voices /\ Speakers \subseteq Names
ASSUME RunsAreSettings ==
    /\ Flags \subseteq {"open", "blind", "sparse"}
    /\ MaxRounds \in Nat \ {0} /\ Verbatim \in Nat
ASSUME NoneIsNoReason == None \notin {"streak", "converged", "stalled", "looping"}
ASSUME NoneIsNoRecord ==
    /\ None \notin {"fusion", "dual", "conductor"}
    /\ None \notin [status : {"running", "synthesizing", "done", "error"},
                     rounds : 0 .. RoundsTotal, text : BOOLEAN]
ASSUME ObjectsAreNumbered == IsFiniteSet(Objects) /\ Objects = 1 .. Cardinality(Objects)
ASSUME IdsAreFinite == IsFiniteSet(Rooms \cup {Challenged} \cup Spare)
ASSUME NoneIsNoRoom ==
    None \notin Objects /\ None \notin [object : Objects, said : SUBSET (Calls \X {"told", "reply"})]
ASSUME BoundsAreNatural ==
    {MaxCall, MaxRetries, MaxRounds, Timeout, Idle, Progress, Window, Repeats, MaxActions,
     MaxCrashes, MaxFaults, MaxMessages, MaxBreaks, MaxSteps} \subseteq Nat

(* What is made of a workflow's shorthands: "opus" has no second part. *)
Display == [x \in Agents |-> IF x = "opus" THEN "opus" ELSE "Opus"]
Model   == [x \in Agents |-> IF x = "opus" THEN None ELSE "opus"]
Lower   == [x \in Agents \cup Own \cup {"Opus", "opus"} |->
               CASE x = "Opus" -> "opus" [] x = "Critic" -> "critic" [] OTHER -> x]

(* A step of a workflow refers to nobody or to one other. *)
Depends == {{}} \cup {{<<Lower[x], 1>>} : x \in DOMAIN Lower} \cup {{<<Lower[x], 2>>} : x \in Own \cup {"Opus"}}

(* Two verifiers beside somebody without a role, and no matrix; two workers
   and a thinker, and a matrix. *)
Paired  == (pa :> "none") @@ (pb :> "verifier") @@ (pc :> "verifier")
Workers == (pa :> "worker") @@ (pb :> "worker") @@ (pc :> "thinker")
Says(what) == [says |-> what, names |-> {}]
Unset == [r \in 1 .. MaxRounds |-> [n \in Names |-> Says("unset")]]
Mixed ==
    [r \in 1 .. MaxRounds |->
        IF r = 2 THEN (pa :> Says("all")) @@ (pb :> [says |-> "list", names |-> {pc}]) @@ (pc :> Says("unset"))
        ELSE (pa :> Says("unset")) @@ (pb :> Says("none")) @@ (pc :> Says("unset"))]
Settings  == {[role |-> Paired, matrix |-> Unset], [role |-> Workers, matrix |-> Mixed]}
ToolTurns == [n \in Names |-> IF n = pb THEN 1 ELSE 0]

ASSUME SettingsAreOfRooms ==
    \A s \in Settings :
        /\ s.role \in [Names -> {"none", "thinker", "worker", "verifier"}]
        /\ s.matrix \in [1 .. MaxRounds ->
                          [Names -> [says : {"unset", "all", "none", "list"}, names : SUBSET Names]]]

VARIABLES
    which,  \* the component that runs, fixed at the start
    rooms, registrySaid, registryMade, registryFile, registryCall, op, id, object,
    replaced, registryCrashes, faults,
    kind, fusionCall, task, running, record, fusionFile, unsaved, told, fusionCrashes,
    workflow, workflowRoom,
    dashboardRoom, dashboardMade, compressed, changed, counted, stream, queue,
    transcript, response, missed, breaks,
    claudeMode, phase, process, reader, now, wake, heard, moved, resumes, history, tree,
    done, stepped, limited, outcome,
    role, matrix, flag, turnsMode, round, first, turnsSaid, turns, summed, quoted,
    turnsLedger, cits, turn,
    debateLedger, flagged, saved, debateMade, debateMode, left, contents, streak, log,
    stopped, spoken, judged

Registry == INSTANCE RoomRegistry
    WITH said <- registrySaid, made <- registryMade, file <- registryFile,
         call <- registryCall, crashes <- registryCrashes
Detached == INSTANCE Fusion
    WITH call <- fusionCall, file <- fusionFile, crashes <- fusionCrashes
Compiled == INSTANCE Workflow
    WITH room <- workflowRoom
Page == INSTANCE Dashboard
    WITH room <- dashboardRoom, made <- dashboardMade
Claude == INSTANCE ClaudeCall
    WITH mode <- claudeMode
Turns == INSTANCE Turn
    WITH mode <- turnsMode, said <- turnsSaid, ledger <- turnsLedger
Debate == INSTANCE Consensus
    WITH ledger <- debateLedger, made <- debateMade, mode <- debateMode

registryVars == <<rooms, registrySaid, registryMade, registryFile, registryCall, op, id,
                  object, replaced, registryCrashes, faults>>
fusionVars == <<kind, fusionCall, task, running, record, fusionFile, unsaved, told,
                fusionCrashes>>
workflowVars == <<workflow, workflowRoom>>
dashboardVars == <<dashboardRoom, dashboardMade, compressed, changed, counted, stream,
                   queue, transcript, response, missed, breaks>>
claudeVars == <<claudeMode, phase, process, reader, now, wake, heard, moved, resumes,
                history, tree, done, stepped, limited, outcome>>
turnsVars == <<role, matrix, flag, turnsMode, round, first, turnsSaid, turns, summed,
               quoted, turnsLedger, cits, turn>>
debateVars == <<debateLedger, flagged, saved, debateMade, debateMode, left, contents,
                streak, log, stopped, spoken, judged>>

vars == <<which, registryVars, fusionVars, workflowVars, dashboardVars, claudeVars, turnsVars, debateVars>>

TypeOK ==
    /\ Registry!TypeOK
    /\ Detached!TypeOK
    /\ Compiled!TypeOK
    /\ Page!TypeOK
    /\ Claude!TypeOK
    /\ Turns!TypeOK
    /\ Debate!TypeOK

Init ==
    /\ which \in {"registry", "fusion", "workflow", "dashboard", "claude", "turns",
                  "debate"}
    /\ Registry!Init
    /\ Detached!Init
    /\ IF which = "workflow" THEN Compiled!Init ELSE workflow = <<[agent |-> "opus", name |-> None, depends |-> {}]>> /\ Compiled!Init
    /\ Page!Init
    /\ Claude!Init /\ (which # "claude" => claudeMode = "on")
    /\ Turns!Init /\ (which # "turns" => role = Paired)
    /\ Debate!Init

(* Only this component moves. *)
RegistryRuns ==
    /\ which = "registry"
    /\ UNCHANGED <<which, fusionVars, workflowVars, dashboardVars, claudeVars, turnsVars, debateVars>>
DetachedRuns ==
    /\ which = "fusion"
    /\ UNCHANGED <<which, registryVars, workflowVars, dashboardVars, claudeVars, turnsVars, debateVars>>
CompiledRuns ==
    /\ which = "workflow"
    /\ UNCHANGED <<which, registryVars, fusionVars, dashboardVars, claudeVars, turnsVars, debateVars>>
PageRuns ==
    /\ which = "dashboard"
    /\ UNCHANGED <<which, registryVars, fusionVars, workflowVars, claudeVars, turnsVars, debateVars>>
ClaudeRuns ==
    /\ which = "claude"
    /\ UNCHANGED <<which, registryVars, fusionVars, workflowVars, dashboardVars, turnsVars, debateVars>>
TurnsRuns ==
    /\ which = "turns"
    /\ UNCHANGED <<which, registryVars, fusionVars, workflowVars, dashboardVars, claudeVars, debateVars>>
DebateRuns ==
    /\ which = "debate"
    /\ UNCHANGED <<which, registryVars, fusionVars, workflowVars, dashboardVars, claudeVars, turnsVars>>

Next ==
    \/ RegistryRuns /\ Registry!Next
    \/ DetachedRuns /\ Detached!Next
    \/ CompiledRuns /\ Compiled!Next
    \/ PageRuns /\ Page!Next
    \/ ClaudeRuns /\ Claude!Next
    \/ TurnsRuns /\ Turns!Next
    \/ DebateRuns /\ Debate!Next

(* Each component's own fairness; only the one that runs has a step. *)
Fairness ==
    /\ WF_vars(\/ DetachedRuns /\ Detached!Proceeds(f1)
               \/ PageRuns /\ Page!Poll
               \/ ClaudeRuns /\ (Claude!Look \/ Claude!TimesOut \/ Claude!Finishes)
               \/ TurnsRuns /\ Turns!Step)
    /\ WF_vars(\/ DetachedRuns /\ Detached!StrayEnds(f1)
               \/ PageRuns /\ Page!Receive
               \/ ClaudeRuns /\ Claude!Tick)
    /\ WF_vars(\/ DetachedRuns /\ Detached!Proceeds(f2)
               \/ PageRuns /\ Page!Registered
               \/ ClaudeRuns /\ Claude!Written)
    /\ WF_vars(\/ DetachedRuns /\ Detached!StrayEnds(f2)
               \/ PageRuns /\ Page!Hydrate)

Spec == Init /\ [][Next]_vars /\ Fairness

-----------------------------------------------------------------------------
(* What a caller was told to be in a room is in it for whoever reads it next,
   and in its file. *)
RoomsAreKept == Registry!RoomsAreKept

(* A result a client was told of can be read again, also after a restart. *)
ResultIsKept == Detached!ResultIsKept

(* A pipeline whose aliases keep their meaning is compiled into dependencies
   on earlier steps only. *)
PipelineIsAcyclic == Compiled!PipelineIsAcyclic

(* The transcript on the page is the beginning of the room. *)
TranscriptIsTrue == Page!TranscriptIsTrue

(* A claude turn is killed as stalled or looping only when it is. *)
VerdictIsDeserved == Claude!VerdictIsDeserved

(* Workers and verifiers are not shown what their peers said, and an under-
   cited verifier turn has its UNVERIFIED entry. *)
RolesAreKept == Turns!RolesAreKept

(* A run that stops early has earned it, a room in which nobody claimed
   anything does not converge, and the judge hears of everybody who spoke. *)
JudgementIsEarned == Debate!JudgementIsEarned

(* Every run ends: a detached panel in a status that room_status shows, a
   claude call, a round whatever its models do; and the page catches up with
   the room. *)
EveryRunEnds ==
    /\ Detached!FusionEnds /\ Turns!TurnsEnd /\ Page!TranscriptCatchesUp
    /\ []<>(which = "claude" => Claude!Ended)

=============================================================================
