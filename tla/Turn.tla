-------------------------------- MODULE Turn --------------------------------
(***************************************************************************)
(* What happens inside a round of a room: chitta_bridge/rooms.py,          *)
(* _participant_respond with _resolve_vis, _build_thread_context and the   *)
(* tool loop.  A participant is shown a part of the transcript, may call   *)
(* tools, whose results are logged in the transcript at once, and answers; *)
(* a verifier is asked again when it cites too little.  Module Room has    *)
(* the rounds, their numbers and the retries around this.                  *)
(*                                                                         *)
(* Of a message only its author and kind are kept.  A "quote" is a message *)
(* of MODERATOR or SUMMARY that carries what the author claimed: the       *)
(* challenge between two rounds, or the summary of a round.  Operators     *)
(* named Bug_... are seeded faults of the definition that follows them.    *)
(***************************************************************************)
EXTENDS Integers, FiniteSets

CONSTANTS
  Names,          \* participants
  Speakers,       \* those that may still speak; the others have, in round 1, and
                  \* their souls' max_rounds is 1
  Settings,       \* the roles and visibility matrices the room may be created with
  ToolTurns,      \* tool calls each participant's soul allows in a turn
  MaxRetries,     \* how often an under-cited answer is asked for again
  Flags,          \* the flags runs are started with
  Verbatim,       \* verbatim_rounds: older rounds are summarised, 0 for never
  MaxRounds       \* bound on the rounds of the room

Rounds  == 1 .. MaxRounds
Kinds   == {"turn", "tool", "quote"}
Entries == [says : {"unset", "all", "none", "list"}, names : SUBSET Names]
Roles   == {"none", "thinker", "worker", "verifier"}
Words(S) == S \X {"turn"}
Waiting == [at |-> "idle", tries |-> 0, seen |-> {}, cited |-> FALSE]

VARIABLES
  role,       \* room.roles
  matrix,     \* room.visibility: per round, what it says of a participant
  flag,       \* this run's blind_first_round / sparse_topology
  mode,       \* how this run asks: "idle" when no run is in progress
  round, first,    \* the round, and whether it is the first of the run
  said,       \* messages without a turn_key: tool logs and errors
  turns,      \* committed turns; under: of a verifier that cites too little
  summed,     \* rounds of which the transcript has only a summary
  quoted,     \* those whose claims a challenge has quoted
  ledger,     \* UNVERIFIED entries of the claim ledger
  cits,       \* retry_counts[<name>_cit_r<round>]
  turn        \* how far each participant is in this round

run  == <<flag, mode, round, first>>
talk == <<turns, summed, quoted>>
vars == <<role, matrix, run, said, talk, ledger, cits, turn>>

TypeOK ==
  /\ role \in [Names -> Roles] /\ matrix \in [Rounds -> [Names -> Entries]]
  /\ flag \in {"open", "blind", "sparse"} /\ mode \in {"idle", "sequential", "parallel"}
  /\ round \in Rounds /\ first \in BOOLEAN
  /\ said \subseteq Names \X Kinds /\ summed \subseteq Rounds /\ quoted \subseteq Names
  /\ turns \subseteq [by : Names, round : Rounds, under : BOOLEAN]
  /\ ledger \subseteq Names \X Rounds
  /\ cits \in [Names -> [Rounds -> 0 .. MaxRetries]]
  /\ turn \in [Speakers ->
                [at : {"idle", "sent", "tool", "cite", "answered", "absent", "done"},
                 tries : Nat, seen : SUBSET (Names \X Kinds), cited : BOOLEAN]]
  /\ \A n \in Speakers : turn[n].tries <= ToolTurns[n]

Init ==
  /\ \E s \in Settings : role = s.role /\ matrix = s.matrix
  /\ flag = "open" /\ mode = "idle" /\ round = 1 /\ first = TRUE
  /\ turns = {[by |-> n, round |-> 1, under |-> FALSE] : n \in Names \ Speakers}
  /\ said = {} /\ summed = {} /\ quoted = {} /\ ledger = {}
  /\ cits = [n \in Names |-> [r \in Rounds |-> 0]]
  /\ turn = [n \in Speakers |-> Waiting]

-----------------------------------------------------------------------------
(* _resolve_vis: the matrix decides before the role, the role before the   *)
(* flags.  A set of names does not match the tool logs, whose author is    *)
(* "name[tool:...]"; and a worker nobody thinks for is shown everything.   *)

Cast(r)   == {n \in Names : role[n] = r}
All       == Names \X {"turn", "tool"}

Bug_Scope(n) ==
  IF role[n] = "worker" THEN IF Cast("thinker") = {} THEN All ELSE Words(Cast("thinker"))
  ELSE IF flag = "sparse" \/ (flag = "blind" /\ first) THEN {} ELSE All

Scope(n) ==
  CASE role[n] = "worker" -> IF Cast("thinker") = {} THEN All ELSE Words(Cast("thinker"))
    [] role[n] = "verifier" /\ Cast("verifier") # {n} -> Words((Names \ Cast("verifier")))
    [] OTHER -> IF flag = "sparse" \/ (flag = "blind" /\ first) THEN {} ELSE All

Visible(n) ==
  LET entry == matrix[round][n] IN
  CASE entry.says = "all"  -> All
    [] entry.says = "none" -> {}
    [] entry.says = "list" -> Words(entry.names)
    [] OTHER -> Scope(n)

(* What _build_thread_context finds in room.messages.                      *)
Authors(R)  == {t.by : t \in {u \in turns : u.round \in R}}
Quotes      == (quoted \cup Authors(summed)) \X {"quote"}
Transcript  == said \cup Words(Authors(Rounds \ summed)) \cup Quotes

(* MODERATOR and SUMMARY pass in every mode.                               *)
Shown(n) == Transcript \cap (Visible(n) \cup Quotes)

-----------------------------------------------------------------------------
(* room_run.  Its first round is the one after those with turns.           *)
Committed == {0} \cup {t.round : t \in turns}

Run(m, f) ==
  /\ mode = "idle"
  /\ \E r \in Rounds : /\ \A s \in Committed : s < r
                       /\ r - 1 \in Committed
                       /\ round' = r
  /\ mode' = m /\ flag' = f /\ first' = TRUE
  /\ UNCHANGED <<role, matrix, said, talk, ledger, cits, turn>>

At(n, where) == turn[n].at = where

Becomes(n, where) == turn' = [turn EXCEPT ![n].at = where]

(* The context is built before the first call.  A participant that seeds   *)
(* its memories first builds it later than the others of its round.        *)
Ask(n) ==
  /\ mode # "idle" /\ At(n, "idle")
  /\ mode = "sequential" => \A m \in Speakers \ {n} : At(m, "idle") \/ At(m, "done")
  /\ turn' = [turn EXCEPT ![n].at = "sent", ![n].seen = Shown(n)]
  /\ UNCHANGED <<role, matrix, run, said, talk, ledger, cits>>

(* The reply is a call of a tool the soul has, and turns are left.         *)
CallsTool(n) ==
  /\ At(n, "sent") /\ turn[n].tries < ToolTurns[n]
  /\ Becomes(n, "tool")
  /\ UNCHANGED <<role, matrix, run, said, talk, ledger, cits>>

(* The tool's result, or its error, is logged and the model asked again.   *)
Bug_ToolRuns(n) ==
  /\ At(n, "tool")
  /\ said' = said \cup {<<n, "tool">>}
  /\ Becomes(n, "sent")
  /\ UNCHANGED <<role, matrix, run, talk, ledger, cits>>

ToolRuns(n) ==
  /\ At(n, "tool")
  /\ said' = said \cup {<<n, "tool">>}
  /\ turn' = [turn EXCEPT ![n].at = "sent", ![n].tries = @ + 1]
  /\ UNCHANGED <<role, matrix, run, talk, ledger, cits>>

(* An answer that is kept; a verifier's goes to the ledger when it still   *)
(* cites too little.                                                       *)
UnderCited(n, cited) == role[n] = "verifier" /\ ~cited

(* Whether an answer cites enough; it only matters for a verifier.         *)
Scores(n) == IF role[n] = "verifier" THEN BOOLEAN ELSE {FALSE}

Retries(n) == cits[n][round]

Bug_Settles(n, cited) ==
  /\ turn' = [turn EXCEPT ![n] = [Waiting EXCEPT !.at = "answered", !.cited = cited]]
  /\ ledger' = IF UnderCited(n, cited) /\ Retries(n) = MaxRetries
               THEN ledger \cup {<<n, round>>} ELSE ledger

Settles(n, cited) ==
  /\ turn' = [turn EXCEPT ![n] = [Waiting EXCEPT !.at = "answered", !.cited = cited]]
  /\ ledger' = IF UnderCited(n, cited) THEN ledger \cup {<<n, round>>} ELSE ledger

(* It is asked again while retries are left: they count per round, over    *)
(* all attempts at that round.                                             *)
AsksAgain(n) ==
  /\ cits' = [cits EXCEPT ![n][round] = @ + 1]
  /\ Becomes(n, "cite")
  /\ UNCHANGED ledger

Bug_Judges(n, cited) ==
  IF UnderCited(n, cited) /\ Retries(n) <= MaxRetries THEN AsksAgain(n)
  ELSE Settles(n, cited) /\ UNCHANGED cits

Judges(n, cited) ==
  IF UnderCited(n, cited) /\ Retries(n) < MaxRetries THEN AsksAgain(n)
  ELSE Settles(n, cited) /\ UNCHANGED cits

Answers(n, cited) ==
  /\ At(n, "sent") /\ Judges(n, cited)
  /\ UNCHANGED <<role, matrix, run, said, talk>>

(* The revision replaces the answer and is scored again ...                *)
Revises(n, cited) ==
  /\ At(n, "cite") /\ Judges(n, cited)
  /\ UNCHANGED <<role, matrix, run, said, talk>>

(* ... or is an error or empty, and the answer stays what it was.          *)
RevisionFails(n) ==
  /\ At(n, "cite") /\ Settles(n, FALSE)
  /\ UNCHANGED <<role, matrix, run, said, talk, cits>>

(* An error leaves the turn open (its retries: module Room).               *)
Fails(n) ==
  /\ At(n, "sent") /\ turn' = [turn EXCEPT ![n] = [Waiting EXCEPT !.at = "absent"]]
  /\ UNCHANGED <<role, matrix, run, said, talk, ledger, cits>>

-----------------------------------------------------------------------------
(* run_rounds: what came back is appended, one participant at a time or    *)
(* all at the end.                                                         *)
Final(n) == At(n, "answered") \/ At(n, "absent")

NewTurns(S) ==
  {[by |-> n, round |-> round, under |-> UnderCited(n, turn[n].cited)] :
     n \in {m \in S : At(m, "answered")}}

Commit(S) ==
  /\ mode # "idle" /\ \A n \in S : Final(n)
  /\ mode = "parallel" => S = Speakers
  /\ turns' = turns \cup NewTurns(S)
  /\ said' = said \cup Words({n \in S : At(n, "absent")})
  /\ turn' = [n \in Speakers |-> IF n \in S THEN [Waiting EXCEPT !.at = "done"] ELSE turn[n]]
  /\ UNCHANGED <<role, matrix, run, summed, quoted, ledger, cits>>

(* When answers grow alike after the first round, one that is not a        *)
(* verifier is made one.                                                   *)
Reassigned ==
  {role} \cup
  {[role EXCEPT ![n] = "verifier"] :
     n \in {m \in Names : ~first /\ \E t \in turns : t.by = m /\ t.round = round}}

(* _compress_round: of the round that leaves the verbatim window only its  *)
(* summary stays, unless the model that writes it fails.                   *)
Aged == {r \in Rounds : Verbatim # 0 /\ r = round - Verbatim /\ Authors({r}) # {}}

(* The challenge before the next round quotes the claims it finds in the   *)
(* turns of this one.                                                      *)
Challenges == \E claimants \in SUBSET Authors({round}) : quoted' = quoted \cup claimants

EndRound ==
  /\ mode # "idle" /\ \A n \in Speakers : At(n, "done")
  /\ role' \in Reassigned
  /\ turn' = [n \in Speakers |-> Waiting]
  /\ summed' \in {summed, summed \cup Aged}
  /\ \/ round < MaxRounds /\ round' = round + 1 /\ UNCHANGED mode
        /\ first' = FALSE /\ UNCHANGED flag
        /\ Challenges
     \/ mode' = "idle" /\ flag' = "open" /\ round' = 1 /\ first' = TRUE
        /\ UNCHANGED quoted
  /\ UNCHANGED <<matrix, said, turns, ledger, cits>>

(* The call is cancelled: what has not been committed is gone.             *)
Cancel ==
  /\ mode # "idle"
  /\ mode' = "idle" /\ turn' = [n \in Speakers |-> Waiting]
  /\ flag' = "open" /\ round' = 1 /\ first' = TRUE
  /\ UNCHANGED <<role, matrix, said, talk, ledger, cits>>

Step ==
  \/ \E n \in Speakers :
       \/ Ask(n) \/ CallsTool(n) \/ ToolRuns(n) \/ RevisionFails(n) \/ Fails(n) \/ Commit({n})
       \/ \E cited \in Scores(n) : Answers(n, cited) \/ Revises(n, cited)
  \/ Commit(Speakers) \/ EndRound

Next ==
  \/ \E m \in {"sequential", "parallel"}, f \in Flags : Run(m, f)
  \/ Step \/ Cancel

(* Every call has a timeout, so a run keeps taking steps.                  *)
Fairness == WF_vars(Step)
Spec     == Init /\ [][Next]_vars /\ Fairness
-----------------------------------------------------------------------------
(* Properties.                                                             *)

(* Whom the roles keep apart: verifiers, and workers that have a thinker.  *)
ArePeers(n, m) ==
  /\ n # m /\ role[n] = role[m]
  /\ role[n] = "verifier" \/ (role[n] = "worker" /\ Cast("thinker") # {})

(* The matrix asks for it; a list of names does not match tool logs.       *)
Granted(n, m, k) ==
  LET entry == matrix[round][n] IN
  entry.says = "all" \/ (entry.says = "list" /\ k = "turn" /\ m \in entry.names)

(* What ROLE_PRESETS promise ("Other Workers cannot see your output"), as  *)
(* far as the code goes: a worker that has a thinker is never shown the    *)
(* messages and tool logs of another worker, nor a verifier those of       *)
(* another verifier, in any mode, unless the room's matrix asks for it.    *)
(* Quotes reach everybody, but only of those who have had a turn in an     *)
(* earlier round: nobody reads a challenge before its round is over.       *)
PeersAreApart ==
  \A n \in Speakers, m \in Names :
    /\ \A k \in {"turn", "tool"} : ArePeers(n, m) /\ ~Granted(n, m, k) => <<m, k>> \notin turn[n].seen
    /\ <<m, "quote">> \in turn[n].seen => \E t \in turns : t.by = m /\ t.round < round

(* A verifier's turn that cites too little never enters the transcript     *)
(* without its UNVERIFIED entry, however the retries went and however      *)
(* often the round was cancelled and run again.                            *)
UnderCitedIsFlagged == \A t \in turns : t.under => <<t.by, t.round>> \in ledger

(* The roles mean what they promise: independence and citations.           *)
RolesAreKept == PeersAreApart /\ UnderCitedIsFlagged

(* A round ends, though models may go on calling tools and citing nothing. *)
TurnsEnd == []<>(mode = "idle")
=============================================================================
