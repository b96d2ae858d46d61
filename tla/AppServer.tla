------------------------------ MODULE AppServer ------------------------------
(***************************************************************************)
(* The client of the codex app-server and its callers: run_task,           *)
(* get_singleton and the class CodexAppServer                              *)
(* (chitta_bridge/backends/codex.py, codex_app_server.py).                 *)
(*                                                                         *)
(* A caller runs one task.  It gets the server object under the singleton  *)
(* lock, starts the process under the object's start lock unless it runs,  *)
(* opens a thread, starts a turn and waits for its end; whatever fails, it *)
(* executes the task without the server.  Both locks are fair queues whose *)
(* head is the holder.                                                     *)
(*                                                                         *)
(* Operators named Bug_... are seeded faults of the definition that        *)
(* follows them; nothing in the specification uses them.                   *)
(***************************************************************************)
EXTENDS Naturals, Sequences, FiniteSets, SequencesExt

CONSTANTS
  Callers,        \* tasks that are run, one by each caller
  MaxDeaths,      \* bound on the times a process dies by itself
  MaxErrors,      \* bound on the error notifications of the server
  MaxCancels      \* bound on the callers that are cancelled

ASSUME AppServerAssumption ==
  /\ IsFiniteSet(Callers) /\ Callers # {}
  /\ MaxDeaths \in Nat /\ MaxErrors \in Nat /\ MaxCancels \in Nat

Servers == 1 .. Cardinality(Callers)   \* a caller makes one object at most
NoServer == 0

(* Requests carry an id; the id is all that ties an answer to a caller.    *)
Ids     == 0 .. (3 * Cardinality(Callers))   \* a caller makes three requests at most
Request == [id : Ids, by : Callers, what : {"initialize", "thread", "turn"}, thread : Callers]

VARIABLES
  pc,             \* where each caller is
  then,           \* what follows the tear-down a caller is in
  mine,           \* the server object a caller uses
  fut,            \* the future of the caller's request
  thread,         \* the thread a caller was given, named after whose request made it
  turn,           \* the future of the caller's turn
  single, slock,  \* _SINGLETON and the queue for its lock
  srv, startq,    \* the server objects and the queues for their start locks
  wire,           \* per object: requests its process has and did not answer
  live,           \* per object: threads on which its process runs a turn
  budget          \* deaths, errors and cancellations still allowed

call   == <<pc, then, mine>>
wait   == <<fut, thread, turn>>
locks  == <<single, slock, startq>>
server == <<srv, wire, live>>
vars   == <<call, wait, locks, server, budget>>

Server == [proc : {"none", "up", "deaf", "leaving", "dead"},
           reader : {"no", "runs", "stops"}, started : BOOLEAN, next : Ids,
           pending : SUBSET [id : Ids, by : Callers],
           turns : SUBSET [thread : Callers, by : Callers]]
NewServer == [proc |-> "none", reader |-> "no", started |-> FALSE, next |-> 0,
              pending |-> {}, turns |-> {}]
Future == {"none", "wait", "ok", "err"}

TypeOK ==
  /\ pc \in [Callers -> {"idle", "single", "closing", "starting", "reader", "exit", "boot",
                         "init", "thread", "ack", "turn", "exec", "done", "answered"}]
  /\ then \in [Callers -> {"none", "close", "boot", "fail"}]
  /\ mine \in [Callers -> Servers \cup {NoServer}]
  /\ fut \in [Callers -> Future] /\ turn \in [Callers -> Future]
  /\ thread \in [Callers -> SUBSET Callers]
  /\ single \in Servers \cup {NoServer}
  /\ slock \in Seq(Callers) /\ startq \in [Servers -> Seq(Callers)]
  /\ srv \in [Servers -> Server]
  /\ wire \in [Servers -> SUBSET Request]
  /\ live \in [Servers -> SUBSET Callers]
  /\ budget \in [deaths : 0 .. MaxDeaths, errors : 0 .. MaxErrors, cancels : 0 .. MaxCancels]

Init ==
  /\ pc = [c \in Callers |-> "idle"] /\ then = [c \in Callers |-> "none"]
  /\ mine = [c \in Callers |-> NoServer]
  /\ fut = [c \in Callers |-> "none"] /\ turn = [c \in Callers |-> "none"]
  /\ thread = [c \in Callers |-> {}]
  /\ single = NoServer /\ slock = <<>> /\ startq = [s \in Servers |-> <<>>]
  /\ srv = [s \in Servers |-> NewServer]
  /\ wire = [s \in Servers |-> {}] /\ live = [s \in Servers |-> {}]
  /\ budget = [deaths |-> MaxDeaths, errors |-> MaxErrors, cancels |-> MaxCancels]

-----------------------------------------------------------------------------
(* Helpers.                                                                *)

Alive(s) == srv[s].proc \in {"up", "deaf", "leaving"}   \* no exit code yet

Unsure(s) == srv[s].proc # "up"                         \* a write may fail

First(q, c) == q # <<>> /\ Head(q) = c

At(c, from, to) == pc[c] = from /\ pc' = [pc EXCEPT ![c] = to]

(* Everything that waits on the server is told that it failed.             *)
Bug_Failed(f, waiters) == f
Failed(f, waiters) == [c \in Callers |-> IF c \in waiters /\ f[c] = "wait" THEN "err" ELSE f[c]]
FailAll(s) ==
  /\ fut' = Failed(fut, {p.by : p \in srv[s].pending})
  /\ turn' = Failed(turn, {t.by : t \in srv[s].turns})

(* Number, register and write a request of caller c: how the record of the *)
(* server and its inbox look afterwards.  A process that no longer reads   *)
(* takes it and never answers.                                             *)
Bug_NextId(r) == r.next
NextId(r) == r.next + 1

Register(r, c) == [r EXCEPT !.next = NextId(r), !.pending = @ \cup {[id |-> r.next, by |-> c]}]
Written(s, r, c, what, t) ==
  IF r.proc = "up" THEN wire[s] \cup {[id |-> r.next, by |-> c, what |-> what, thread |-> t]}
  ELSE wire[s]

(* The finally blocks of _request and run_turn.                            *)
Unregister(r, c) == [r EXCEPT !.pending = {p \in @ : p.by # c}]
PopTurn(r, c)    == [r EXCEPT !.turns = {t \in @ : t.thread \notin thread[c]}]

-----------------------------------------------------------------------------
(* get_singleton.                                                          *)

Ask(c) == /\ At(c, "idle", "single") /\ slock' = Append(slock, c)
          /\ UNCHANGED <<then, mine, wait, single, startq, server, budget>>

Fresh == single + 1

(* A new object; the caller goes on to its start lock without a pause.     *)
UseFresh(c) ==
  /\ single' = Fresh /\ slock' = Tail(slock)
  /\ mine' = [mine EXCEPT ![c] = Fresh]

FirstServer(c) ==
  /\ At(c, "single", "starting") /\ First(slock, c) /\ single = NoServer
  /\ UseFresh(c) /\ startq' = [startq EXCEPT ![Fresh] = Append(@, c)]
  /\ UNCHANGED <<then, wait, server, budget>>

SameServer(c) ==
  /\ At(c, "single", "starting") /\ First(slock, c)
  /\ single # NoServer /\ Alive(single)
  /\ slock' = Tail(slock) /\ mine' = [mine EXCEPT ![c] = single]
  /\ startq' = [startq EXCEPT ![single] = Append(@, c)]
  /\ UNCHANGED <<then, wait, single, server, budget>>

(* An object whose process does not run (any more, or yet) is closed first.*)
Bug_OtherServer(c) ==
  /\ At(c, "single", "starting") /\ First(slock, c)
  /\ single # NoServer /\ ~Alive(single)
  /\ UseFresh(c) /\ startq' = [startq EXCEPT ![Fresh] = Append(@, c)]
  /\ UNCHANGED <<then, wait, server, budget>>

OtherServer(c) ==
  /\ At(c, "single", "closing") /\ First(slock, c)
  /\ single # NoServer /\ ~Alive(single)
  /\ mine' = [mine EXCEPT ![c] = single]
  /\ startq' = [startq EXCEPT ![single] = Append(@, c)]
  /\ UNCHANGED <<then, wait, single, slock, server, budget>>

-----------------------------------------------------------------------------
(* _teardown_locked, by the holder of the start lock of s: fail what is in *)
(* flight, stop the reader, terminate the process and wait for it.         *)

TearDown(c, s, next) ==
  /\ then' = [then EXCEPT ![c] = next]
  /\ fut' = [Failed(fut, {p.by : p \in srv[s].pending}) EXCEPT ![c] = "none"]
  /\ turn' = Failed(turn, {t.by : t \in srv[s].turns})
  /\ srv' = [srv EXCEPT ![s] = [@ EXCEPT !.pending = {}, !.turns = {},
                                         !.reader = IF srv[s].reader = "no" THEN "no" ELSE "stops"]]

CloseBegins(c) ==
  /\ At(c, "closing", "reader") /\ First(startq[mine[c]], c)
  /\ TearDown(c, mine[c], "close")
  /\ UNCHANGED <<mine, thread, locks, wire, live, budget>>

ReaderStops(c) ==
  /\ At(c, "reader", "exit") /\ srv[mine[c]].reader = "no"
  /\ srv' = [srv EXCEPT ![mine[c]].proc = IF Alive(mine[c]) THEN "leaving" ELSE @]
  /\ UNCHANGED <<then, mine, wait, locks, wire, live, budget>>

(* The process is gone, or killed after five seconds.                      *)
Cleared(s) == [srv EXCEPT ![s].proc = "none", ![s].started = FALSE]

ServerExits(c) ==
  LET s == mine[c]
  IN  /\ pc[c] = "exit"
      /\ srv' = Cleared(s) /\ wire' = [wire EXCEPT ![s] = {}] /\ live' = [live EXCEPT ![s] = {}]
      /\ then' = [then EXCEPT ![c] = "none"]
      /\ \/ /\ then[c] = "close" /\ UseFresh(c)
            /\ pc' = [pc EXCEPT ![c] = "starting"]
            /\ startq' = [startq EXCEPT ![s] = Tail(@), ![Fresh] = Append(@, c)]
         \/ /\ then[c] = "boot" /\ pc' = [pc EXCEPT ![c] = "boot"]
            /\ UNCHANGED <<mine, locks>>
         \/ /\ then[c] = "fail" /\ pc' = [pc EXCEPT ![c] = "exec"]
            /\ startq' = [startq EXCEPT ![s] = Tail(@)]
            /\ UNCHANGED <<mine, single, slock>>
      /\ UNCHANGED <<wait, budget>>

-----------------------------------------------------------------------------
(* ensure_started and _spawn, under the start lock.                        *)

Ready(s) == srv[s].started /\ Alive(s)

(* start_thread goes on to its request without a pause.                    *)
OpenThread(c, s, r) ==
  /\ srv' = [srv EXCEPT ![s] = Register(r, c)]
  /\ wire' = [wire EXCEPT ![s] = Written(s, r, c, "thread", c)]
  /\ fut' = [fut EXCEPT ![c] = "wait"]

AlreadyStarted(c) ==
  LET s == mine[c]
  IN  /\ At(c, "starting", "thread") /\ First(startq[s], c) /\ Ready(s)
      /\ startq' = [startq EXCEPT ![s] = Tail(@)]
      /\ OpenThread(c, s, srv[s])
      /\ UNCHANGED <<then, mine, thread, turn, single, slock, live, budget>>

Respawn(c) ==
  /\ At(c, "starting", "reader") /\ First(startq[mine[c]], c) /\ ~Ready(mine[c])
  /\ TearDown(c, mine[c], "boot")
  /\ UNCHANGED <<mine, thread, locks, wire, live, budget>>

(* Starting a process takes many passes of the event loop: by then every   *)
(* caller that was given a result has acted on it.                         *)
Settled(c) == \A d \in Callers \ {c} : pc[d] \in {"thread", "ack", "turn"} => fut[d] \notin {"ok", "err"}

Boot(c) ==
  LET s == mine[c]
      r == [srv[s] EXCEPT !.proc = "up", !.reader = "runs", !.pending = {}, !.turns = {}]
  IN  /\ At(c, "boot", "init") /\ Settled(c)
      /\ srv' = [srv EXCEPT ![s] = Register(r, c)]
      /\ wire' = [wire EXCEPT ![s] = Written(s, r, c, "initialize", c)]
      /\ fut' = [fut EXCEPT ![c] = "wait"]
      /\ UNCHANGED <<then, mine, thread, turn, locks, live, budget>>

SpawnFails(c) ==
  /\ At(c, "boot", "exec")
  /\ startq' = [startq EXCEPT ![mine[c]] = Tail(@)]
  /\ UNCHANGED <<then, mine, wait, single, slock, server, budget>>

Initialized(c) ==
  LET s == mine[c]
  IN  /\ pc[c] = "init" /\ fut[c] = "ok"
      /\ \/ /\ Alive(s) /\ pc' = [pc EXCEPT ![c] = "thread"]
            /\ OpenThread(c, s, [Unregister(srv[s], c) EXCEPT !.started = TRUE])
         \/ /\ Unsure(s) /\ pc' = [pc EXCEPT ![c] = "exec"]
            /\ srv' = [srv EXCEPT ![s] = Unregister(@, c)]
            /\ fut' = [fut EXCEPT ![c] = "none"]
            /\ UNCHANGED wire
      /\ startq' = [startq EXCEPT ![s] = Tail(@)]
      /\ UNCHANGED <<then, mine, thread, turn, single, slock, live, budget>>

(* An error, the end of the process or init_timeout.                       *)
InitFails(c) ==
  /\ At(c, "init", "reader") /\ fut[c] # "ok"
  /\ TearDown(c, mine[c], "fail")
  /\ UNCHANGED <<mine, thread, locks, wire, live, budget>>

-----------------------------------------------------------------------------
(* run_turn.                                                               *)

(* The turn is registered before it is asked for: its end may come early.  *)
Registered(r, c) ==
  [r EXCEPT !.turns = {t \in @ : t.thread \notin thread[c]}
                        \cup {[thread |-> t, by |-> c] : t \in thread[c]}]

StartTurn(c) ==
  LET s == mine[c]
      r == Registered(Unregister(srv[s], c), c)
  IN  /\ At(c, "thread", "ack") /\ fut[c] = "ok" /\ Alive(s)
      /\ srv' = [srv EXCEPT ![s] = Register(r, c)]
      /\ \E t \in thread[c] :
           /\ wire' = [wire EXCEPT ![s] = Written(s, r, c, "turn", t)]
           /\ live' = [live EXCEPT ![s] = IF Unsure(s) THEN @ ELSE @ \cup {t}]
      /\ fut' = [fut EXCEPT ![c] = "wait"] /\ turn' = [turn EXCEPT ![c] = "wait"]
      /\ UNCHANGED <<then, mine, thread, locks, budget>>

Acked(c) ==
  /\ At(c, "ack", "turn") /\ fut[c] = "ok"
  /\ fut' = [fut EXCEPT ![c] = "none"]
  /\ srv' = [srv EXCEPT ![mine[c]] = Unregister(@, c)]
  /\ UNCHANGED <<then, mine, thread, turn, locks, wire, live, budget>>

Leave(c) ==
  /\ srv' = [srv EXCEPT ![mine[c]] = PopTurn(Unregister(@, c), c)]
  /\ fut' = [fut EXCEPT ![c] = "none"] /\ turn' = [turn EXCEPT ![c] = "none"]

Answered(c) ==
  /\ At(c, "turn", "answered") /\ turn[c] = "ok"
  /\ Leave(c) /\ UNCHANGED <<then, mine, thread, locks, wire, live, budget>>

(* An error, a timeout, a write that failed, or a turn that ended without  *)
(* a message.                                                              *)
GivesUp(c) ==
  /\ \/ At(c, "thread", "exec") /\ (fut[c] # "ok" \/ Unsure(mine[c]))
     \/ At(c, "ack", "exec") /\ fut[c] # "ok"
     \/ At(c, "turn", "exec")
  /\ Leave(c) /\ UNCHANGED <<then, mine, thread, locks, wire, live, budget>>

Executes(c) ==
  /\ At(c, "exec", "done")
  /\ UNCHANGED <<then, mine, wait, locks, server, budget>>

-----------------------------------------------------------------------------
(* The caller's asyncio task is cancelled: the locks it holds or waits for *)
(* are released and its entries popped, but a tear-down stays half done.   *)
Cancelled(c) ==
  /\ pc[c] \notin {"idle", "done", "answered"} /\ budget.cancels > 0
  /\ budget' = [budget EXCEPT !.cancels = @ - 1]
  /\ pc' = [pc EXCEPT ![c] = "done"] /\ then' = [then EXCEPT ![c] = "none"]
  /\ slock' = RemoveFirst(slock, c)
  /\ startq' = [s \in Servers |-> RemoveFirst(startq[s], c)]
  /\ IF mine[c] = NoServer THEN UNCHANGED <<srv, fut, turn>> ELSE Leave(c)
  /\ UNCHANGED <<mine, thread, single, wire, live>>

-----------------------------------------------------------------------------
(* The process at the other end, and the read loop.                        *)

(* The line that answers q reaches the reader; the pending entry with its  *)
(* id, if there still is one, gets the result.                             *)
Waiters(s, q) == {p.by : p \in {e \in srv[s].pending : e.id = q.id /\ fut[e.by] = "wait"}}

Response(s, q, ok) ==
  /\ q \in wire[s] /\ srv[s].reader = "runs"
  /\ wire' = [wire EXCEPT ![s] = @ \ {q}]
  /\ fut' = [c \in Callers |-> IF c \notin Waiters(s, q) THEN fut[c]
                               ELSE IF ok THEN "ok" ELSE "err"]
  /\ thread' = [c \in Callers |-> IF c \in Waiters(s, q) /\ ok /\ pc[c] = "thread"
                                  THEN {q.by} ELSE thread[c]]
  /\ live' = IF ~ok /\ q.what = "turn" THEN [live EXCEPT ![s] = @ \ {q.thread}] ELSE live
  /\ UNCHANGED <<call, turn, locks, srv, budget>>

(* turn/completed for thread t, possibly before the turn is acknowledged,  *)
(* or when nobody waits for it any more.                                   *)
Completed(s, t) ==
  /\ srv[s].reader = "runs" /\ t \in live[s]
  /\ live' = [live EXCEPT ![s] = @ \ {t}]
  /\ turn' = [c \in Callers |->
                IF turn[c] = "wait" /\ [thread |-> t, by |-> c] \in srv[s].turns THEN "ok"
                ELSE turn[c]]
  /\ UNCHANGED <<call, fut, thread, locks, srv, wire, budget>>

(* An error notification fails every turn in flight.                       *)
ErrorSent(s) ==
  /\ srv[s].reader = "runs" /\ srv[s].proc = "up" /\ budget.errors > 0
  /\ budget' = [budget EXCEPT !.errors = @ - 1]
  /\ turn' = Failed(turn, {t.by : t \in srv[s].turns})
  /\ UNCHANGED <<call, fut, thread, locks, server>>

(* The process ends; its exit code becomes known later.                    *)
Dies(s) ==
  /\ srv[s].proc = "up" /\ budget.deaths > 0
  /\ budget' = [budget EXCEPT !.deaths = @ - 1]
  /\ srv' = [srv EXCEPT ![s].proc = "deaf"]
  /\ UNCHANGED <<call, wait, locks, wire, live>>

Reaped(s) ==
  /\ srv[s].proc \in {"deaf", "leaving"}
  /\ srv' = [srv EXCEPT ![s].proc = "dead"]
  /\ UNCHANGED <<call, wait, locks, wire, live, budget>>

(* End of file, or cancelled by a tear-down: the last thing that the read  *)
(* loop does is to fail whatever is in flight by then.                     *)
ReaderEnds(s) ==
  /\ \/ srv[s].reader = "runs" /\ srv[s].proc \in {"deaf", "dead"}
     \/ srv[s].reader = "stops"
  /\ FailAll(s)
  /\ srv' = [srv EXCEPT ![s].reader = "no"]
  /\ UNCHANGED <<call, thread, locks, wire, live, budget>>

-----------------------------------------------------------------------------
Step(c) ==
  \/ FirstServer(c) \/ SameServer(c) \/ OtherServer(c)
  \/ CloseBegins(c) \/ ReaderStops(c) \/ ServerExits(c)
  \/ AlreadyStarted(c) \/ Respawn(c) \/ Boot(c) \/ SpawnFails(c)
  \/ Initialized(c) \/ InitFails(c)
  \/ StartTurn(c) \/ Acked(c) \/ Answered(c) \/ GivesUp(c) \/ Executes(c)

Process(s) ==
  \/ \E q \in wire[s], ok \in BOOLEAN : Response(s, q, ok)
  \/ \E t \in Callers : Completed(s, t)
  \/ ErrorSent(s) \/ Dies(s) \/ Reaped(s) \/ ReaderEnds(s)

Next ==
  \/ \E c \in Callers : Ask(c) \/ Step(c) \/ Cancelled(c)
  \/ \E s \in Servers : Process(s)

Spec == Init /\ [][Next]_vars

(* The event loop runs what is ready, and every wait has a timeout: eight  *)
(* seconds for initialize, five for the exit of the process, 30 and 60 for *)
(* thread and turn, an idle and a total limit for the answer.              *)
(* A read loop that is cancelled ends.                                     *)
FairSpec ==
  /\ Spec
  /\ \A c \in Callers : WF_vars(Step(c))
  /\ \A s \in Servers : WF_vars(ReaderEnds(s))

-----------------------------------------------------------------------------
(* Properties.                                                             *)

(* There is one app-server process per bridge: whatever was discarded,     *)
(* cancelled or restarted, no second process runs that nobody has told to  *)
(* end (get_singleton, ensure_started).                                    *)
OneProcess == Cardinality({s \in Servers : srv[s].proc \in {"up", "deaf"}}) <= 1

(* Whoever waits for a request or a turn is registered with the server:    *)
(* what clears _pending and _turns has failed their futures before, and no *)
(* waiter is left to its timeout (_teardown_locked, _spawn, _request).     *)
WaitersAreKnown ==
  \A c \in Callers :
    /\ fut[c] = "wait" => \E p \in srv[mine[c]].pending : p.by = c
    /\ turn[c] = "wait" => \E t \in srv[mine[c]].turns : t.by = c

(* The process is persistent: one that is started and runs, with its       *)
(* reader, is not closed by a caller (get_singleton).                      *)
ServerIsKept ==
  [][\A s \in Servers :
       srv[s].started /\ srv[s].proc = "up" /\ srv[s].reader = "runs" =>
         srv'[s].reader = "runs" \/ srv'[s].proc # "up"]_vars

(* The client implements Calls: a task is answered by its own turn, or     *)
(* given up and executed afresh, once, and always gets that far.           *)
Status(c) == CASE pc[c] \in {"idle", "exec"} -> pc[c]
               [] pc[c] \in {"done", "answered"} -> "done"
               [] OTHER -> "trying"
Abstract == INSTANCE Calls WITH
  status <- [c \in Callers |-> Status(c)],
  reply  <- [c \in Callers |-> IF pc[c] = "answered" THEN thread[c] ELSE {}]
Implements == Abstract!Spec

(* The part of it that is no promise of progress, which needs no fairness. *)
AnswersAreOwn == Abstract!Protocol
=============================================================================
