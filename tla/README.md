# Verification of chitta-bridge

TLA+ models of the parts of `chitta_bridge` that keep state across awaits, processes and
restarts, the TLC runs that check them on small instances, and theorems about them that
TLAPS proves for every value of the constants. Paths below are relative to the repository.

## 1. The system

chitta-bridge is an MCP server (stdio or streamable HTTP) through which one model talks to
others: it starts codex, claude and local models, lets them discuss in rooms, runs jobs on a
schedule and gives them tools. It is one asyncio process; whatever is not separated by an
`await` is atomic, and several bridges may share the files under the home directory.

| component | code | state | operations | what is hard | module |
|---|---|---|---|---|---|
| job scheduler | `scheduler.py` | SQLite tables `job_state`, `job_runs`; lock file; configs, queue and tasks in memory | start, stop, tick, worker, reload, SLURM reconcile, run now, pause, resume | crashes between two rows, restarts, hand-over of the lock, full queue, chains, late sacct answers | `Scheduler` |
| room run engine | `rooms.py` 364-421, 3211-3498 | a room's transcript, retry counts, its JSON file | run rounds (dag, sequential, parallel), compress, stop early, inject, add participant | round numbers derived from a transcript that is compressed; failures and retries; exceptions in a gather; failed saves | `Room` |
| a turn in a round | `rooms.py` 2640-2940 | roles, visibility, citation retries, the ledger's UNVERIFIED entries | show the transcript, tool loop, cite again, reassign a role | who sees whom over roles, matrix and flags; retries over cancelled runs | `Turn` |
| convergence and judge | `rooms.py` 2941-3210 and the end of `run_rounds` | claim ledger, streak | settle a round, stop, synthesize with a minority filter | a streak over silent, poisoned and cancelled rounds; a ledger saved one round late | `Consensus` |
| claude call, watchdog | `rooms.py` 2480-2640, `watchdog.py` | clocks, digests, suspension | read, look, kill | limits that meet, a rate limit in a stall | `ClaudeCall` |
| room registry | `rooms.py` 344-362, 453-600, 666-930; `server.py` room handlers | dict of rooms, a lock per room, one file per room | create, fork, challenge, synthesize, runs | awaits between check and insert, replaced room objects | `RoomRegistry` |
| conductor and fusion | `server.py` 150-330, 2600-2900 | background status records, result files, the compiled workflow | start, run, keep the result, read it | cancellation, failed writes, restarts | `Fusion`, `Workflow` |
| dashboard | `server.py` 4900-5000 and the page | last counts of each room, the page's transcript | watch, stream, hydrate | deltas derived from counts | `Dashboard` |
| codex app-server client | `backends/codex_app_server.py` | pending requests, turns, the child process | request, run turn, start, tear down | late answers, end of file before the exit code, restart while calls wait | `AppServer`, `Calls` |
| rescue jobs | `backends/codex.py` | background jobs and their files | launch, resume, cancel, load | cancel before the first step, saves that fail, a bridge that dies under a job | `RescueJobs` |
| chat sessions | `backends/codex.py`, `backends/local.py` | sessions, histories, a lock per name, endpoint cooldowns | start, send, end, roll back, cool down | a session replaced or ended in a message, a thread no cancellation reaches | `CodexSessions`, `LocalSessions`, `Conversation` |
| HTTP transport | `server.py` 5240-5640 | ports, discovery file, open streams, signal state | evict, start, serve, drain, stop | second signal, streams opened during the drain, two daemons and one file | `HttpLifecycle` |
| GPU servers | `gpu_serve.py`, `discovery.py`, `rooms.py` 290-342 | SLURM jobs, endpoint files | kick, find, submit, stop | a kick that is cut off, jobs that end on their own | `GpuJobs` |
| peers | `peer*.py`, the peer tools of `server.py` | registry, mailboxes | register, heartbeat, send, drain | workers that outlive the bridge, zombies, a drain of two steps | `Peers` |
| editing tools | `symbols.py`, `io_utils.py`, `write_file` and `edit_file` of `rooms.py` | files, a lock per path, the body cache | patch, edit, cut, move, rename, write | an edit between comparison and rename, two locks, caching after the lock | `FileEdits` |
| room tools | `rooms.py` 1000-2640 | background shell tasks | the other tools participants call | background tasks, timeouts, kill | - |
| reference library | `reflib.py` | JSONL file | add, update | read-modify-write without a lock | - |
| orchestrator, prompts, search, ingest, soul, config, cost, install, doctor | rest | none or ledgers | stateless calls | pure I/O | - |

The rooms and the scheduler share nothing but backends; the HTTP handlers call both. A job of
the scheduler and a participant of a room both end in a child process or in the app-server.

What makes each correct: *scheduler* - at most one scheduled run of a job at a time, every run
gets one final status, every instant that comes due is run, failing jobs are switched off;
*rooms* - a round number is used once, saved turns are not lost, caps and the order of the dag
hold, runs end; *app-server* - every call gets its own answer or one error; *jobs and
conductor* - a status that is not final belongs to live work, a result somebody was told of can
be read again; *chat sessions* - one question at a time, its answer behind it; *HTTP* - draining
ends and leaves nothing that misleads a client; *GPU* - one job per model; *peers* - mail stays
until it is shown; *edits* - no part of a file is lost; *workflows* - a step waits for the steps it
refers to; *roles and judge* - independence, citations and an early stop are what they claim to be.

## 2. Modules and plan

Built:

1. `Scheduler`, instances `MCScheduler`, proofs `SchedulerProofs`.
2. `Room`, instances `MCRoom`, proofs `RoomProofs`.
3. `AppServer`, instances `MCAppServer`, shown to implement `Calls` by TLC and, but for progress, by
   `AppServerProofs`.
4. Services, instances `MCServices`: `RescueJobs`; `CodexSessions` and `LocalSessions`, which both
   implement `Conversation`; `HttpLifecycle`; `GpuJobs`; `Peers`; `FileEdits`. Proofs:
   `SessionsProofs` (rescue jobs, codex and local sessions, both refinements) and, on top of it,
   `DaemonProofs` (HTTP, GPU, peers, edits, the types of all).
5. Around the rooms, instances `MCRooms`: `RoomRegistry`, `Turn`, `Consensus`, `ClaudeCall`,
   `Fusion`, `Workflow`, `Dashboard`. Proofs: `RoomsProofs` (fusion, dashboard), `TurnsProofs`
   (turns, consensus, claude call) and, on top of both, `RegistryProofs` (registry, workflow, the
   types of all).

Every safety property of the passing runs has a theorem; section 8 says under which hypotheses.

No module that is proved about uses a RECURSIVE operator.

## 3. Scheduler

One action per method. `now` and `yaml` are the environment; `lock` is the owner of
`scheduler.lock`; `mode[p]` is *down*, *active* (won the lock), *loser* (never retries) or
*stopped*. `configs`, `loaded` (the hash of the file read last), `queue`, `tasks` and `asked` (rows a
reconcile has read before it awaits sacct) are the memory of a process and vanish with it;
`jobs` and `runs` are the tables. A run is named by its idempotency key, which the
table keeps unique: origin, source job, job, instant.

* `StartWins`, `StartLoses`, `Stop`, `Die`: `start`, `stop` and the end of the process.
  `start` loads the file and abandons what was left running in one action: there is no await
  between them. `stop` cancels the loops but not the tasks of the worker loop.
* `ReloadYaml`, `Tick`, `Dispatch`: the loops. A tick makes a pass over all due jobs, creates
  rows, upserts and enqueues, without an await that yields. The order of the jobs is any order.
* `TaskStart`, `Acquire`, `ExecEnds`, `UnknownKind`, `SlurmAccepts`, `SbatchReturns`,
  `SbatchFails`: the steps of `_run_job`. Finishing, auto-disable and chaining are one action
  (`Finish`): no notifier is configured by the server, so nothing is awaited in between.
* `AskSacct`, `SacctAnswers`, `SacctFails`: `_reconcile_slurm` on both sides of its await.
* `RunNow`, `Pause`, `Resume`: the tools an operator calls.

Abstracted: cron arithmetic (next_due is any of the `Jitter` instants that follow), output,
notifications, log files, the text of prompts, predicates of chain rules (any subset of the
rules fires), *timeout* (same as *failure* everywhere). `SubprocessKinds` is one kind,
*codex*, for the four the code treats alike; *other* is any unknown kind. A child may or may
not die with its bridge: it has its own session. `catchup` is never read by the code and so
is not modelled.

Runs (one or two jobs, `MaxTime` 1 or 2, jitter 1 or 2, queue 1 or 8, one slot, chain depth 0
or 1):

* `sched_safety` - one process, a job that chains to itself and is edited, an operator who
  runs, pauses and resumes it, crashes anywhere. Two instants are enough: manual, scheduled
  and chained runs of both instants overlap, and a failure limit of 1 is reached and passed.
* `sched_two` - two processes and two jobs, a queue of one so that a tick that fires both
  overflows, a file that may be edited or unreadable; three instants so that a job fires
  twice. Processes are symmetric.
* `sched_live` - a codex job and a SLURM job under `FairSpec`; both verdicts.
* `sched_v_queue` - the same invariant as above with a full queue and an operator (see 9).

Fairness (`Fairness`): weak fairness of ready event-loop work and of tasks, which end because
every executor has a timeout; of starting, because the service manager restarts the bridge,
and of exiting after `stop`. Strong fairness of `Tick` (a loop makes its first pass at once,
so restarts cannot starve it) and of the two halves of a SLURM poll (now and then a process
lives through one and sacct answers). Nothing is assumed of the operator, crashes or edits.

## 4. Room

`room` is the object in memory, `disk` its file: members, turns (messages with a `turn_key`),
rounds with a SUMMARY, and retry counts. The other messages, tool logs, claims, roles and
costs are left out. `pc` is where the run that holds the room's lock is: *idle*, *next* (the
head of the loop), *ask* (a tier is answering), *aged* (a round is to be compressed),
*settle* (the end of the loop body).

* `Begin` is `run_rounds` up to the loop, refused at `max_total_rounds`; `StartRound` chooses
  the active participants and the first tier; `TierAnswers` commits the answers of a tier;
  the last one saves; `Compress`, `StopEarly`, `Continue`, `EndRun` follow the loop body.
* A reply is *ok*, *error* (counted; poison once `MaxRetries` are reached) or *raise*.
* `Abort` is an exception in a gather without `return_exceptions`: answers are dropped and
  siblings go on (`stray`, `StrayEnds`). `Inject` and `AddParticipant` save without the lock.
* `Save` may fail, which the code only prints. `Restart` reads the file again.

`Tier` is the scheduling: in a dag those whose dependencies are through, or one of the rest in
a cycle; one at a time; or all.

Runs: `room_rounds` (a second participant may join, both modes, three rounds, calls of up to two
rounds, two failures until poison, one round verbatim, so that compression, poison, cap,
aborts and restarts meet); `room_dag` (three participants, one waits for itself, one has used
up its rounds, fair); `room_v_open` (see 9). Deadlock is checked in all three.

Fairness: weak fairness of the run's own steps (`Step`), because every backend call has a
timeout.

## 5. App-server

`AppServer` is `run_task` as several callers run it at once, with `get_singleton` and the class
`CodexAppServer`; `Calls` is what a caller may rely on. Every caller runs one task; `pc` is where
it is: *single* (waits for the singleton's lock), *closing* and *starting* (waits for the start
lock of its object `mine`), *reader* and *exit* (the two awaits of `_teardown_locked`), *boot*
and *init* (those of `_spawn`), *thread*, *ack*, *turn* (a request or a turn is in flight),
*exec*, and *done* or *answered*. `then` is what follows a tear-down: *close*, *boot* or *fail*.
Both kinds of `asyncio.Lock` are queues whose head is the holder. `srv[s]` is an object:

* `proc` is the process: *none* (`_proc` is None), *up*, *deaf* (it has ended, its exit code is
  not known, so `_alive()` still holds), *leaving* (told to terminate) or *dead* (exit code known);
* `reader` is the read loop: it *runs*, was cancelled and *stops* (its finally block is still to
  come), or there is *no* such task;
* `pending`, `turns`, `next`, `started` are the fields of these names.

`wire` and `live` are the far end: unanswered requests and running turns. A thread is named
after the caller whose request made it, so an answer that reaches the wrong caller shows.

* `FirstServer`, `SameServer`, `OtherServer`: `get_singleton`, which keeps its lock while it closes.
* `CloseBegins`, `Respawn`, `InitFails` enter `_teardown_locked`; `ReaderEnds`, `ReaderStops`,
  `ServerExits` go through it; `AlreadyStarted`, `Boot`, `SpawnFails`, `Initialized` are
  `ensure_started` and `_spawn`.
* `StartTurn`, `Acked`, `Answered`, `GivesUp`, `Executes`: `start_thread`, `run_turn` and the
  fallback. `GivesUp` is every timeout, error and broken pipe.
* `Response`, `Completed`, `ErrorSent`: `_dispatch`, also for requests and turns nobody waits
  for any more. `Dies`, `Reaped`: the process. `Cancelled`: the caller's asyncio task is cancelled
  at any await.

Left out: the text of answers, approvals (they write and change no state), the clean-up of stale
lock files, `_write_lock` (a drain that blocks is a slow write). `Settled` is an assumption on
the event loop: a caller whose future has a result runs before another process is spawned,
which takes many passes of the loop.

Runs: `app_calls` (two callers, one death, one error notification, one cancellation, fair):
`Implements`. Two callers suffice for every pair of positions to meet, and the second one's
answer is the only one the first could be given by mistake. `app_three` (three callers, one death,
one cancellation, symmetric): with three, one may hold a start half done, one may close and one
may use the same object; besides `OneProcess` and `WaitersAreKnown` it checks `AnswersAreOwn`, the part
of the refinement that is no promise of progress. That ids and objects do not run out (`TypeOK`) is
proved (section 8) and not part of the run. `app_v_kept`: see 9. Deadlock is not checked: all tasks end.

Fairness (`FairSpec`): weak fairness of each caller's `Step` (the event loop runs what is ready
and every wait has a timeout) and of the end of a read loop that was cancelled or is at the end
of its file. Nothing is assumed of answers, deaths and errors.

## 6. Services

Seven modules, one run. Their components share no state, so one behaviour of `MCServices` is a
behaviour of one of them: `which` names it, the others stay as they start. Checking them apart
would check the same states; together they need one run and one liveness property.

**RescueJobs** (`backends/codex.py`): `jobs` and `jobFile` are the record of a job in memory and on
disk, `task` its asyncio task, `child` its process. `Rescue`, `Fresh` and `Resume` are the three ways
to launch one; automatic resumption (`Latest`) takes the newest completed thread of the directory.
`Unsaved`, `Refused`, `Spawn`, `Ends`, `TimesOut`, `Cancelled` are the body of `_run_job`; each save
may raise. `Cancel` is the request: it ends a task that has not taken its first step (*dead*, whose
record stays *running*), asks a running one, and marks a record without task. `Crash` leaves the
processes as orphans, `Load` makes *failed* of what was *running*. Properties: `RecordsAreTrue`
(`StatusIsTrue`, `ThreadsStayHome`), `FinalStays`, `JobsEnd`.

**CodexSessions**: `sessions` maps a name to an object, `history` and `thread` belong to objects,
`file` to names, `queue` is the lock of a name. A call captures its object and goes on with it
though `Starts`, `End`, `Touch` or a cancellation come in between; `Answered` saves it under the name,
also when the name has another object by now, which is what the code does. The holder of the lock
is the head of its queue: `Release` drops the head, `Withdraw` takes a waiter that was cancelled
from its place. Objects are numbered as they are made; `StartBegins` is bounded by those made and
those being made under the name. **LocalSessions**: memory only, the same lock; the POST is a thread (`post` is how many tries it has left) which a cancelled call leaves
behind; `failures` and `dead` are the cooldown of one endpoint. Both are shown to implement
**Conversation** per session object (`TakesTurns`, `LocalTakesTurns`): one question at a time, the
answer directly behind it, a rollback takes only the own question, a restart returns a prefix.
`AnswersAreKept` relates what callers were told to the file (codex, `RepliesAreKept`) and the
history (local, `HistoryIsTold`: an answered call left its question with the answer directly behind
it, a cancelled one its question, a refused one nothing, and none anything else).

**HttpLifecycle**: daemons side by side with the two ports and the discovery file. `Launch` and
`Asked` are the eviction of a predecessor, `PortsFree`, `StartServices`, `BindDashboard`, `Serve`,
`StartFails` the start, `FirstSignal`, `SecondSignal`, `TimerFires` the signals, `ServeEnds`,
`StopsEnd`, `Unlink` `finish()`, where the discovery file is read in one step and removed in
another; `raced` remembers that it changed hands between the two. A request is admitted on one of
the two ports (`port`) and becomes an event stream by `Streams` (`_HTTPStreams`, which ends a stream
that begins after the shutdown) or by `Events` (the dashboard's `handle_events`, which adds its task to
the same set and looks at nothing, so that a late one is *untold*). `LeavesCleanly`: no entry of a
daemon that is gone, a serving one can be found unless raced, and a stream that began before the
shutdown, on either port, or after it on the MCP port has been told to end. Late streams of the
dashboard are not (see 9). How the dashboard's cleanup deals with them is aiohttp's: `Over` lets it end them or not. `SignalEnds`, `StartEnds`.

**GpuJobs**: participants of one bridge, `chitta-gpu` processes (`start`) and the SLURM jobs. A kick
is cut off anywhere (`CutOff`); an sbatch it runs then may still land (`Lands`) or not. A failed
squeue is one fault. Whoever looks, kicks or polls is the head of its model's queue and leaves it
by `Returns`. `OneJobPerModel` excludes jobs submitted after such a fault; `EnsureEnds`. A job goes from
pending to running at once: SLURM's state CONFIGURING between the two, which the code's filter does not
see (`gpu_serve.py` 209), has no counterpart, and `OneJobPerModel` does not speak of it.

**Peers**: the workers of one inbox name, their records, the mailbox file. `Drain` and `Clear` are
the two halves of `check_messages`; a `Crash` may fall between the clearing and the reply. What `Clear`
returns is one of `Replies`: lines that do not parse are passed over, and a set of messages in
`TooLong` does not fit the 12 000 characters of a reply, so that any part of it may come whole. `torn`
says that a worker was stopped in the middle of a line, which spoils the line of the next message
(`spoilt`). `unreturned` is what was cleared and not returned. `InboxIsKept` has three parts:
`MailIsKept` (mail is in the mailbox, or shown, or it was appended between the halves, or it is
`unreturned`), `MailIsReturned` (what is `unreturned` did not parse, came with more mail than a reply
holds, or met a crash; see 9) and `OneInbox` (a bridge that has not crashed runs one worker).
`StaysListed`: the heartbeat restores a record somebody swept.

**FileEdits**: a text is the set of its parts (its base, its symbol, one part per edit). A call takes
the lock of its path (a move that of two), reads, `Check`s, and renames its new text into place; an
editor outside the bridge (`Save`) takes no lock. `Scan`, `Verify`, `Apply` are the project rename,
`TakeAndKeep` is `write_file` with its backup; the tools of a room (`OnLoop`) hold the event loop.
`EditsAreKept`: no part of a text goes unless it is in another file, the backup, was deleted on
request, or an editor saved it between the last comparison and the rename. `ServedIsTrue` is the
body cache. `EditsEnd` excludes two opposite moves, which deadlock (see 9).

Run `services`: two jobs and directories, two names, objects and calls, two tries, cooldown after
two failures, two daemons (one evicts the other), two models of which one's job name is a prefix of
the other's, two participants, two workers and two messages, which together are too long for one reply
while each alone fits, two files (one may not exist yet) and all pairs of tools in two calls, one editor, one crash, one failing save, one failing squeue, one
sweep. Two of each is what an interleaving needs: a holder and a waiter, an old object and the one
that replaces it, a predecessor and its successor. Deadlock is not checked: all work ends. The
assumptions of `MCServices` say that jobs and objects are numbered from one and finite, that the
mark for "none" is none of the values it stands in for, that bounds are numbers, and that a POST is
tried at least once and the cooldown threshold is positive (4 and 2 in `local.py`, lines 337 and 52).

Fairness: weak fairness of the body of a job (it has a stall and an absolute timeout), of
`Enters` and `Fails` of a codex call (a deadline), of `Enters` and the thread of a local call
(every try has a timeout), of the timer that forces an exit (a thread of its own), of the start
and the delivery of a signal, of the bounded waits of `_ensure_local_endpoint`, of the
heartbeat, and of the steps of an edit (threads of an executor). Nothing is assumed of
requests, servers, SLURM, clients or editors.

## 7. Around the rooms

Seven modules, one run, composed in the same way. `Room` (section 4) has the rounds; these have what
a round is made of and what surrounds it.

**RoomRegistry**: `rooms` maps an id to an object, `said` is what an object holds by the calls that
added it, `file` the JSON file. `Create` and `Fork` await between their check and `Prepared`;
`Challenge` replaces the object under the fixed id of its child; `Inject`, `Run`, `Adds` load a room
that is not in memory and save at once; `Add` waits for the lock, `Synthesize` does not take it;
`Reply` adds to the captured object and saves the one of the id. `Restart` reads the files, of which
one may be unreadable. `FileIsCurrent` ranges over all rooms, and `Insert` takes the rooms into which it
inserts, since a challenge inserts into those its own lookup has just loaded. `RoomsAreKept`: what a caller was told is there, in memory and file, unless the
room was `replaced` or a file failed before a restart.

**Turn**: `_participant_respond` for two participants of a round, with roles, matrix and flags. The
matrix says of each round and participant nothing, *all*, *none* or a list of names. `Scope` and
`Visible` are `_resolve_vis`; `CallsTool`, `ToolRuns` the tool loop, whose results enter the
transcript at once; `Judges` the citation floor, with its count in `retry_counts`; `Reassigned` the
automatic verifier. Messages are kept by author and kind: *turn* and *tool* are the author's own, and
*quote* is a message of MODERATOR or SUMMARY that carries what the author claimed. `Challenges` adds
the claims of the round that ended before the next begins, `Aged` are the rounds of which
`_compress_round` leaves a summary, and `Shown` is `_build_thread_context`, where quotes pass in every
mode. Quotes are by author, not by claim. `RolesAreKept`: peers of one role are not shown each other's
turns and tool logs unless the matrix asks for it, a participant is quoted only if it had a turn in
an earlier round (so nothing said in a round reaches others of that round as a quote), and an
under-cited turn never stands without its UNVERIFIED entry, over cancelled runs too. The independence
that the worker's preamble promises without exception does not hold (see 9). Runs are *blind*: a sparse
one shows in every round what a blind one shows in its first, and a run without a flag what it shows
after that. Left out: clean rooms, a change of the matrix during a run (`room_set_visibility`),
CONTEXT and FORK messages a room starts with, and the cap of the transcript at 60 000 characters.

**Consensus**: the end of a round. `New`, `Converged` are `_round_converged`; `made` and `log` are
what was really claimed and how the last rounds really were, which no variable of the code keeps.
The answers of a round come in one step. `Restart` returns to the ledger of the last save.
`JudgementIsEarned`: a run that stops early has earned it, a room where nobody claimed anything
does not converge, and a judge with a minority filter hears of everybody who spoke. The streak a run
asks for (`Streak`, the code's `adaptive_k`) is assumed positive, as its default is; nothing in
`server.py` (2629) or `rooms.py` (3480) enforces it, and with 0 or less any settled round ends a run.

**ClaudeCall**: one `claude -p` in ticks; `Hook`, `Grows`, `RateLimit`, `Acts`, `Result`, `Exit` are
what its output may be, `Look` the loop with its three watchdogs (`mode` is *on*, *shadow* or
*off*), `ProgressWatch` included; `Recent` is the end of the action history it looks at. `VerdictIsDeserved` compares a verdict with the true history
(`stepped`, `limited`, `done`).

**Fusion**: runs of the three panel tools. `record` is the entry of `_bg_rooms`, `file` the result,
`call` whether somebody waits for it. A result is written, or its write fails; inline calls may be
dropped; the other room of a dual fusion goes on when one raises (`StrayEnds`). `ResultIsKept`,
`FusionEnds`.

**Workflow** is the compilation of conductor steps, over all workflows of the bound: a step has an
agent, perhaps a name of its own, and what it depends on. `Name` numbers the names that repeat.
An alias is a text in lower case; `Taken` are those a step takes from whoever had them (its name and
its shorthand as written), `Left` those it gets only if nobody has them (its name without number, its
model), and `Known` is a row of the lookup table. Names, display names, shorthands and models may read
alike. A name given to a step has no "#" (see 9). `PipelineIsAcyclic`: an alias of steps stands for a
step that has it, and a step that refers to earlier steps waits for earlier steps only, unless it or a
later step takes one of these aliases. Without that exception a step may wait for itself (see 9).

**Dashboard**: the watcher's count, the stream's queue and the page's transcript. `missed` remembers
that the code lost an event in one of the ways listed in 9. `TranscriptIsTrue`: what the page shows
is the beginning of the room; `TranscriptCatchesUp`.

Run `rooms`: one room with its challenge and a spare id, three objects and calls (a holder, a waiter
and one that replaces the room), two fusions of two rounds, workflows of up to three steps over two
agents that share a display name, one of which is the model of the other, and one given name, four
messages and one disconnection, a claude call of four ticks with limits 2, 3 and 3 and two actions,
two speakers of three participants in three rounds, of which all but the last are summarised in turn,
with the code's two citation retries, once with two verifiers and no matrix and once with two workers,
their thinker and a matrix, one claim, three voices, a streak of two, calls of up to three rounds, one
crash, one file fault. Claims and voices are what the properties tell apart; three
voices are the least at which the minority filter works. Deadlock is not checked: work ends.

Fairness: weak fairness of what a panel awaits (each model call has a timeout), of the watcher's
poll and the page's own handlers, of the loop and the clock of a claude call (and of its reading
the prompt, see 9), and of the steps of a turn. Liveness is stated as `[]<>` of *over or never
begun*: these states are left only by new work.

## 8. Theorems

Every theorem is of the specification a run checks, for every value of its constants that
satisfies the assumptions. `MCServices` and `MCRooms` choose one component and let it run; their
theorems begin with the lemma that a step of the whole is a step of the component or leaves its
variables alone, go on with an invariant of the component (`...Init`, `...Step`) and end by reading
the property off it.

`SchedulerProofs`, for any processes, jobs, limits and files:

* `TypeCorrect`: `Spec => []TypeOK`. Chain depths and instants stay within their ranges.
* `TicksDoNotOverlap`: `Spec => []OneTickRun`. The argument: only `Tick` opens a row with a tick
  key (every other action leaves the open tick rows a subset of what they were), and it does so
  only for jobs with no open row at all.

* `RunsStayOwned` and `TickRunsStayOwned`: `RunsAreOwned`, that an open row has work behind it. The
  first is for one process under every action, the operator's and chains included, as long as the
  queue has room (`[]Roomy`); the second for any number of processes and any queue size, when work
  comes from ticks only (`OnlyTicks`), as in `sched_two`. Both by `OwnInv` over `WorkInv`.
  `WorkInv` is `TypeOK` and who holds what: an entry of the queue is in one hand only, a
  held row exists, a process that is down holds nothing (`HandsInv`), rows that a reconcile has
  read are of SLURM jobs (`AskedRows`), and the owner of the lock is active (`LockIsActive`).
* `WorkStaysOpen` and `FinalsStay` (an action property): for one process (`Alone`), a row is open
  while its work is queued or at work, and a final status is final. `OutcomesStay` says
  what is left of the second for any number of processes: what finishes a row of its own, never
  abandoned, is not overwritten.
* `VerdictsAreTrue`: `SlurmVerdict`, for any number of processes: the final status of a followed run is
  the cluster's. The rows read before the await are still followed after it (`AskedRows`), and nobody
  else finishes a row that is.
* `FailingJobsStop`: `AutoDisable`, without SLURM jobs and with room in the queue.
* `JobsStayScheduled`: `StaysScheduled`, when every file that is read names every job.

The hypotheses are constants restricted (`Alone`, `OnlyTicks`, `Listed`, `KindsStay`, `NoSlurm`,
`EveryJobListed`) or a property of the behaviour (`[]Roomy`), and they are where section 9 says the
code does not keep the promise. TLC finds a counterexample without `Listed` (a job removed while its
run is queued), `KindsStay` (a job that becomes a SLURM job while its run is under way),
`NoSlurm` (failures that the reconcile records), `EveryJobListed` (a refused file, a removed job), and for two
processes without `Alone`. For `RunsAreOwned` without `Roomy` it is `sched_v_queue`; for `AutoDisable`, two jobs
due at once and a queue of one: the row that finds no room counts as a failure and disables
nothing. The runs satisfy them: `sched_safety`
has one process and a queue of eight, `sched_two` ticks only.

`RoomProofs`, for any participants, dag, limits and caps:

* `TypeCorrect`: by the stronger `TInv`, which adds that `round + left` stays within the
  rounds that exist.
* `RoundsStayFresh` and `RoundsStayCapped`: by `RInv`, in which the properties hold of memory
  *and* file, and the round of a run in progress lies above every committed one until its own
  turns come in; without the file, `Restart` would not preserve it.
* `SavedStaysSaved`: by the invariant that memory is ahead of the file (`Ahead`), a preorder
  that every answer and compression moves up.
* `DependenciesGoFirst`: `DepsFirst`. Those who are asked are a tier of those not through (`InTier`). A
  tier in which somebody is ready has no open dependency; if nobody is, all who remain are in cycles
  or behind them, which is what the property excludes.

`DaemonProofs`, for any daemons, streams, models, participants, workers, messages, files and plans of
edits:

* `DaemonsLeaveCleanly`: `HttpInv` adds `HttpPhases` to the property. An entry in the discovery file
  names a daemon that serves, finishes or is about to remove it, and one that serves and was not told
  to go holds the port. Without that, the successor could be the one whose entry is removed. Streams
  are told when the shutdown begins and only `Events` begins one untold after it.
* `OneJobOnItsWay`: `GpuInv`. `GpuLocks` makes whoever looks, kicks or polls the head of the queue
  of its model; `GpuLooks` says that what squeue showed stays true until the sbatch, also for an
  sbatch left behind by a cut-off kick; `GpuOnce` is the property by elements, whose cardinality
  `AtMostOne` gives.
* `MailStaysInOneInbox`: `PeersInv` adds that mail to be cleared was read or counted as overtaken
  (`PeersDrain`), and that until a crash the one inbox is the tracked one. What a reply leaves out
  did not parse or belongs to mail in `TooLong`, any sets of messages.
* `FilesStayWhole`: `FilesAreKept`, an action property, by `EditsInv`. A call holds the locks of the
  files that it compares or writes (`EditsHeld`); from its last comparison on, what is on disk is in
  the text that it read, but for the parts of editors that raced (`EditsRead`), so a rename takes out
  what was asked for and nothing else; a move cuts a symbol only after the destination has it; and a
  cached body with the time of the file is what is on disk unless a later write overtook it
  (`EditsCache`).
* `TypeCorrect`: `TypeOK` of `MCServices`, from the invariants of all its components.

`TurnsProofs`, for any claims, voices, roles, matrices, streaks, retry limits and clocks:

* `DebatesEndEarned`: `DebateInv`. The ledger, saved or not, holds only what was claimed, and the
  streak counts agreed rounds at the end of the log (`EndsAgreed`), whatever silent, poisoned and
  cancelled rounds lie between.
* `TurnsKeepRoles`: `TurnsInv`. Between runs everybody waits, and an answer that cites too little is in
  the ledger before it is committed, hence a run cancelled in between leaves the entry. What a
  participant may be shown is `Apart`, a predicate of the participant; `TurnsShown` derives it for any
  roles and matrix, where `TurnsTalk` says that whoever is quoted or summarised had a turn in a round
  before the one in progress.
* `VerdictsAreDeserved`: `ClaudeInv`. The clocks of the watch are not behind what they measure,
  and its bounded history is the end of what was done (`ClaudeHistory`); so a loop in the one is
  a loop in the other.

`RoomsProofs`, for any panels, rounds and messages:

* `ResultsAreKept`: `FusionInv` adds that a task at work has a record with rounds left, and that the
  text of a record is in its file unless its write failed.
* `TranscriptsAreTrue`: `PageInv`. Unless an event was missed or a reset is on its way, the events in
  the queue continue the page's copy to where the watcher has counted (`PageFollows`); a copy not yet
  delivered (`response`) counts as the copy. That the copy is a beginning of the room, which is the
  property, is one conjunct of it; the others say that the next event is the next message.

`RegistryProofs`, for any rooms, objects, calls and workflows:

* `RoomsKeepWhatWasTold`: `RegistryInv`. An object is the room of one id, a file is of a room in
  memory and says what it says, and a call that waits finds its words in the room unless the room
  was replaced. All but the types and the ids of calls may fail once a crash met a bad file
  (`Spoiled`), the one case the property itself excludes.
* `PipelinesAreAcyclic`: `PipelineIsAcyclic`, for any number of steps, shorthands, names, models and
  lower case. The lookup table is a recursive function; that it exists and what its rows hold is
  shown by induction over a set (`UpTo`), which comes from the least number of a set (`LeastNumber`) by
  well-foundedness. `RowInv`: after any number of steps, an alias of one of them stands for one of
  them that has it. `Stays`: an alias found stays what it is until a step takes it (`IsUntaken`).
* `TypeCorrect`: `TypeOK` of `MCRooms`, from the invariants of all its components.

`SessionsProofs`, for any jobs, directories, names, objects and calls:

* `JobRecordsAreTrue` and `FinalsStay`, an action property, by `RescueInv`: a record is behind every
  task and a task at work behind every process (`TasksAreRunning`); ids are drawn in order, so the
  newest completed job exists (`LargestOfFinite`, by well-foundedness, since the provers have no
  induction); what a record says, in memory or on disk, is credible, so a load brings back nothing
  worse.
* `AnswersStay` by `CodexInv` and `LocalInv`. Both begin with the lock, whose lemmas (`LocksJoin`,
  `LocksTake`, `LocksLeave`) serve both: calls in the queue of a name are about it, nobody is in it
  twice, the holder is its head. An object is made for one name; a history holds messages of calls
  that captured its object, and the last message is the question of whoever asks, which is why a
  rollback takes the own question. For codex, the file of a name is a beginning of the history of
  its object (`CodexFiles`), and a reply told is in the history and in the file that goes with it
  (`CodexTold`); `CodexTold` also needs that while the session is the object of such a reply nobody
  asks under this name with another object. For local sessions, `LocalTold` places what each call
  left behind (`Stands`).
* `TurnsAreTaken`: codex and local sessions implement `Conversation`. Per object, `Answering` is the
  call that asks (at most one, by the lock and the owner of the object), and `Says` is what may happen
  to its history and turn in a step; every step of the sessions makes every object do one of
  `Conversation`'s actions or rest. Initial states map to initial states.

`AppServerProofs`, for any callers, deaths, errors and cancellations: all by one invariant, `AppInv`.
Its parts:

* `Places`: what the place of a caller says of its object, its futures and its thread; whoever is on
  its way to a process has the singleton object.
* `Locks`: nobody is in a queue twice, holders are heads, and a caller that closes the server is the
  *last* in the queue for its start lock, because it holds the lock that others need to get there.
  So nobody is left behind at an object that is replaced. The lemmas on queues (`ClosesUp`,
  `HeadLeaves`, `OneLeaves`, `OneJoins`) say what `Tail`, `RemoveFirst` and `Append` keep of this.
* `Numbers`: a caller makes one object and three requests, so neither runs out.
* `Requests`: ids below `next` are given once, so an answer meets the entry of whoever asked.
* `Waits`: `WaitersAreKnown`, and while somebody respawns the process (`Respawns`) nobody waits on its
  object or is about to (`QuietOf`). Without that, `Boot`, which empties `pending` and `turns`, would
  lose waiters; it is here that `Settled` is needed.
* `OnlySingle`: an object that is not the singleton has no process that nobody told to end.

`ServerIsSingle`, `WaitersStayKnown` and `TypeCorrect` follow from the parts. `AnswersStayOwn`: initial
states of `AppServer` map to those of `Calls`, every step of a caller to one of its actions or to a
stutter (`CallerGoes`, `GoesMaps`), every step of the process to a stutter (`ProcessMaps`); that the
answer is one's own comes from `Requests` through `thread[c]` in `Places`.

TLC finds no state that breaks any of the inductive invariants named here on the instances of the
runs (with bounded numbers in place of the witnesses that range over all of them).

The assumptions are the named ones of the modules: finite sets and positive bounds
(`SchedulerAssumption`, `RoomAssumption`, `AppServerAssumption`), ids that are numbers from one (`IdsAreNumbered`,
`ObjectsAreNumbered`, `IdsAreFinite`), marks that are no values (`NoneIs...`, `NamesAreNotNone`,
`PidsAreNoStates`), bounds that are numbers (`BoundsAreNatural`), and what the code fixes itself
(`PlansAreEdits`, that only a move has two files, `PostsAreTried`, `RunsHaveRounds`, `StreaksAreRounds`, `PartiesSpeak`, `SettingsAreOfRooms`,
`RepliesAreMail`, `RunsAreSettings`). TLC evaluates all of them.

What stays with TLC is liveness (`RunsEnd`, `DueFires`, `EveryCallEnds`, `EveryRunEnds`, and the
promise of `Implements` that calls end), which is out of the prover's reach.

## 9. Observed

Three runs show a property that the source states and the code does not keep:

* `sched_v_queue`: `run_now` and chains ignore that the queue is full; the row stays
  *running* and, as `scheduler.py` 748 says, blocks the job.
* `room_v_open`: a participant that failed in a round the others committed is not asked again
  for it, although `rooms.py` 2859 says the next run retries.
* `app_v_kept`: of two callers that find no server, the second one finds the object of the first
  without a process, waits for its start lock in `aclose` and closes the process that the first
  has just started; the first falls back to exec. Any parallel first use has this outcome.

Four statements of the repository go further than the code. TLC refutes each on the models of sections
6 and 7; the checked properties say what is left of them:

* "SIGTERM/SIGINT closes listeners and event streams" (README.md 7): a stream of `/events` admitted
  before the shutdown that begins after it is never told to end (`server.py` 4999). It ends when the
  dashboard is cleaned up, or when the timer ends the process. Left: `StreamsAreTold`.
* "returns and clears messages" (`server.py` 1278): `check_messages` empties the mailbox before it
  parses and cuts its reply at 12 000 characters (3881-3904), so the rest of a long reply is in
  neither; lines that do not parse and a crash after the clearing have the same effect. Left:
  `MailIsKept`, `MailIsReturned`.
* aliases "all resolve correctly" (`server.py` 2779): with the steps `claude:opus` and `claude:opus`, the
  second depending on "claude:opus", the second takes the alias over (2787) and waits for itself. It
  does not stop the run: when nobody is ready the engine asks the first that remains (`rooms.py`
  2692). Left: `PipelineIsAcyclic`.
* "Other Workers cannot see your output" (`rooms.py` 205): a worker reads what its peers claimed in
  earlier rounds in the challenge (3286-3309) and in summaries (383-420), which pass in every mode
  (970). Left: `PeersAreApart`.

Further behaviours were met with the same models, by properties that are not kept here because
they fail and say little more than the sentence does:

* firing a job leaves `next_due` in the past, since `upsert_job` keeps it while the hash is the
  same (`scheduler.py` 744-745); `get_due` and the unique key prevent a second run;
* a run whose job left the file while it was queued keeps its row open (780-783);
* a bridge that starts with a refused file clears `next_due` of recovered jobs, and loading the
  same configuration later does not restore it (668-674);
* a crash between sbatch and its record leaves a row nobody follows (786-793);
* failures that the reconcile loop (889) or a full queue records do not disable a job; states it does not list
  (`OUT_OF_MEMORY`) count as running for ever (886);
* a stopped bridge finishes tasks of runs its successor has abandoned (657-664), and
  abandoned runs may have live children (424), so `FinalIsFinal` and `WorkIsOpen` are checked and
  proved for one process;
* compression removes the messages that poison and `max_rounds` are read from, so both start
  afresh (`rooms.py` 418, 2734, 3316); rounds without content count as recent (3445); replies
  of participants that sit out keep a silent run going to its end (3484);
* between the end of a process and its exit code, requests are written to nobody and end by
  their timeout, 30 or 60 seconds (`codex_app_server.py` 273); a caller that is cancelled while it
  waits for the old reader leaves a server that counts as started and has none, and every later
  call times out until that process exits (251);
* a turn that timed out is not interrupted on the server while exec runs the task again; the
  server's process has its own session (214) and nothing closes it when the bridge stops.

Of the modules of sections 6 and 7:

* rescue jobs: a job cancelled, or whose first save fails, before its first step stays
  *running* for ever (`codex.py` 1361); `end_unattached` walks the sessions in a thread;
* local failover: later nodes are asked under the first node's endpoint and the wrong endpoint is
  blamed (`rooms.py` 2428-2470); `_last_tool_calls` is never reset (2803, 2912);
* GPU: a failed squeue reads as "no job" and a second one is submitted, and so does a job that is
  CONFIGURING; `stop qwen3` cancels the jobs of `qwen3-coder` too, whose name begins alike; a kick cut
  off at 15 seconds may have submitted nothing although `rooms.py` says "submitted, still coming up"; url files go to
  `~/.chitta-bridge/gpu` while the bridge reads `~/.chitta-bridge/endpoints`; two local starts
  overwrite one pid file; the probe of `discover` ends cooldowns;
* registry: a challenge child shares the participant dicts of its parent (`rooms.py` 694) and has a
  fixed id, so a second challenge replaces the first; create looks at memory only;
* fusion: a dropped inline call leaves its record *running*, which health counts, while it does
  not count *synthesizing*; an error of one room of a dual fusion leaves the other running
  (`server.py` 216); a failed write drops a conductor's text but not a fusion's; a conductor whose
  distilling thread cannot start goes from *done* to *error*; its task is kept by no strong
  reference (2877); the text that `room_read` appends is cut at 12 000 characters with the rest;
* workflow: a step named "A#2" by its author can collide with a numbered one; a later step also
  takes over an alias that is the model of an earlier one when its name reads so (`server.py` 2783,
  2790), so a third step that means the earlier one waits for the later;
* peers: SIGTERM has its default action, so a worker's `finally` never runs; a zombie keeps a
  stopped peer reachable; what is appended between the read and the clearing of
  `check_messages` is lost (`server.py` 3880); after a crash two workers of a name may live;
* dashboard: events between the snapshot and the registration of the queue are lost (5005), as
  are those during a fetch; a reconnection does not refresh a transcript; a reset empties an open
  room until it is opened again; a compression whose file is not shorter goes unnoticed (4958);
* claude: the prompt is drained without a timeout (`rooms.py` 2554); a result that arrives at the
  limit itself is dropped;
* turns: a worker without thinker sees everybody (2663), though the prompt (205) says "Other Workers
  cannot see your output"; tool logs are authored "name[tool:x]", so scopes by name hide even
  the own ones; the UNVERIFIED entry is written before the turn is committed; the preset "all"
  does not override a blind or sparse run;
* consensus: claims of a round with disagreement never enter the ledger; the ledger grows after
  the save, so a crash loses the claims of the last round; a participant the classifier does not
  name counts as minority; tool logs count as voices; rounds of poison leave the streak as it is;
* edits: two moves in opposite directions wait for each other for ever (`symbols.py` 752, 777), and a
  room's tool on such a file, which runs on the event loop, then stops the bridge; a move whose
  second write fails leaves the symbol in both files; a project rename does not say how many files
  it had renamed; `write_file` compares nothing and keeps one backup; a body is cached after
  the lock is released, with the file's time as it is then; `_read_files` is keyed by participant
  name, shared by rooms and never cleared (`rooms.py` 1486);
* reference library: two bridges load, change and save it without a lock (`reflib.py` 220).

## 10. Not modelled

The status and note of each component are in `PROJECT.json`. Left out for good:

* bash and the background tasks of a participant (`rooms.py` 2174), todos, search and fetch tools:
  each is one process or one dict per participant name, killed at shutdown only; nothing relates two
  of them but the name they share;
* tool schemas and the dispatch of `server.py` (most of its lines), prompts, search, ingestion,
  the soul socket client, the orchestrator, command line, configuration, installer and doctor:
  strings, tables and requests that keep no state two actors could disagree about;
* the reference library: its one hazard, above, has no mechanism a model could check;
* the failover of a room over several nodes; the handshake of peers; how a symbol's span is
  found in a text, and outline diffs (parsing);
* assets, serve scripts, the codex plugin, tests.

Abstracted everywhere: what models answer, formatting, logs, costs, and the time of day, except
where a module counts ticks.
