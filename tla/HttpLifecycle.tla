--------------------------- MODULE HttpLifecycle ----------------------------
(* The life of a bridge in HTTP mode (server.py): it takes its two ports     *)
(* from a predecessor, starts the scheduler and the codex peer, binds the    *)
(* dashboard and then the MCP port, publishes itself in the discovery file,  *)
(* serves, and shuts down on a signal under one deadline. The daemons run    *)
(* side by side; the file is shared.                                         *)
EXTENDS Naturals, FiniteSets

CONSTANTS Daemons,  \* the processes
          None

VARIABLES phase,      \* off, waits, starts, binds, serves, finishes, reads, unlinks, exited
          signalled,  \* on_signal was called
          shutting,   \* shutting_down
          timer,      \* the thread that forces the exit
          cancelled,  \* run_task was cancelled before the server was up
          dashboard,  \* which daemon holds the dashboard port, or None
          mcp,        \* which daemon holds the MCP port, or None
          portFile,   \* the daemon the discovery file names, or None
          listed,     \* daemons with a record in ~/.claude/sessions
          request,    \* a client's request: none, admitted, streams, untold, cancelled, over
          port,       \* the port it came to: the MCP server's or the dashboard's
          evicted,    \* daemons a successor has sent SIGTERM to
          raced       \* a cleanup removed a file that no longer named it

vars == <<phase, signalled, shutting, timer, cancelled, dashboard, mcp,
          portFile, listed, request, port, evicted, raced>>

Starting == {"waits", "starts", "binds"}
Running == Starting \cup {"serves", "finishes", "reads", "unlinks"}

TypeOK ==
    /\ phase \in [Daemons -> Running \cup {"off", "exited"}]
    /\ signalled \in [Daemons -> BOOLEAN] /\ shutting \in [Daemons -> BOOLEAN]
    /\ timer \in [Daemons -> BOOLEAN] /\ cancelled \in [Daemons -> BOOLEAN]
    /\ {dashboard, mcp, portFile} \subseteq Daemons \cup {None}
    /\ listed \subseteq Daemons /\ evicted \subseteq Daemons /\ raced \in BOOLEAN
    /\ request \in [Daemons -> {"none", "admitted", "streams", "untold", "cancelled", "over"}]
    /\ port \in [Daemons -> {"mcp", "dashboard"}]
    /\ \A p \in Daemons : signalled[p] => shutting[p]

Init ==
    /\ phase = [p \in Daemons |-> "off"] /\ signalled = [p \in Daemons |-> FALSE]
    /\ shutting = signalled /\ timer = signalled /\ cancelled = signalled
    /\ dashboard = None /\ mcp = None /\ portFile = None
    /\ listed = {} /\ evicted = {} /\ raced = FALSE
    /\ request = [p \in Daemons |-> "none"] /\ port = [p \in Daemons |-> "mcp"]

Free(held, p) == IF held = p THEN None ELSE held
Live(p) == phase[p] \in Running
Goes(p, from, to) == phase[p] = from /\ phase' = [phase EXCEPT ![p] = to]

-----------------------------------------------------------------------------
(* begin_shutdown: once; everything in one go on the event loop. *)
Shut(p) ==
    /\ shutting' = [shutting EXCEPT ![p] = TRUE]
    /\ mcp' = Free(mcp, p) /\ dashboard' = Free(dashboard, p)
    /\ request' = IF request[p] = "streams" /\ ~shutting[p]
                  THEN [request EXCEPT ![p] = "cancelled"] ELSE request

(* os._exit, after a cleanup of its own. *)
Bug_ForceExit(p) ==
    /\ phase' = [phase EXCEPT ![p] = "exited"] /\ timer' = [timer EXCEPT ![p] = FALSE]
    /\ mcp' = Free(mcp, p) /\ dashboard' = Free(dashboard, p)
    /\ request' = [request EXCEPT ![p] = "over"]
    /\ UNCHANGED <<port, signalled, shutting, cancelled, evicted, portFile, listed, raced>>
ForceExit(p) ==
    /\ phase' = [phase EXCEPT ![p] = "exited"] /\ timer' = [timer EXCEPT ![p] = FALSE]
    /\ mcp' = Free(mcp, p) /\ dashboard' = Free(dashboard, p)
    /\ portFile' = Free(portFile, p) /\ listed' = listed \ {p}
    /\ request' = [request EXCEPT ![p] = "over"]
    /\ UNCHANGED <<port, signalled, shutting, cancelled, evicted, raced>>

Bug_Armed(p) == UNCHANGED timer
Armed(p) == timer' = [timer EXCEPT ![p] = TRUE]

FirstSignal(p) ==
    /\ Live(p) /\ ~signalled[p]
    /\ signalled' = [signalled EXCEPT ![p] = TRUE]
    /\ Shut(p) /\ Armed(p)
    /\ cancelled' = [cancelled EXCEPT ![p] = phase[p] \in Starting]
    /\ UNCHANGED <<port, phase, portFile, listed, evicted, raced>>
SecondSignal(p) == Live(p) /\ signalled[p] /\ ForceExit(p)
TimerFires(p) == Live(p) /\ timer[p] /\ ForceExit(p)

-----------------------------------------------------------------------------
(* _wait_for_port: whoever holds a port is asked, once, to go. *)
Launch(p) ==
    /\ Goes(p, "off", "waits")
    /\ evicted' = evicted \cup ({dashboard, mcp} \ {None})
    /\ UNCHANGED <<signalled, shutting, timer, cancelled, dashboard, mcp, portFile, listed, request, port, raced>>
Asked(p) ==
    /\ p \in evicted /\ evicted' = evicted \ {p}
    /\ Live(p) /\ ~signalled[p]
    /\ signalled' = [signalled EXCEPT ![p] = TRUE] /\ Shut(p) /\ Armed(p)
    /\ cancelled' = [cancelled EXCEPT ![p] = phase[p] \in Starting]
    /\ UNCHANGED <<port, phase, portFile, listed, raced>>

PortsFree(p) ==
    /\ ~cancelled[p] /\ dashboard = None /\ mcp = None /\ Goes(p, "waits", "starts")
    /\ UNCHANGED <<signalled, shutting, timer, cancelled, dashboard, mcp, portFile, listed, request, port, evicted, raced>>

(* The scheduler and the codex peer; a peer that cannot register is passed over. *)
StartServices(p, registered) ==
    /\ ~cancelled[p] /\ Goes(p, "starts", "binds")
    /\ listed' = IF registered THEN listed \cup {p} ELSE listed
    /\ UNCHANGED <<signalled, shutting, timer, cancelled, dashboard, mcp, portFile, request, port, evicted, raced>>

BindDashboard(p) ==
    /\ ~cancelled[p] /\ phase[p] = "binds" /\ dashboard = None /\ dashboard' = p
    /\ UNCHANGED <<phase, signalled, shutting, timer, cancelled, mcp, portFile, listed, request, port, evicted, raced>>

Serve(p) ==
    /\ ~cancelled[p] /\ dashboard = p /\ mcp = None /\ Goes(p, "binds", "serves")
    /\ mcp' = p /\ portFile' = p
    /\ UNCHANGED <<signalled, shutting, timer, cancelled, dashboard, listed, request, port, evicted, raced>>

(* A port is taken or stays taken, or the start was cancelled: to finish(),  *)
(* which begins the shutdown when nobody has.                                *)
Bug_StartFails(p) ==
    /\ phase[p] \in Starting
    /\ \/ cancelled[p]
       \/ phase[p] = "binds" /\ (dashboard \notin {p, None} \/ mcp # None)
    /\ phase' = [phase EXCEPT ![p] = "finishes"]
    /\ Shut(p)
    /\ UNCHANGED <<port, signalled, timer, cancelled, portFile, listed, evicted, raced>>
StartFails(p) ==
    /\ phase[p] \in Starting
    /\ \/ cancelled[p]
       \/ phase[p] = "waits" /\ (dashboard # None \/ mcp # None)
       \/ phase[p] = "binds" /\ (dashboard \notin {p, None} \/ mcp # None)
    /\ phase' = [phase EXCEPT ![p] = "finishes"]
    /\ Shut(p)
    /\ UNCHANGED <<port, signalled, timer, cancelled, portFile, listed, evicted, raced>>

(* uvicorn returns once its requests are over, or after the grace period. *)
ServeEnds(p) ==
    /\ shutting[p] /\ Goes(p, "serves", "finishes") /\ Shut(p)
    /\ UNCHANGED <<port, signalled, timer, cancelled, portFile, listed, evicted, raced>>

(* finish: the stop tasks end or are given up; then cleanup.                 *)
StopsEnd(p) ==
    /\ Goes(p, "finishes", IF portFile = p THEN "unlinks" ELSE "reads")
    /\ listed' = listed \ {p}
    /\ UNCHANGED <<signalled, shutting, timer, cancelled, dashboard, mcp, portFile, request, port, evicted, raced>>
Bug_Unlink(p) ==
    /\ phase[p] \in {"reads", "unlinks"} /\ phase' = [phase EXCEPT ![p] = "exited"]
    /\ portFile' = None
    /\ raced' = (raced \/ (phase[p] = "unlinks" /\ portFile \notin {p, None}))
    /\ timer' = [timer EXCEPT ![p] = FALSE] /\ request' = [request EXCEPT ![p] = "over"]
    /\ UNCHANGED <<port, signalled, shutting, cancelled, dashboard, mcp, listed, evicted>>
(* The file named this daemon when it was read; it is removed unread.        *)
Unlink(p) ==
    /\ phase[p] \in {"reads", "unlinks"} /\ phase' = [phase EXCEPT ![p] = "exited"]
    /\ portFile' = IF phase[p] = "unlinks" THEN None ELSE portFile
    /\ raced' = (raced \/ (phase[p] = "unlinks" /\ portFile \notin {p, None}))
    /\ timer' = [timer EXCEPT ![p] = FALSE] /\ request' = [request EXCEPT ![p] = "over"]
    /\ UNCHANGED <<port, signalled, shutting, cancelled, dashboard, mcp, listed, evicted>>

-----------------------------------------------------------------------------
(* A request is admitted on a port that is held, starts an event stream, ends.*)
Admit(p, to) ==
    /\ request[p] = "none" /\ (IF to = "mcp" THEN mcp ELSE dashboard) = p
    /\ request' = [request EXCEPT ![p] = "admitted"] /\ port' = [port EXCEPT ![p] = to]
    /\ UNCHANGED <<phase, signalled, shutting, timer, cancelled, dashboard, mcp, portFile, listed, evicted, raced>>

Starts(p, as) ==
    /\ request[p] = "admitted" /\ request' = [request EXCEPT ![p] = as]
    /\ UNCHANGED <<phase, signalled, shutting, timer, cancelled, dashboard, mcp, portFile, listed, port, evicted, raced>>

(* _HTTPStreams: a stream of the MCP server that starts late ends itself.    *)
Bug_Streams(p) ==
    phase[p] = "serves" /\ port[p] = "mcp" /\ Starts(p, "streams")
Streams(p) ==
    /\ phase[p] = "serves" /\ port[p] = "mcp"
    /\ Starts(p, IF shutting[p] THEN "cancelled" ELSE "streams")

(* handle_events: it joins the others without looking whether they were      *)
(* told already, and then runs until the dashboard's cleanup gives it up.    *)
Events(p) ==
    /\ phase[p] \in {"binds", "serves", "finishes"} /\ port[p] = "dashboard"
    /\ Starts(p, IF shutting[p] THEN "untold" ELSE "streams")

Over(p) ==
    /\ phase[p] \in {"binds", "serves", "finishes"}
    /\ request[p] \in {"admitted", "streams", "untold", "cancelled"}
    /\ request' = [request EXCEPT ![p] = "over"]
    /\ UNCHANGED <<phase, signalled, shutting, timer, cancelled, dashboard, mcp, portFile, listed, port, evicted, raced>>

Start(p) == \/ PortsFree(p) \/ BindDashboard(p) \/ Serve(p) \/ StartFails(p)
            \/ \E registered \in BOOLEAN : StartServices(p, registered)
Stop(p) == StopsEnd(p) \/ Unlink(p)

Next == \E p \in Daemons :
    \/ Launch(p) \/ Start(p) \/ Asked(p)
    \/ FirstSignal(p) \/ SecondSignal(p) \/ TimerFires(p) \/ ServeEnds(p) \/ Stop(p)
    \/ Streams(p) \/ Events(p) \/ Over(p)
    \/ \E to \in {"mcp", "dashboard"} : Admit(p, to)

(* The timer is a thread of its own: it fires whatever the event loop does.  *)
(* A start has a deadline at each wait. Nothing says that requests end.      *)
Fairness == \A p \in Daemons : WF_vars(TimerFires(p) \/ Start(p) \/ Asked(p))
Spec == Init /\ [][Next]_vars /\ Fairness

-----------------------------------------------------------------------------
(* A daemon that is gone is in neither registry: clients and Claude sessions *)
(* are not sent to a process that no longer listens, however it went.        *)
NoStaleEntry == \A p \in Daemons : phase[p] = "exited" => portFile # p /\ p \notin listed

(* A serving daemon can be found: the cleanup of a predecessor leaves its    *)
(* file alone, unless the file changed hands between the read and the unlink.*)
Discoverable ==
    \A p \in Daemons : phase[p] = "serves" /\ ~shutting[p] => portFile = p \/ raced

(* Once the shutdown has begun, every event stream that began before it has  *)
(* been told to end, on both ports; so has one of the MCP server that was    *)
(* admitted before the shutdown and started after it.  The dashboard's that  *)
(* start after it are not told.                                              *)
StreamsAreTold ==
    \A p \in Daemons : shutting[p] =>
        /\ request[p] # "streams"
        /\ port[p] = "mcp" => request[p] # "untold"

(* A daemon that goes leaves nothing behind that misleads or holds a client, *)
(* and takes nothing from its successor.                                     *)
LeavesCleanly == NoStaleEntry /\ Discoverable /\ StreamsAreTold

(* A signalled daemon exits although requests and stop tasks may hang, and a *)
(* start comes to an end: the daemon serves or is gone.                      *)
SignalEnds == \A p \in Daemons : []<>(signalled[p] => phase[p] = "exited")
StartEnds  == \A p \in Daemons : []<>(phase[p] \notin Starting)
=============================================================================
