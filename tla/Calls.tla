-------------------------------- MODULE Calls --------------------------------
(***************************************************************************)
(* What run_task promises its callers (chitta_bridge/backends/codex.py):   *)
(* a task is tried once on the app-server, which either brings the reply   *)
(* to this very task or gives up, and only then is it executed afresh.     *)
(* A caller may be cancelled before it has an outcome.                     *)
(***************************************************************************)
CONSTANT Callers

VARIABLES
  status,         \* how far the task of each caller is
  reply           \* whose answer a caller was given, a set of at most one

cvars == <<status, reply>>

Begun == {"trying", "exec"}

Init == status = [c \in Callers |-> "idle"] /\ reply = [c \in Callers |-> {}]

Move(c, from, to) == status[c] \in from /\ status' = [status EXCEPT ![c] = to]

Try(c)      == Move(c, {"idle"}, "trying") /\ UNCHANGED reply
Answer(c)   == Move(c, {"trying"}, "done") /\ reply' = [reply EXCEPT ![c] = {c}]
FallBack(c) == Move(c, {"trying"}, "exec") /\ UNCHANGED reply
Execute(c)  == Move(c, {"exec"}, "done") /\ UNCHANGED reply
Cancel(c)   == Move(c, Begun, "done") /\ UNCHANGED reply

Next == \E c \in Callers : Try(c) \/ Answer(c) \/ FallBack(c) \/ Execute(c) \/ Cancel(c)

(* A task that was begun is answered, executed or cancelled in the end.    *)
Fairness == \A c \in Callers : WF_cvars(Answer(c) \/ FallBack(c) \/ Execute(c) \/ Cancel(c))

Protocol == Init /\ [][Next]_cvars
Spec == Protocol /\ Fairness
=============================================================================
