----------------------------- MODULE MCScheduler -----------------------------
(* Instances of Scheduler for TLC.                                         *)
EXTENDS Scheduler, TLC

Cfg(kind, skip, chain) == [kind |-> kind, enabled |-> TRUE, skip |-> skip, chain |-> chain]

Job     == {"a"}
TwoJobs == {"a", "b"}

\* A codex job that triggers itself, and an edit of it.
SelfChain == {[j \in Job |-> Cfg("codex", TRUE, {"a"})], [j \in Job |-> Cfg("codex", FALSE, {})]}

\* Two jobs, an edit of the second, and a file that may become unreadable.
Both == {("a" :> Cfg("codex", TRUE, {})) @@ ("b" :> Cfg(k, FALSE, {})) : k \in {"codex", "other"}}
           \cup {Refused}

\* A codex job beside a SLURM job.
Mixed == {("a" :> Cfg("codex", TRUE, {})) @@ ("b" :> Cfg("slurm", TRUE, {}))}

OneCodex == {[j \in Job |-> Cfg("codex", TRUE, {})]}
Swaps == Permutations(Procs)
=============================================================================
