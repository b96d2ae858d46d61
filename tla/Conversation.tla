---------------------------- MODULE Conversation ----------------------------
(* What the chat backends promise of their sessions, of each on its own: its *)
(* calls take turns, an answer stands directly behind the question it        *)
(* answers, and what comes back after a restart is the beginning of what was *)
(* said.                                                                     *)
EXTENDS Naturals, Sequences

CONSTANTS Objects,  \* the sessions
          Calls, None

VARIABLES log,  \* the messages of a session: <<call, role>>
          turn  \* the call it is answering, or None

talk == <<log, turn>>

Init == log = [o \in Objects |-> <<>>] /\ turn = [o \in Objects |-> None]

Ask(o, c) ==
    /\ turn[o] = None /\ \A i \in DOMAIN log[o] : log[o][i][1] # c
    /\ turn'[o] = c /\ log'[o] = Append(log[o], <<c, "user">>)

Answered(o) == log[o] # <<>> /\ log[o][Len(log[o])] = <<turn[o], "user">>
Answer(o) ==
    /\ turn[o] # None /\ Answered(o)
    /\ turn'[o] = None /\ log'[o] = Append(log[o], <<turn[o], "assistant">>)

(* The question stays, unanswered, or is taken back. *)
GiveUp(o) ==
    /\ turn[o] # None /\ turn'[o] = None
    /\ \/ log'[o] = log[o]
       \/ Answered(o) /\ log'[o] = SubSeq(log[o], 1, Len(log[o]) - 1)

Restore(o) ==
    /\ turn'[o] = None
    /\ \E n \in 0..Len(log[o]) : log'[o] = SubSeq(log[o], 1, n)

Rests(o) == log'[o] = log[o] /\ turn'[o] = turn[o]

(* The sessions know nothing of each other; a restart restores them all.     *)
Next ==
    \A o \in Objects :
        \/ (\E c \in Calls : Ask(o, c)) \/ Answer(o) \/ GiveUp(o) \/ Restore(o)
        \/ Rests(o)

Spec == Init /\ [][Next]_talk
=============================================================================
