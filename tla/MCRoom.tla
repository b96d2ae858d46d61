-------------------------------- MODULE MCRoom --------------------------------
(* Instances of Room for TLC.                                              *)
EXTENDS Room, TLC

CONSTANTS a, b, c

Two   == {a, b}
Three == {a, b, c}
Unlimited == [n \in Names |-> 0]
Once      == [n \in Names |-> IF n = a THEN 1 ELSE 0]
NoDeps    == [n \in Names |-> {}]

\* b waits for a, c for b and for itself.
Cycle == [n \in Names |-> CASE n = b -> {a} [] n = c -> {b, c} [] OTHER -> {}]
=============================================================================
