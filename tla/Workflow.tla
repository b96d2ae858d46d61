------------------------------ MODULE Workflow ------------------------------
(***************************************************************************)
(* How conductor_fusion compiles a workflow into the participants of a     *)
(* room, who sees whom, and who waits for whom.  A step names an agent,    *)
(* may have a name of its own, and refers to others by any of their        *)
(* aliases: that name or else the display name, with or without its        *)
(* number, the shorthand as written, or the model.                         *)
(***************************************************************************)
EXTENDS Naturals, Sequences, FiniteSets, SequencesExt

CONSTANTS Agents,    \* shorthands, such as "claude:opus:high"
          Own,       \* names that steps are given, without a "#"
          Display,   \* Display[a]: the name _display_name_for derives
          Model,     \* Model[a]: the second part of the shorthand, None without
          Lower,     \* Lower[x]: the text x in lower case
          Depends,   \* what a step may depend on: sets of aliases, by default sees
          MaxSteps,  \* bound: length of the workflows tried
          Everybody, \* a step that refers to nobody in particular
          None

VARIABLES workflow,  \* the argument: a sequence of [agent, name, depends]
          room       \* what rooms.create is given, None before

vars == <<workflow, room>>

\* A name is a text and a number: <<b, 1>> reads b and <<b, n>> reads "b#n".
\* An alias is a name in lower case.
Key(name) == <<Lower[name[1]], name[2]>>
Bare(text) == Key(<<text, 1>>)

Steps == [agent : Agents, name : Own \cup {None}, depends : Depends \cup {Everybody}]

Init ==
    /\ workflow \in BoundedSeq(Steps, MaxSteps) \ {<<>>}
    /\ room = None

\* A name that the step is given takes priority over the display name.
Base(step) == IF step.name # None THEN step.name ELSE Display[step.agent]

\* Names are numbered from the second step of a name on.
Name(w, i) == <<Base(w[i]), Cardinality({j \in 1 .. i : Base(w[j]) = Base(w[i])})>>

\* The aliases a step takes from whoever had them, and those it has only when
\* nobody had them before.
Taken(w, i) == {Key(Name(w, i)), Bare(w[i].agent)}
Left(w, i)  == {Bare(Base(w[i]))} \cup {Bare(m) : m \in {Model[w[i].agent]} \ {None}}
AliasesOf(w, i) == Taken(w, i) \cup Left(w, i)

Bug_Known(w, table, i) ==
    [x \in DOMAIN table \cup AliasesOf(w, i) |->
        IF x \in Taken(w, i) \cup {Bare(Base(w[i]))} \/ x \notin DOMAIN table THEN Name(w, i) ELSE table[x]]

\* A row of the lookup table.
Known(w, table, i) ==
    [x \in DOMAIN table \cup AliasesOf(w, i) |->
        IF x \in Taken(w, i) \/ x \notin DOMAIN table THEN Name(w, i) ELSE table[x]]

Lookup(w) ==
    LET table[i \in 0 .. Len(w)] ==
            IF i = 0 THEN [x \in {} |-> None] ELSE Known(w, table[i - 1], i) IN
    table[Len(w)]

\* An alias nobody has stays as it is.
Resolve(w, aliases) ==
    LET t == Lookup(w) IN {IF x \in DOMAIN t THEN t[x] ELSE x : x \in aliases}

\* "all" and "none" are no names to wait for.
Awaited(step) == IF step.depends = Everybody THEN {} ELSE step.depends

\* The participants and the dependencies given to rooms.create.
Compile ==
    /\ room = None
    /\ room' = [i \in DOMAIN workflow |->
           [name |-> Name(workflow, i), waits |-> Resolve(workflow, Awaited(workflow[i]))]]
    /\ UNCHANGED workflow

Next == Compile

Spec == Init /\ [][Next]_vars
-----------------------------------------------------------------------------
TypeOK ==
    /\ workflow \in Seq(Steps)
    /\ room = None \/ DOMAIN room = DOMAIN workflow

IsEarlier(w, x, i) == \E j \in 1 .. i - 1 : x \in AliasesOf(w, j)

(* An alias of steps of the workflow stands for one of them, and a step that
   refers to earlier steps waits for earlier steps only, so not for itself,
   unless it or a later step takes an alias it refers to as its own name or
   shorthand: the code lets them overwrite what an alias stood for. *)
PipelineIsAcyclic ==
    room # None => \A i \in DOMAIN room :
        LET awaited == Awaited(workflow[i]) IN
        /\ \A x \in awaited : \A j \in DOMAIN room : x \in AliasesOf(workflow, j) =>
               \E k \in DOMAIN room : x \in AliasesOf(workflow, k) /\ room[k].name \in room[i].waits
        /\ (\A x \in awaited : IsEarlier(workflow, x, i) /\ \A k \in i .. Len(workflow) : x \notin Taken(workflow, k))
           => room[i].waits \subseteq {room[j].name : j \in 1 .. i - 1}
=============================================================================
