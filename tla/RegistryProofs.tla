--------------------------- MODULE RegistryProofs ---------------------------
(* Proofs about the registry of rooms in MCRooms, that what a caller was   *)
(* told to be in a room is in it, in memory and in its file; about the     *)
(* workflows compiled for a room, that nobody waits for himself or in a    *)
(* circle; and, with the modules below it, that all components of MCRooms  *)
(* keep their types.                                                       *)
EXTENDS RoomsProofs, TurnsProofs, FiniteSetTheorems, WellFoundedInduction, TLAPS

(* After a crash and a file that failed a room may be lost.                *)
Spoiled == registryCrashes > 0 /\ faults > 0

(* What a call is about at every point of its life.                        *)
RegistryCall(c) ==
  /\ registryCall[c] # "idle" => id[c] \in Registry!Ids
  /\ registryCall[c] = "prepares" => op[c] \in {"create", "fork"}
  /\ registryCall[c] = "queued" => op[c] \in {"run", "challenge", "add"}
  /\ registryCall[c] = "asks" => op[c] \in {"run", "challenge", "synthesize"}

(* A call that waits has its room, the object it captured is of that id    *)
(* only, and what it said already is in the room unless it was replaced.   *)
RegistryHolds(c) ==
  /\ registryCall[c] \in {"queued", "asks", "told"} => rooms[id[c]] # None
  /\ registryCall[c] = "asks" =>
       /\ object[c] \in 1 .. registryMade
       /\ \A r \in Registry!Ids : rooms[r] = object[c] => r = id[c]
  /\ id[c] \notin replaced =>
       /\ registryCall[c] = "asks" => object[c] = rooms[id[c]]
       /\ registryCall[c] \in {"queued", "asks"} /\ op[c] \in {"run", "challenge"} =>
            <<c, "told">> \in registrySaid[rooms[id[c]]]
       /\ registryCall[c] = "told" => Registry!Contribution(c) \subseteq registrySaid[rooms[id[c]]]

(* An object is the room of one id.                                        *)
RegistryOwned ==
  /\ \A r \in Registry!Ids : rooms[r] # None => rooms[r] \in 1 .. registryMade
  /\ \A r, q \in Registry!Ids : rooms[r] # None /\ rooms[r] = rooms[q] => r = q

(* A file is of a room in memory and says what it says.                    *)
RegistryFiles ==
  /\ \A r \in Registry!Ids : registryFile[r] # None => rooms[r] # None
  /\ faults = 0 => \A r \in Registry!Ids : rooms[r] # None =>
       registryFile[r] = [object |-> rooms[r], said |-> registrySaid[rooms[r]]]

RegistryKept == RegistryOwned /\ RegistryFiles /\ \A c \in Calls : RegistryHolds(c)

RegistryInv ==
  Registry!TypeOK /\ (\A c \in Calls : RegistryCall(c)) /\ (Spoiled \/ RegistryKept)

(* A step of the rooms is a step of the registry or leaves it alone.       *)
LEMMA RegistrySteps == [Next]_vars => [Registry!Next]_registryVars
BY DEF Next, vars, registryVars, RegistryRuns, DetachedRuns, CompiledRuns, PageRuns,
       ClaudeRuns, TurnsRuns, DebateRuns

Said == SUBSET (Calls \X {"told", "reply"})

LEMMA SameNumbers ==
  /\ IsFiniteSet(Objects) /\ Cardinality(Objects) \in Nat
  /\ Registry!Cardinality(Objects) = Cardinality(Objects)
  /\ \A o : o \in Objects <=> o \in 1 .. Cardinality(Objects)
<1>1. IsFiniteSet(Objects) /\ Objects = 1 .. Cardinality(Objects)
  BY ObjectsAreNumbered
<1>2. Cardinality(Objects) \in Nat
  BY <1>1, FS_CardinalityType
<1>3. Registry!Cardinality(Objects) = Cardinality(Objects)
  BY Zenon DEF Registry!Cardinality, Cardinality
<1> QED  BY <1>1, <1>2, <1>3

LEMMA RegistryInit == Registry!Init => RegistryInv
<1> SUFFICES ASSUME Registry!Init PROVE RegistryInv  OBVIOUS
<1>1. Registry!TypeOK
  <2>1. /\ 0 \in 0 .. Registry!Cardinality(Objects) /\ 0 \in 0 .. MaxCrashes
        /\ 0 \in 0 .. MaxFaults
    BY SameNumbers, BoundsAreNatural
  <2> QED  BY <2>1 DEF Registry!Init, Registry!TypeOK, Registry!Busy
<1>2. \A c \in Calls : RegistryCall(c)
  BY DEF Registry!Init, RegistryCall
<1>3. RegistryKept
  BY DEF Registry!Init, RegistryKept, RegistryOwned, RegistryFiles, RegistryHolds
<1> QED  BY <1>1, <1>2, <1>3 DEF RegistryInv

-----------------------------------------------------------------------------
(* Types.                                                                  *)

(* What a load, a save, an insertion and an addition make of the rooms.    *)
LEMMA LoadTypes ==
  ASSUME Registry!TypeOK, NEW r \in Registry!Ids
  PROVE  /\ Registry!Loaded(r) \in [Registry!Ids -> Objects \cup {None}]
         /\ Registry!Read(r) \in [Objects -> Said]
<1>1. registryFile[r] # None => registryFile[r] \in [object : Objects, said : Said]
  BY DEF Registry!TypeOK, Said
<1>2. rooms \in [Registry!Ids -> Objects \cup {None}] /\ registrySaid \in [Objects -> Said]
  BY DEF Registry!TypeOK, Said
<1>3. Registry!Loaded(r) \in [Registry!Ids -> Objects \cup {None}]
  BY <1>1, <1>2 DEF Registry!Loaded
<1>4. Registry!Read(r) \in [Objects -> Said]
  BY <1>1, <1>2 DEF Registry!Read
<1> QED  BY <1>3, <1>4

LEMMA SaveTypes ==
  ASSUME Registry!TypeOK, NEW r \in Registry!Ids, NEW ok \in BOOLEAN,
         NEW objects \in [Registry!Ids -> Objects \cup {None}], NEW messages \in [Objects -> Said],
         Registry!Saves(r, objects, messages, ok)
  PROVE  /\ registryFile' \in [Registry!Ids -> {None} \cup [object : Objects, said : Said]]
         /\ faults' \in 0 .. MaxFaults
<1>1. registryFile \in [Registry!Ids -> {None} \cup [object : Objects, said : Said]]
      /\ faults \in 0 .. MaxFaults
  BY DEF Registry!TypeOK, Said
<1>2. faults' \in 0 .. MaxFaults
  BY <1>1, BoundsAreNatural DEF Registry!Saves
<1>3. objects[r] # None => [object |-> objects[r], said |-> messages[objects[r]]] \in [object : Objects, said : Said]
  OBVIOUS
<1>4. registryFile' \in [Registry!Ids -> {None} \cup [object : Objects, said : Said]]
  BY <1>1, <1>3 DEF Registry!Saves
<1> QED  BY <1>2, <1>4

LEMMA AddTypes ==
  ASSUME Registry!TypeOK, NEW r \in Registry!Ids, NEW ok \in BOOLEAN, NEW c \in Calls,
         NEW objects \in [Registry!Ids -> Objects \cup {None}],
         Registry!Adds(r, objects, c, ok)
  PROVE  /\ registryFile' \in [Registry!Ids -> {None} \cup [object : Objects, said : Said]]
         /\ faults' \in 0 .. MaxFaults
         /\ registrySaid' \in [Objects -> Said]
<1>1. registrySaid' = [Registry!Read(r) EXCEPT ![objects[r]] = @ \cup {<<c, "told">>}]
      /\ Registry!Saves(r, objects, registrySaid', ok)
  BY DEF Registry!Adds
<1>2. Registry!Read(r) \in [Objects -> Said]
  BY LoadTypes
<1>3. \A o \in Objects : Registry!Read(r)[o] \cup {<<c, "told">>} \in Said
  BY <1>2 DEF Said
<1>4. registrySaid' \in [Objects -> Said]
  BY <1>1, <1>2, <1>3
<1> QED  BY <1>1, <1>4, SaveTypes

LEMMA InsertTypes ==
  ASSUME Registry!TypeOK, NEW r \in Registry!Ids, NEW ok \in BOOLEAN, NEW c \in Calls,
         NEW objects \in [Registry!Ids -> Objects \cup {None}], NEW messages \in [Objects -> Said],
         Registry!Insert(r, c, objects, messages, ok)
  PROVE  /\ registryFile' \in [Registry!Ids -> {None} \cup [object : Objects, said : Said]]
         /\ faults' \in 0 .. MaxFaults
         /\ registrySaid' \in [Objects -> Said]
         /\ rooms' \in [Registry!Ids -> Objects \cup {None}]
         /\ registryMade' \in 0 .. Registry!Cardinality(Objects)
         /\ object' \in [Calls -> Objects \cup {None}] /\ replaced' \subseteq Registry!Ids
<1>1. /\ registryMade + 1 \in Objects /\ registryMade' = registryMade + 1
      /\ rooms' = [objects EXCEPT ![r] = registryMade + 1]
      /\ registrySaid' = [messages EXCEPT ![registryMade + 1] = {<<c, "told">>}]
      /\ object' = [object EXCEPT ![c] = registryMade + 1]
      /\ replaced' \in {replaced \cup {r}, replaced}
      /\ Registry!Saves(r, rooms', registrySaid', ok)
  BY DEF Registry!Insert
<1>2. rooms' \in [Registry!Ids -> Objects \cup {None}]
  BY <1>1
<1>3. {<<c, "told">>} \in Said
  BY DEF Said
<1>4. registrySaid' \in [Objects -> Said]
  BY <1>1, <1>3
<1>5. registryMade' \in 0 .. Registry!Cardinality(Objects)
  BY <1>1, SameNumbers
<1>6. object' \in [Calls -> Objects \cup {None}] /\ replaced' \subseteq Registry!Ids
  BY <1>1 DEF Registry!TypeOK
<1> QED  BY <1>1, <1>2, <1>4, <1>5, <1>6, SaveTypes

LEMMA RegistryTypes ==
  ASSUME RegistryInv, [Registry!Next]_registryVars
  PROVE  Registry!TypeOK'
<1>0. /\ Registry!TypeOK /\ \A c \in Calls : RegistryCall(c)
      /\ rooms \in [Registry!Ids -> Objects \cup {None}] /\ registrySaid \in [Objects -> Said]
  BY DEF RegistryInv, Registry!TypeOK, Said
<1> USE DEF Registry!Busy, Registry!Tools
<1>1. ASSUME NEW c \in Calls, NEW r \in Registry!Ids, Registry!Create(c, r)
      PROVE  Registry!TypeOK'
  BY <1>0, <1>1 DEF Registry!Create, Registry!Begins, Registry!Becomes, Registry!TypeOK, Registry!Ids
<1>2. ASSUME NEW c \in Calls, NEW r \in Registry!Ids, NEW new \in Rooms, Registry!Fork(c, r, new)
      PROVE  Registry!TypeOK'
  <2>1. new \in Registry!Ids  BY DEF Registry!Ids
  <2>2. rooms' = Registry!Loaded(r) /\ registrySaid' = Registry!Read(r)
    BY <1>2 DEF Registry!Fork
  <2>3. rooms' \in [Registry!Ids -> Objects \cup {None}] /\ registrySaid' \in [Objects -> Said]
    BY <2>2, <1>0, LoadTypes
  <2> QED
    BY <2>1, <2>3, <1>0, <1>2
    DEF Registry!Fork, Registry!Begins, Registry!Becomes, Registry!TypeOK, Said
<1>3. ASSUME NEW c \in Calls, NEW ok \in BOOLEAN, Registry!Prepared(c, ok)
      PROVE  Registry!TypeOK'
  <2>1. id[c] \in Registry!Ids
    BY <1>0, <1>3 DEF RegistryCall, Registry!Prepared
  <2>2. Registry!Insert(id[c], c, rooms, registrySaid, ok)
    BY <1>3 DEF Registry!Prepared
  <2> QED
    BY <2>1, <2>2, <1>0, <1>3, InsertTypes
    DEF Registry!Prepared, Registry!Becomes, Registry!TypeOK, Said
<1>4. ASSUME NEW c \in Calls, NEW r \in Registry!Ids, NEW ok \in BOOLEAN, Registry!Challenge(c, r, ok)
      PROVE  Registry!TypeOK'
  <2>1. Challenged \in Registry!Ids  BY DEF Registry!Ids
  <2>2. Registry!Insert(Challenged, c, Registry!Loaded(r), Registry!Read(r), ok)
    BY <1>4 DEF Registry!Challenge
  <2>3. /\ Registry!Loaded(r) \in [Registry!Ids -> Objects \cup {None}]
        /\ Registry!Read(r) \in [Objects -> Said]
    BY <1>0, LoadTypes
  <2> QED
    BY <2>1, <2>2, <2>3, <1>0, <1>4, InsertTypes
    DEF Registry!Challenge, Registry!Begins, Registry!Becomes, Registry!TypeOK, Said
<1>5. ASSUME NEW c \in Calls, NEW r \in Registry!Ids, NEW ok \in BOOLEAN,
             Registry!Inject(c, r, ok) \/ Registry!Run(c, r, ok)
      PROVE  Registry!TypeOK'
  <2>1. rooms' = Registry!Loaded(r) /\ Registry!Adds(r, Registry!Loaded(r), c, ok)
        /\ object' = [object EXCEPT ![c] = Registry!Loaded(r)[r]]
    BY <1>5 DEF Registry!Inject, Registry!Run
  <2>2. Registry!Loaded(r) \in [Registry!Ids -> Objects \cup {None}]
    BY <1>0, LoadTypes
  <2>3. object' \in [Calls -> Objects \cup {None}]
    BY <2>1, <2>2, <1>0 DEF Registry!TypeOK
  <2>4. /\ registryFile' \in [Registry!Ids -> {None} \cup [object : Objects, said : Said]]
        /\ faults' \in 0 .. MaxFaults /\ registrySaid' \in [Objects -> Said]
    BY <2>1, <2>2, <1>0, AddTypes
  <2>5. /\ op' \in [Calls -> Registry!Tools \cup {None}] /\ id' \in [Calls -> Registry!Ids \cup {None}]
        /\ registryCall' \in [Calls -> Registry!Busy \cup {"idle", "told", "refused", "cut"}]
        /\ UNCHANGED <<registryMade, replaced, registryCrashes>>
    BY <1>0, <1>5
    DEF Registry!Inject, Registry!Run, Registry!Begins, Registry!Becomes, Registry!TypeOK
  <2> QED
    BY <2>1, <2>2, <2>3, <2>4, <2>5, <1>0 DEF Registry!TypeOK, Said
<1>6. ASSUME NEW c \in Calls, Registry!Enter(c)
      PROVE  Registry!TypeOK'
  <2>1. id[c] \in Registry!Ids
    BY <1>0, <1>6 DEF RegistryCall, Registry!Enter
  <2> QED
    BY <2>1, <1>0, <1>6 DEF Registry!Enter, Registry!Becomes, Registry!TypeOK
<1>7. ASSUME NEW c \in Calls, NEW r \in Registry!Ids, Registry!Add(c, r) \/ Registry!Synthesize(c, r)
      PROVE  Registry!TypeOK'
  <2>1. rooms' = Registry!Loaded(r) /\ registrySaid' = Registry!Read(r)
        /\ object' \in {object, [object EXCEPT ![c] = Registry!Loaded(r)[r]]}
    BY <1>7 DEF Registry!Add, Registry!Synthesize
  <2>2. Registry!Loaded(r) \in [Registry!Ids -> Objects \cup {None}] /\ registrySaid' \in [Objects -> Said]
    BY <2>1, <1>0, LoadTypes
  <2>3. object' \in [Calls -> Objects \cup {None}]
    BY <2>1, <2>2, <1>0 DEF Registry!TypeOK
  <2> QED
    BY <2>1, <2>2, <2>3, <1>0, <1>7
    DEF Registry!Add, Registry!Synthesize, Registry!Begins, Registry!Becomes, Registry!TypeOK, Said
<1>8. ASSUME NEW c \in Calls, NEW ok \in BOOLEAN, Registry!Added(c, ok)
      PROVE  Registry!TypeOK'
  <2>1. id[c] \in Registry!Ids
    BY <1>0, <1>8 DEF RegistryCall, Registry!Added
  <2>2. Registry!Adds(id[c], rooms, c, ok) /\ object' = [object EXCEPT ![c] = rooms[id[c]]]
    BY <1>8 DEF Registry!Added
  <2> QED
    BY <2>1, <2>2, <1>0, <1>8, AddTypes
    DEF Registry!Added, Registry!Becomes, Registry!TypeOK, Said
<1>9. ASSUME NEW c \in Calls, NEW ok \in BOOLEAN, Registry!Reply(c, ok)
      PROVE  Registry!TypeOK'
  <2>1. id[c] \in Registry!Ids
    BY <1>0, <1>9 DEF RegistryCall, Registry!Reply
  <2>2. registrySaid' = [registrySaid EXCEPT ![object[c]] = @ \cup {<<c, "reply">>}]
        /\ Registry!Saves(id[c], rooms, registrySaid', ok)
    BY <1>9 DEF Registry!Reply
  <2>3. \A o \in Objects : registrySaid[o] \cup {<<c, "reply">>} \in Said
    BY <1>0 DEF Said
  <2>4. registrySaid' \in [Objects -> Said]
    BY <2>2, <2>3, <1>0
  <2>5. /\ registryFile' \in [Registry!Ids -> {None} \cup [object : Objects, said : Said]]
        /\ faults' \in 0 .. MaxFaults
    BY <2>1, <2>2, <2>4, <1>0, SaveTypes
  <2> QED
    BY <2>4, <2>5, <1>0, <1>9
    DEF Registry!Reply, Registry!Becomes, Registry!TypeOK, Said
<1>10. ASSUME NEW c \in Calls, Registry!Cancel(c)
       PROVE  Registry!TypeOK'
  BY <1>0, <1>10 DEF Registry!Cancel, Registry!Becomes, Registry!TypeOK
<1>11. ASSUME NEW skipped \in SUBSET Registry!Ids, Registry!Restart(skipped)
       PROVE  Registry!TypeOK'
  <2> DEFINE read == {r \in Registry!Ids : registryFile[r] # None} \ skipped
             of(o) == {r \in read : registryFile[r].object = o}
  <2>1. \A r \in read : /\ registryFile[r] \in [object : Objects, said : Said]
                        /\ registryFile[r].object \in Objects /\ registryFile[r].said \in Said
    <3>1. \A r \in read : registryFile[r] \in [object : Objects, said : Said]
      BY <1>0 DEF Registry!TypeOK, Said
    <3> QED  BY <3>1
  <2>2. rooms' \in [Registry!Ids -> Objects \cup {None}]
    <3>1. rooms' = [r \in Registry!Ids |-> IF r \in read THEN registryFile[r].object ELSE None]
      BY <1>11 DEF Registry!Restart
    <3> HIDE DEF read
    <3> QED  BY <3>1, <2>1
  <2>3. registrySaid' \in [Objects -> Said]
    <3>1. registrySaid' = [o \in Objects |-> IF of(o) = {} THEN registrySaid[o]
                                             ELSE registryFile[CHOOSE r \in of(o) : TRUE].said]
      BY <1>11 DEF Registry!Restart
    <3>2. ASSUME NEW o \in Objects, of(o) # {}
          PROVE  registryFile[CHOOSE r \in of(o) : TRUE].said \in Said
      <4>1. (CHOOSE r \in of(o) : TRUE) \in of(o)  BY <3>2
      <4>2. (CHOOSE r \in of(o) : TRUE) \in read  BY <4>1
      <4> QED  BY <4>2, <2>1
    <3> HIDE DEF of
    <3> QED  BY <3>1, <3>2, <1>0
  <2>4. registryCall' \in [Calls -> Registry!Busy \cup {"idle", "told", "refused", "cut"}]
    BY <1>0, <1>11 DEF Registry!Restart, Registry!TypeOK
  <2>5. registryCrashes' \in 0 .. MaxCrashes
    BY <1>0, <1>11, BoundsAreNatural DEF Registry!Restart, Registry!TypeOK
  <2>6. faults' \in 0 .. MaxFaults
    <3>1. IsFiniteSet(skipped) /\ Registry!Cardinality(skipped) = Cardinality(skipped)
      <4>1. IsFiniteSet(Registry!Ids)  BY IdsAreFinite DEF Registry!Ids
      <4>2. IsFiniteSet(skipped)  BY <4>1, FS_Subset
      <4>3. Registry!Cardinality(skipped) = Cardinality(skipped)
        BY Zenon DEF Registry!Cardinality, Cardinality
      <4> QED  BY <4>2, <4>3
    <3>2. Cardinality(skipped) \in Nat  BY <3>1, FS_CardinalityType
    <3>3. faults' = faults + Cardinality(skipped) /\ faults' <= MaxFaults
      BY <3>1, <1>11 DEF Registry!Restart
    <3>4. faults \in Nat /\ MaxFaults \in Nat
      BY <1>0, BoundsAreNatural DEF Registry!TypeOK
    <3> QED  BY <3>2, <3>3, <3>4
  <2> QED
    BY <2>2, <2>3, <2>4, <2>5, <2>6, <1>0, <1>11 DEF Registry!Restart, Registry!TypeOK, Said
<1>12. CASE UNCHANGED registryVars
  BY <1>0, <1>12 DEF registryVars, Registry!TypeOK
<1> QED
  BY <1>1, <1>2, <1>3, <1>4, <1>5, <1>6, <1>7, <1>8, <1>9, <1>10, <1>11, <1>12
  DEF Registry!Next, Registry!vars, registryVars

(* Where a call is, after a step of it or of another.                      *)
LEMMA RegistryCalls ==
  ASSUME RegistryInv, [Registry!Next]_registryVars, NEW c \in Calls
  PROVE  RegistryCall(c)'
<1>0. Registry!TypeOK /\ RegistryCall(c)
  BY DEF RegistryInv
<1>1. ASSUME NEW d \in Calls, NEW r \in Registry!Ids,
             \/ Registry!Create(d, r) \/ Registry!Add(d, r) \/ Registry!Synthesize(d, r)
             \/ \E ok \in BOOLEAN : \/ Registry!Challenge(d, r, ok) \/ Registry!Inject(d, r, ok)
                                    \/ Registry!Run(d, r, ok)
             \/ \E new \in Rooms : Registry!Fork(d, r, new)
      PROVE  RegistryCall(c)'
  <2>1. \E tool \in {"create", "fork", "challenge", "inject", "run", "add", "synthesize"},
           q \in Registry!Ids, state \in {"prepares", "refused", "queued", "asks", "told"} :
          /\ Registry!Begins(d, tool, q) /\ Registry!Becomes(d, state)
          /\ state = "prepares" => tool \in {"create", "fork"}
          /\ state = "queued" => tool \in {"run", "challenge", "add"}
          /\ state = "asks" => tool \in {"run", "challenge", "synthesize"}
    BY <1>1
    DEF Registry!Create, Registry!Add, Registry!Synthesize, Registry!Challenge, Registry!Inject,
        Registry!Run, Registry!Fork, Registry!Ids
  <2> QED
    BY <2>1, <1>0 DEF Registry!Begins, Registry!Becomes, RegistryCall, Registry!TypeOK
<1>2. ASSUME NEW d \in Calls, NEW ok \in BOOLEAN,
             \/ Registry!Prepared(d, ok) \/ Registry!Enter(d) \/ Registry!Added(d, ok)
             \/ Registry!Reply(d, ok) \/ Registry!Cancel(d)
      PROVE  RegistryCall(c)'
  <2>1. /\ UNCHANGED <<op, id>> /\ registryCall[d] # "idle"
        /\ \E state \in {"told", "cut", "asks"} :
             /\ Registry!Becomes(d, state)
             /\ state = "asks" => op[d] \in {"run", "challenge"}
    BY <1>2
    DEF Registry!Prepared, Registry!Enter, Registry!Added, Registry!Reply, Registry!Cancel,
        Registry!Busy
  <2> QED
    BY <2>1, <1>0 DEF Registry!Becomes, RegistryCall, Registry!TypeOK
<1>3. ASSUME NEW skipped \in SUBSET Registry!Ids, Registry!Restart(skipped)
      PROVE  RegistryCall(c)'
  BY <1>0, <1>3 DEF Registry!Restart, RegistryCall, Registry!Busy
<1>4. CASE UNCHANGED registryVars
  BY <1>0, <1>4 DEF registryVars, RegistryCall
<1> QED
  BY <1>1, <1>2, <1>3, <1>4 DEF Registry!Next, Registry!vars, registryVars

-----------------------------------------------------------------------------
(* What is kept.                                                           *)

(* A step of the call c that says something in the object o of the room r  *)
(* at most, and saves that room if the file can be written.                *)
RegistryAdds(c, r, o) ==
  /\ rooms' = rooms /\ registryMade' = registryMade /\ replaced' = replaced
  /\ \A x \in Objects : /\ registrySaid[x] \subseteq registrySaid'[x]
                        /\ x # o => registrySaid'[x] = registrySaid[x]
  /\ \A q \in Registry!Ids : rooms[q] # None /\ rooms[q] = o => q = r
  /\ \/ /\ registryFile' = [registryFile EXCEPT ![r] =
                              [object |-> rooms[r], said |-> registrySaid'[rooms[r]]]]
        /\ rooms[r] # None /\ faults' = faults
     \/ registryFile' = registryFile /\ faults' # 0
     \/ registryFile' = registryFile /\ registrySaid' = registrySaid /\ faults' = faults
  /\ \A d \in Calls : d # c => /\ registryCall'[d] = registryCall[d] /\ op'[d] = op[d]
                               /\ id'[d] = id[d] /\ object'[d] = object[d]

LEMMA RegistryOne ==
  ASSUME Registry!TypeOK, RegistryKept, \A d \in Calls : RegistryCall(d),
         NEW c \in Calls, NEW r \in Registry!Ids, NEW o,
         RegistryAdds(c, r, o), RegistryHolds(c)'
  PROVE  RegistryKept'
<1>0. /\ \A q \in Registry!Ids : rooms[q] # None => rooms[q] \in Objects
      /\ \A x \in Objects : registrySaid[x] \subseteq registrySaid'[x]
      /\ rooms' = rooms /\ registryMade' = registryMade /\ replaced' = replaced
      /\ registryFile \in [Registry!Ids -> {None} \cup [object : Objects, said : Said]]
  BY DEF Registry!TypeOK, RegistryAdds, Said
<1>1. RegistryOwned'
  BY <1>0 DEF RegistryKept, RegistryOwned
<1>2. RegistryFiles'
  <2>1. \A q \in Registry!Ids : registryFile'[q] # None => rooms'[q] # None
    BY <1>0 DEF RegistryAdds, RegistryKept, RegistryFiles
  <2>2. ASSUME faults' = 0, NEW q \in Registry!Ids, rooms[q] # None
        PROVE  registryFile'[q] = [object |-> rooms[q], said |-> registrySaid'[rooms[q]]]
    <3>1. faults = 0 /\ registryFile[q] = [object |-> rooms[q], said |-> registrySaid[rooms[q]]]
      BY <2>2 DEF RegistryAdds, RegistryKept, RegistryFiles
    <3>2. CASE q = r /\ registryFile' = [registryFile EXCEPT ![r] =
                              [object |-> rooms[r], said |-> registrySaid'[rooms[r]]]]
      BY <3>2, <1>0
    <3>3. CASE q # r /\ registryFile' = [registryFile EXCEPT ![r] =
                              [object |-> rooms[r], said |-> registrySaid'[rooms[r]]]]
      <4>1. registryFile'[q] = registryFile[q]  BY <3>3, <1>0
      <4>2. rooms[q] # o  BY <3>3, <2>2 DEF RegistryAdds
      <4>3. registrySaid'[rooms[q]] = registrySaid[rooms[q]]
        BY <4>2, <2>2, <1>0 DEF RegistryAdds
      <4> QED  BY <4>1, <4>3, <3>1
    <3>4. CASE registryFile' = registryFile /\ registrySaid' = registrySaid
      BY <3>1, <3>4
    <3> QED  BY <2>2, <3>2, <3>3, <3>4 DEF RegistryAdds
  <2> QED  BY <2>1, <2>2, <1>0 DEF RegistryFiles
<1>3. ASSUME NEW d \in Calls, d # c
      PROVE  RegistryHolds(d)'
  <2>1. /\ registryCall'[d] = registryCall[d] /\ op'[d] = op[d]
        /\ id'[d] = id[d] /\ object'[d] = object[d] /\ RegistryHolds(d) /\ RegistryCall(d)
    BY <1>3 DEF RegistryAdds, RegistryKept
  <2>2. registryCall[d] \in {"queued", "asks", "told"} =>
           registrySaid[rooms[id[d]]] \subseteq registrySaid'[rooms[id[d]]]
    BY <2>1, <1>0 DEF RegistryHolds, RegistryCall
  <2>3. Registry!Contribution(d)' = Registry!Contribution(d)
    BY <2>1 DEF Registry!Contribution
  <2> QED  BY <2>1, <2>2, <2>3, <1>0 DEF RegistryHolds
<1> QED  BY <1>1, <1>2, <1>3 DEF RegistryKept

(* A call that makes the room r: a new object, said nothing but this.      *)
LEMMA RegistryNew ==
  ASSUME Registry!TypeOK, Registry!TypeOK', RegistryKept, \A d \in Calls : RegistryCall(d),
         NEW c \in Calls, NEW r \in Registry!Ids, NEW ok \in BOOLEAN,
         Registry!Insert(r, c, rooms, registrySaid, ok), ~ Spoiled',
         \/ registryCall'[c] = "told" /\ op'[c] \in {"create", "fork"}
         \/ registryCall'[c] = "queued" /\ op'[c] = "challenge",
         id'[c] = r,
         \A d \in Calls : d # c => /\ registryCall'[d] = registryCall[d] /\ op'[d] = op[d]
                                   /\ id'[d] = id[d]
  PROVE  RegistryKept'
<1> DEFINE o == registryMade + 1
<1>0. /\ o \in Objects /\ o # None /\ registryMade' = o /\ o \in Nat /\ o \notin 1 .. registryMade
      /\ registryMade \in Nat
      /\ rooms' = [rooms EXCEPT ![r] = o]
      /\ registrySaid' = [registrySaid EXCEPT ![o] = {<<c, "told">>}]
      /\ replaced' = IF rooms[r] # None \/ registryFile[r] # None THEN replaced \cup {r} ELSE replaced
      /\ object' = [object EXCEPT ![c] = o]
      /\ Registry!Saves(r, rooms', registrySaid', ok)
  <2>1. registryMade \in Nat
    BY SameNumbers DEF Registry!TypeOK
  <2> QED  BY <2>1, NoneIsNoRoom DEF Registry!Insert
<1> HIDE DEF o
<1>1. /\ rooms'[r] = o /\ rooms'[r] # None /\ registrySaid'[o] = {<<c, "told">>}
      /\ \A q \in Registry!Ids : q # r => rooms'[q] = rooms[q]
      /\ \A x \in Objects : x # o => registrySaid'[x] = registrySaid[x]
      /\ \A q \in Registry!Ids : rooms[q] # None => rooms[q] \in Objects /\ rooms[q] # o
                                                    /\ rooms[q] \in 1 .. registryMade
      /\ \A d \in Calls : d # c => object'[d] = object[d]
      /\ registryFile \in [Registry!Ids -> {None} \cup [object : Objects, said : Said]]
  <2>1. /\ rooms'[r] = o /\ rooms'[r] # None /\ registrySaid'[o] = {<<c, "told">>}
        /\ \A q \in Registry!Ids : q # r => rooms'[q] = rooms[q]
        /\ \A x \in Objects : x # o => registrySaid'[x] = registrySaid[x]
        /\ \A d \in Calls : d # c => object'[d] = object[d]
    BY <1>0 DEF Registry!TypeOK
  <2>2. \A q \in Registry!Ids : rooms[q] # None => rooms[q] \in Objects /\ rooms[q] # o
                                                    /\ rooms[q] \in 1 .. registryMade
    BY <1>0 DEF Registry!TypeOK, RegistryKept, RegistryOwned
  <2>3. registryFile \in [Registry!Ids -> {None} \cup [object : Objects, said : Said]]
    BY DEF Registry!TypeOK, Said
  <2> QED  BY <2>1, <2>2, <2>3
<1>2. RegistryOwned'
  <2>1. ASSUME NEW q \in Registry!Ids, rooms'[q] # None PROVE rooms'[q] \in 1 .. registryMade'
    <3>1. o \in 1 .. o /\ \A k \in 1 .. registryMade : k \in 1 .. o
      BY <1>0 DEF o
    <3> QED  BY <3>1, <2>1, <1>0, <1>1
  <2>2. ASSUME NEW q \in Registry!Ids, NEW p \in Registry!Ids, rooms'[q] # None, rooms'[q] = rooms'[p]
        PROVE  q = p
    BY <2>2, <1>1 DEF RegistryKept, RegistryOwned
  <2> QED  BY <2>1, <2>2 DEF RegistryOwned
<1>3. RegistryFiles'
  <2>1. registryFile' \in {registryFile, [registryFile EXCEPT ![r] = [object |-> o, said |-> {<<c, "told">>}]]}
        /\ (registryFile' = registryFile => faults' # 0
            \/ registryFile' = [registryFile EXCEPT ![r] = [object |-> o, said |-> {<<c, "told">>}]])
        /\ (faults' = 0 => faults = 0)
    <3>1. CASE ok
      BY <3>1, <1>0, <1>1 DEF Registry!Saves
    <3>2. CASE ~ ok
      <4>1. registryFile' = registryFile /\ faults' = faults + 1  BY <3>2, <1>0 DEF Registry!Saves
      <4>2. faults \in Nat  BY BoundsAreNatural DEF Registry!TypeOK
      <4> QED  BY <4>1, <4>2
    <3> QED  BY <3>1, <3>2
  <2>2. ASSUME NEW q \in Registry!Ids, registryFile'[q] # None PROVE rooms'[q] # None
    BY <2>1, <2>2, <1>1 DEF RegistryKept, RegistryFiles
  <2>3. ASSUME faults' = 0, NEW q \in Registry!Ids, rooms'[q] # None
        PROVE  registryFile'[q] = [object |-> rooms'[q], said |-> registrySaid'[rooms'[q]]]
    <3>1. registryFile' = [registryFile EXCEPT ![r] = [object |-> o, said |-> {<<c, "told">>}]]
      BY <2>1, <2>3
    <3>2. CASE q = r
      BY <3>1, <3>2, <1>1
    <3>3. CASE q # r
      <4>1. rooms'[q] = rooms[q] /\ registryFile'[q] = registryFile[q] /\ rooms[q] # None
        BY <3>1, <3>3, <2>3, <1>1
      <4>2. registrySaid'[rooms[q]] = registrySaid[rooms[q]]
        BY <4>1, <1>1
      <4> QED  BY <4>1, <4>2, <2>1, <2>3 DEF RegistryKept, RegistryFiles
    <3> QED  BY <3>2, <3>3
  <2> QED  BY <2>2, <2>3 DEF RegistryFiles
<1>4. RegistryHolds(c)'
  <2>1. CASE registryCall'[c] = "told" /\ op'[c] \in {"create", "fork"}
    <3>1. Registry!Contribution(c)' = {<<c, "told">>}
      BY <2>1 DEF Registry!Contribution
    <3> QED  BY <2>1, <3>1, <1>1 DEF RegistryHolds
  <2>2. CASE registryCall'[c] = "queued" /\ op'[c] = "challenge"
    BY <2>2, <1>1 DEF RegistryHolds
  <2> QED  BY <2>1, <2>2
<1>5. ASSUME NEW d \in Calls, d # c
      PROVE  RegistryHolds(d)'
  <2>1. /\ registryCall'[d] = registryCall[d] /\ op'[d] = op[d] /\ id'[d] = id[d]
        /\ object'[d] = object[d] /\ RegistryHolds(d) /\ RegistryCall(d)
        /\ Registry!Contribution(d)' = Registry!Contribution(d)
    BY <1>5, <1>1 DEF RegistryKept, Registry!Contribution
  <2>2. CASE ~ registryCall[d] \in {"queued", "asks", "told"}
    BY <2>1, <2>2 DEF RegistryHolds
  <2>3. CASE registryCall[d] \in {"queued", "asks", "told"}
    <3>1. /\ id[d] \in Registry!Ids /\ rooms[id[d]] # None /\ rooms'[id[d]] # None
          /\ id[d] \notin replaced' => id[d] # r /\ id[d] \notin replaced
      BY <2>1, <2>3, <1>0, <1>1 DEF RegistryHolds, RegistryCall
    <3>2. registryCall[d] = "asks" =>
            /\ object[d] \in 1 .. registryMade'
            /\ \A q \in Registry!Ids : rooms'[q] = object[d] => q = id[d]
      <4>1. SUFFICES ASSUME registryCall[d] = "asks"
                     PROVE  /\ object[d] \in 1 .. registryMade'
                            /\ \A q \in Registry!Ids : rooms'[q] = object[d] => q = id[d]
        OBVIOUS
      <4>2. /\ object[d] \in 1 .. registryMade
            /\ \A q \in Registry!Ids : rooms[q] = object[d] => q = id[d]
        BY <2>1, <4>1 DEF RegistryHolds
      <4>3. object[d] \in 1 .. registryMade' /\ object[d] # o
        BY <4>2, <1>0 DEF o
      <4> QED  BY <4>2, <4>3, <1>1
    <3>3. id[d] # r => /\ rooms'[id[d]] = rooms[id[d]]
                       /\ registrySaid'[rooms[id[d]]] = registrySaid[rooms[id[d]]]
      BY <3>1, <1>1
    <3> QED  BY <2>1, <3>1, <3>2, <3>3 DEF RegistryHolds
  <2> QED  BY <2>2, <2>3
<1> QED  BY <1>2, <1>3, <1>4, <1>5 DEF RegistryKept

(* Nothing is loaded that is in memory already, and everything is.         *)
LEMMA RegistryLoads ==
  ASSUME RegistryKept, Registry!TypeOK, NEW r \in Registry!Ids
  PROVE  Registry!Loaded(r) = rooms /\ Registry!Read(r) = registrySaid
BY DEF Registry!Loaded, Registry!Read, RegistryKept, RegistryFiles

(* Crashes and faults are counted, never forgotten.                        *)
LEMMA RegistrySpoils ==
  ASSUME RegistryInv, [Registry!Next]_registryVars, Registry!TypeOK', Spoiled
  PROVE  Spoiled'
<1>0. registryCrashes \in Nat /\ faults \in Nat
  BY BoundsAreNatural DEF RegistryInv, Registry!TypeOK
<1>1. ASSUME NEW r, NEW objects, NEW messages, NEW ok, Registry!Saves(r, objects, messages, ok)
      PROVE  faults' >= faults
  BY <1>0, <1>1 DEF Registry!Saves
<1>2. ASSUME NEW c \in Calls, NEW r \in Registry!Ids, NEW ok \in BOOLEAN,
             Registry!Challenge(c, r, ok) \/ Registry!Inject(c, r, ok) \/ Registry!Run(c, r, ok)
      PROVE  faults' >= faults /\ registryCrashes' = registryCrashes
  BY <1>1, <1>2
  DEF Registry!Challenge, Registry!Inject, Registry!Run, Registry!Insert, Registry!Adds
<1>3. ASSUME NEW c \in Calls, NEW r \in Registry!Ids,
             \/ Registry!Create(c, r) \/ Registry!Add(c, r) \/ Registry!Synthesize(c, r)
             \/ \E new \in Rooms : Registry!Fork(c, r, new)
      PROVE  faults' = faults /\ registryCrashes' = registryCrashes
  BY <1>3 DEF Registry!Create, Registry!Add, Registry!Synthesize, Registry!Fork
<1>4. ASSUME NEW c \in Calls, NEW ok \in BOOLEAN,
             Registry!Prepared(c, ok) \/ Registry!Added(c, ok) \/ Registry!Reply(c, ok)
      PROVE  faults' >= faults /\ registryCrashes' = registryCrashes
  BY <1>1, <1>4
  DEF Registry!Prepared, Registry!Added, Registry!Reply, Registry!Insert, Registry!Adds
<1>5. ASSUME NEW c \in Calls, Registry!Enter(c) \/ Registry!Cancel(c)
      PROVE  faults' = faults /\ registryCrashes' = registryCrashes
  BY <1>5 DEF Registry!Enter, Registry!Cancel
<1>6. ASSUME NEW skipped \in SUBSET Registry!Ids, Registry!Restart(skipped)
      PROVE  faults' >= faults /\ registryCrashes' = registryCrashes + 1
  <2>1. Cardinality(skipped) \in Nat
    BY IdsAreFinite, FS_Subset, FS_CardinalityType DEF Registry!Ids
  <2>2. Registry!Cardinality(skipped) = Cardinality(skipped)
    BY Zenon DEF Registry!Cardinality, Cardinality
  <2> QED  BY <2>1, <2>2, <1>0, <1>6 DEF Registry!Restart
<1>7. CASE UNCHANGED registryVars
  BY <1>7 DEF registryVars, Spoiled
<1>8. registryCrashes' \in {registryCrashes, registryCrashes + 1} /\ faults' >= faults
  <2>1. CASE UNCHANGED registryVars
    BY <2>1, <1>0 DEF registryVars
  <2>2. CASE Registry!Next
    BY <2>2, <1>0, <1>2, <1>3, <1>4, <1>5, <1>6 DEF Registry!Next
  <2> QED  BY <2>1, <2>2 DEF Registry!vars, registryVars
<1>9. faults > 0 /\ registryCrashes > 0  BY DEF Spoiled
<1>10. faults' > 0
  <2>1. faults' \in Nat  BY BoundsAreNatural DEF Registry!TypeOK
  <2> QED  BY <2>1, <1>0, <1>8, <1>9
<1> QED  BY <1>0, <1>8, <1>9, <1>10 DEF Spoiled

(* Something said in the room of an id, and its save.                      *)
LEMMA SavedAdds ==
  ASSUME Registry!TypeOK, RegistryKept, NEW c \in Calls, NEW r \in Registry!Ids, NEW o \in Objects,
         NEW ok \in BOOLEAN, rooms[r] # None, NEW m,
         \A q \in Registry!Ids : rooms[q] # None /\ rooms[q] = o => q = r,
         registrySaid' = [registrySaid EXCEPT ![o] = @ \cup m],
         Registry!Saves(r, rooms, registrySaid', ok),
         rooms' = rooms, registryMade' = registryMade, replaced' = replaced,
         \A d \in Calls : d # c => /\ registryCall'[d] = registryCall[d] /\ op'[d] = op[d]
                                   /\ id'[d] = id[d] /\ object'[d] = object[d]
  PROVE  RegistryAdds(c, r, o)
<1>1. \A x \in Objects : /\ registrySaid[x] \subseteq registrySaid'[x]
                         /\ x # o => registrySaid'[x] = registrySaid[x]
  BY DEF Registry!TypeOK
<1>2. faults \in Nat
  BY BoundsAreNatural DEF Registry!TypeOK
<1>3. CASE ok
  BY <1>1, <1>3 DEF Registry!Saves, RegistryAdds
<1>4. CASE ~ ok
  <2>1. registryFile' = registryFile /\ faults' = faults + 1  BY <1>4 DEF Registry!Saves
  <2>2. faults' # 0  BY <2>1, <1>2
  <2> QED  BY <1>1, <2>1, <2>2 DEF RegistryAdds
<1> QED  BY <1>3, <1>4

LEMMA RegistryStep ==
  ASSUME RegistryInv, [Registry!Next]_registryVars, Registry!TypeOK',
         \A c \in Calls : RegistryCall(c)', ~ Spoiled'
  PROVE  RegistryKept'
<1>0. /\ Registry!TypeOK /\ RegistryKept /\ \A c \in Calls : RegistryCall(c)
      /\ \A q \in Registry!Ids : rooms[q] # None => rooms[q] \in Objects /\ rooms[q] \in 1 .. registryMade
      /\ faults \in Nat
  <2>1. Registry!TypeOK /\ RegistryKept /\ \A c \in Calls : RegistryCall(c)
    BY RegistrySpoils DEF RegistryInv
  <2> QED
    BY <2>1, BoundsAreNatural DEF Registry!TypeOK, RegistryKept, RegistryOwned
<1>a. \A r \in Registry!Ids : Registry!Loaded(r) = rooms /\ Registry!Read(r) = registrySaid
  BY <1>0, RegistryLoads
<1>1. ASSUME NEW c \in Calls, NEW r \in Registry!Ids,
             \/ Registry!Create(c, r)
             \/ \E new \in Rooms : Registry!Fork(c, r, new)
             \/ Registry!Add(c, r) \/ Registry!Synthesize(c, r)
      PROVE  RegistryKept'
  <2>1. RegistryAdds(c, r, None)
    BY <1>0, <1>1, <1>a
    DEF Registry!Create, Registry!Fork, Registry!Add, Registry!Synthesize, Registry!Begins,
        Registry!Becomes, Registry!TypeOK, RegistryAdds
  <2>2. RegistryHolds(c)'
    <3>1. CASE registryCall'[c] \in {"prepares", "refused"}
      BY <3>1 DEF RegistryHolds
    <3>2. CASE Registry!Add(c, r)
      <4>1. registryCall'[c] = "queued" /\ op'[c] = "add" /\ id'[c] = r /\ rooms'[r] # None
        BY <3>2, <1>0, <1>a DEF Registry!Add, Registry!Begins, Registry!Becomes, Registry!TypeOK
      <4> QED  BY <4>1 DEF RegistryHolds
    <3>3. CASE Registry!Synthesize(c, r)
      <4>1. /\ registryCall'[c] = "asks" /\ op'[c] = "synthesize" /\ id'[c] = r /\ rooms'[r] # None
            /\ object'[c] = rooms[r] /\ rooms' = rooms /\ registryMade' = registryMade
        BY <3>3, <1>0, <1>a
        DEF Registry!Synthesize, Registry!Begins, Registry!Becomes, Registry!TypeOK
      <4> QED  BY <4>1, <1>0 DEF RegistryHolds, RegistryKept, RegistryOwned
    <3> QED
      BY <1>1, <3>1, <3>2, <3>3, <1>0
      DEF Registry!Create, Registry!Fork, Registry!Becomes, Registry!TypeOK
  <2> QED  BY <2>1, <2>2, <1>0, RegistryOne
<1>2. ASSUME NEW c \in Calls, NEW ok \in BOOLEAN, Registry!Prepared(c, ok)
      PROVE  RegistryKept'
  <2>1. /\ id[c] \in Registry!Ids /\ op[c] \in {"create", "fork"} /\ id' = id /\ op' = op
        /\ Registry!Insert(id[c], c, rooms, registrySaid, ok)
        /\ registryCall' = [registryCall EXCEPT ![c] = "told"]
    BY <1>0, <1>2 DEF RegistryCall, Registry!Prepared, Registry!Becomes
  <2>2. registryCall'[c] = "told" /\ \A d \in Calls : d # c => registryCall'[d] = registryCall[d]
    BY <2>1, <1>0 DEF Registry!TypeOK
  <2> QED  BY <2>1, <2>2, <1>0, RegistryNew
<1>3. ASSUME NEW c \in Calls, NEW r \in Registry!Ids, NEW ok \in BOOLEAN, Registry!Challenge(c, r, ok)
      PROVE  RegistryKept'
  <2>1. Registry!Insert(Challenged, c, rooms, registrySaid, ok) /\ Challenged \in Registry!Ids
    BY <1>3, <1>a DEF Registry!Challenge, Registry!Ids
  <2>2. /\ registryCall'[c] = "queued" /\ op'[c] = "challenge" /\ id'[c] = Challenged
        /\ \A d \in Calls : d # c => /\ registryCall'[d] = registryCall[d] /\ op'[d] = op[d]
                                     /\ id'[d] = id[d]
    BY <1>3, <1>0
    DEF Registry!Challenge, Registry!Begins, Registry!Becomes, Registry!TypeOK
  <2> QED  BY <2>1, <2>2, <1>0, RegistryNew
<1>4. ASSUME NEW c \in Calls, NEW r \in Registry!Ids, NEW ok \in BOOLEAN,
             Registry!Inject(c, r, ok) \/ Registry!Run(c, r, ok)
      PROVE  RegistryKept'
  <2>1. /\ rooms[r] # None /\ rooms' = rooms /\ registryMade' = registryMade /\ replaced' = replaced
        /\ registrySaid' = [registrySaid EXCEPT ![rooms[r]] = @ \cup {<<c, "told">>}]
        /\ Registry!Saves(r, rooms, registrySaid', ok)
    BY <1>4, <1>a DEF Registry!Inject, Registry!Run, Registry!Adds
  <2>2. /\ id'[c] = r
        /\ \/ registryCall'[c] = "told" /\ op'[c] = "inject"
           \/ registryCall'[c] = "queued" /\ op'[c] = "run"
        /\ \A d \in Calls : d # c => /\ registryCall'[d] = registryCall[d] /\ op'[d] = op[d]
                                     /\ id'[d] = id[d] /\ object'[d] = object[d]
    BY <1>4, <1>0
    DEF Registry!Inject, Registry!Run, Registry!Begins, Registry!Becomes, Registry!TypeOK
  <2>3. \A q \in Registry!Ids : rooms[q] # None /\ rooms[q] = rooms[r] => q = r
    BY <1>0 DEF RegistryKept, RegistryOwned
  <2>4. RegistryAdds(c, r, rooms[r])
    BY <2>1, <2>2, <2>3, <1>0, SavedAdds
  <2>5. <<c, "told">> \in registrySaid'[rooms[r]]
    BY <2>1, <1>0 DEF Registry!TypeOK
  <2>6. RegistryHolds(c)'
    <3>1. registryCall'[c] = "told" => Registry!Contribution(c)' = {<<c, "told">>}
      BY <2>2 DEF Registry!Contribution
    <3> QED  BY <2>1, <2>2, <2>5, <3>1 DEF RegistryHolds
  <2> QED  BY <2>4, <2>6, <1>0, RegistryOne
<1>5. ASSUME NEW c \in Calls, Registry!Enter(c)
      PROVE  RegistryKept'
  <2>1. /\ id[c] \in Registry!Ids /\ rooms[id[c]] # None /\ op[c] \in {"run", "challenge"}
        /\ registryCall'[c] = "asks" /\ op' = op /\ id' = id /\ object'[c] = rooms[id[c]]
        /\ rooms' = rooms /\ registryMade' = registryMade /\ registrySaid' = registrySaid
        /\ replaced' = replaced /\ RegistryHolds(c) /\ registryCall[c] = "queued"
    BY <1>0, <1>5
    DEF Registry!Enter, Registry!Becomes, Registry!TypeOK, RegistryCall, RegistryHolds, RegistryKept
  <2>2. RegistryAdds(c, id[c], None)
    BY <1>0, <1>5, <2>1 DEF Registry!Enter, Registry!Becomes, Registry!TypeOK, RegistryAdds
  <2>3. RegistryHolds(c)'
    BY <2>1, <1>0 DEF RegistryHolds, RegistryKept, RegistryOwned
  <2> QED  BY <2>1, <2>2, <2>3, <1>0, RegistryOne
<1>6. ASSUME NEW c \in Calls, NEW ok \in BOOLEAN, Registry!Added(c, ok)
      PROVE  RegistryKept'
  <2>1. /\ id[c] \in Registry!Ids /\ rooms[id[c]] # None /\ op[c] = "add"
        /\ registryCall'[c] = "told" /\ op' = op /\ id' = id
        /\ rooms' = rooms /\ registryMade' = registryMade /\ replaced' = replaced
        /\ registrySaid' = [registrySaid EXCEPT ![rooms[id[c]]] = @ \cup {<<c, "told">>}]
        /\ Registry!Saves(id[c], rooms, registrySaid', ok)
        /\ \A d \in Calls : d # c => registryCall'[d] = registryCall[d] /\ object'[d] = object[d]
    BY <1>0, <1>6, <1>a
    DEF Registry!Added, Registry!Adds, Registry!Becomes, Registry!TypeOK, RegistryCall,
        RegistryHolds, RegistryKept
  <2>2. \A q \in Registry!Ids : rooms[q] # None /\ rooms[q] = rooms[id[c]] => q = id[c]
    BY <2>1, <1>0 DEF RegistryKept, RegistryOwned
  <2>3. RegistryAdds(c, id[c], rooms[id[c]])
    BY <2>1, <2>2, <1>0, SavedAdds
  <2>4. RegistryHolds(c)'
    <3>1. Registry!Contribution(c)' = {<<c, "told">>}
      BY <2>1 DEF Registry!Contribution
    <3>2. <<c, "told">> \in registrySaid'[rooms[id[c]]]
      BY <2>1, <1>0 DEF Registry!TypeOK
    <3> QED  BY <2>1, <3>1, <3>2 DEF RegistryHolds
  <2> QED  BY <2>1, <2>3, <2>4, <1>0, RegistryOne
<1>7. ASSUME NEW c \in Calls, NEW ok \in BOOLEAN, Registry!Reply(c, ok)
      PROVE  RegistryKept'
  <2>1. /\ id[c] \in Registry!Ids /\ rooms[id[c]] # None /\ op[c] \in {"run", "challenge", "synthesize"}
        /\ registryCall[c] = "asks" /\ registryCall'[c] = "told" /\ op' = op /\ id' = id /\ object' = object
        /\ rooms' = rooms /\ registryMade' = registryMade /\ replaced' = replaced
        /\ registrySaid' = [registrySaid EXCEPT ![object[c]] = @ \cup {<<c, "reply">>}]
        /\ Registry!Saves(id[c], rooms, registrySaid', ok)
        /\ \A d \in Calls : d # c => registryCall'[d] = registryCall[d]
        /\ RegistryHolds(c)
    BY <1>0, <1>7
    DEF Registry!Reply, Registry!Becomes, Registry!TypeOK, RegistryCall, RegistryHolds, RegistryKept
  <2>2. /\ object[c] \in Objects
        /\ \A q \in Registry!Ids : rooms[q] # None /\ rooms[q] = object[c] => q = id[c]
    <3>1. object[c] \in 1 .. registryMade /\ \A q \in Registry!Ids : rooms[q] = object[c] => q = id[c]
      BY <2>1 DEF RegistryHolds
    <3>2. registryMade \in 0 .. Cardinality(Objects)
      BY <1>0, SameNumbers DEF Registry!TypeOK
    <3>3. object[c] \in 1 .. Cardinality(Objects)
      BY <3>1, <3>2, SameNumbers
    <3> QED  BY <3>1, <3>3, SameNumbers
  <2>3. RegistryAdds(c, id[c], object[c])
    BY <2>1, <2>2, <1>0, SavedAdds
  <2>4. RegistryHolds(c)'
    <3>1. ASSUME id[c] \notin replaced
          PROVE  Registry!Contribution(c)' \subseteq registrySaid'[rooms[id[c]]]
      <4>1. object[c] = rooms[id[c]]
        BY <2>1, <3>1 DEF RegistryHolds
      <4>2. op[c] \in {"run", "challenge"} => <<c, "told">> \in registrySaid[rooms[id[c]]]
        BY <2>1, <3>1 DEF RegistryHolds
      <4>3. registrySaid'[rooms[id[c]]] = registrySaid[rooms[id[c]]] \cup {<<c, "reply">>}
        BY <2>1, <2>2, <4>1, <1>0 DEF Registry!TypeOK
      <4> QED  BY <2>1, <4>2, <4>3 DEF Registry!Contribution
    <3> QED  BY <2>1, <3>1 DEF RegistryHolds
  <2> QED  BY <2>1, <2>3, <2>4, <1>0, RegistryOne
<1>8. ASSUME NEW c \in Calls, Registry!Cancel(c)
      PROVE  RegistryKept'
  <2>1. registryCall'[c] = "cut" /\ id[c] \in Registry!Ids
    BY <1>0, <1>8 DEF Registry!Cancel, Registry!Becomes, Registry!TypeOK, RegistryCall, Registry!Busy
  <2>2. RegistryAdds(c, id[c], None)
    BY <1>0, <1>8 DEF Registry!Cancel, Registry!Becomes, Registry!TypeOK, RegistryAdds
  <2>3. RegistryHolds(c)'
    BY <2>1 DEF RegistryHolds
  <2> QED  BY <2>1, <2>2, <2>3, <1>0, RegistryOne
<1>9. ASSUME NEW skipped \in SUBSET Registry!Ids, Registry!Restart(skipped)
      PROVE  RegistryKept'
  <2>1. faults' = 0 /\ faults = 0 /\ skipped = {}
    <3>1. IsFiniteSet(skipped) /\ Cardinality(skipped) \in Nat
      BY IdsAreFinite, FS_Subset, FS_CardinalityType DEF Registry!Ids
    <3>2. Registry!Cardinality(skipped) = Cardinality(skipped)
      BY Zenon DEF Registry!Cardinality, Cardinality
    <3>3. faults' = faults + Cardinality(skipped) /\ registryCrashes' = registryCrashes + 1
      BY <3>2, <1>9 DEF Registry!Restart
    <3>4. registryCrashes' > 0
      BY <3>3, <1>0, BoundsAreNatural DEF Registry!TypeOK
    <3>5. faults' = 0 /\ faults = 0 /\ Cardinality(skipped) = 0
      BY <3>1, <3>3, <3>4, <1>0 DEF Spoiled
    <3> QED  BY <3>1, <3>5, FS_EmptySet
  <2> DEFINE read == {r \in Registry!Ids : registryFile[r] # None} \ skipped
             of(o) == {r \in read : registryFile[r].object = o}
  <2>2. \A r \in Registry!Ids : /\ rooms[r] # None <=> r \in read
                                /\ rooms[r] # None => /\ registryFile[r].object = rooms[r]
                                                      /\ registryFile[r].said = registrySaid[rooms[r]]
    <3> TAKE r \in Registry!Ids
    <3>1. registryFile[r] # None => rooms[r] # None
      BY <1>0 DEF RegistryKept, RegistryFiles
    <3>2. rooms[r] # None => registryFile[r] = [object |-> rooms[r], said |-> registrySaid[rooms[r]]]
      BY <2>1, <1>0 DEF RegistryKept, RegistryFiles
    <3>3. rooms[r] # None => registryFile[r] # None
      <4>1. SUFFICES ASSUME rooms[r] # None PROVE registryFile[r] # None  OBVIOUS
      <4>2. rooms[r] \in Objects /\ registrySaid[rooms[r]] \in SUBSET (Calls \X {"told", "reply"})
        BY <4>1, <1>0 DEF Registry!TypeOK
      <4>3. registryFile[r] \in [object : Objects, said : SUBSET (Calls \X {"told", "reply"})]
        BY <4>1, <4>2, <3>2
      <4> QED  BY <4>3, NoneIsNoRoom
    <3> QED  BY <3>1, <3>2, <3>3, <2>1
  <2>3. rooms' = rooms
    <3>1. rooms' = [r \in Registry!Ids |-> IF r \in read THEN registryFile[r].object ELSE None]
      BY <1>9 DEF Registry!Restart
    <3> HIDE DEF read
    <3>2. rooms = [r \in Registry!Ids |-> IF r \in read THEN registryFile[r].object ELSE None]
      BY <2>2, <1>0 DEF Registry!TypeOK
    <3> QED  BY <3>1, <3>2
  <2>4. registrySaid' = registrySaid
    <3>1. registrySaid' = [o \in Objects |-> IF of(o) = {} THEN registrySaid[o]
                                             ELSE registryFile[CHOOSE r \in of(o) : TRUE].said]
      BY <1>9 DEF Registry!Restart
    <3>2. ASSUME NEW o \in Objects, of(o) # {}
          PROVE  registryFile[CHOOSE r \in of(o) : TRUE].said = registrySaid[o]
      <4>1. (CHOOSE r \in of(o) : TRUE) \in of(o)  BY <3>2
      <4>2. PICK q \in read : q = (CHOOSE r \in of(o) : TRUE) /\ registryFile[q].object = o
        BY <4>1
      <4> HIDE DEF read, of
      <4>3. q \in Registry!Ids /\ rooms[q] # None  BY <4>2, <2>2 DEF read
      <4>4. registryFile[q].said = registrySaid[rooms[q]] /\ rooms[q] = o
        BY <4>2, <4>3, <2>2
      <4> QED  BY <4>2, <4>4
    <3> HIDE DEF of
    <3>3. registrySaid = [o \in Objects |-> IF of(o) = {} THEN registrySaid[o]
                                            ELSE registryFile[CHOOSE r \in of(o) : TRUE].said]
      BY <3>2, <1>0 DEF Registry!TypeOK
    <3> QED  BY <3>1, <3>3
  <2>5. UNCHANGED <<registryMade, registryFile, op, id, object, replaced>>
    BY <1>9 DEF Registry!Restart
  <2>6. RegistryOwned' /\ RegistryFiles'
    BY <2>1, <2>3, <2>4, <2>5, <1>0 DEF RegistryKept, RegistryOwned, RegistryFiles
  <2>7. ASSUME NEW c \in Calls PROVE RegistryHolds(c)'
    <3>1. RegistryHolds(c)  BY <1>0 DEF RegistryKept
    <3>2. registryCall'[c] = "cut" \/ registryCall'[c] = registryCall[c]
      BY <1>9, <1>0 DEF Registry!Restart
    <3>3. Registry!Contribution(c)' = Registry!Contribution(c)
      BY <2>5 DEF Registry!Contribution
    <3> QED  BY <3>1, <3>2, <3>3, <2>3, <2>4, <2>5 DEF RegistryHolds
  <2> QED  BY <2>6, <2>7 DEF RegistryKept
<1>10. CASE UNCHANGED registryVars
  BY <1>0, <1>10
  DEF registryVars, RegistryKept, RegistryOwned, RegistryFiles, RegistryHolds, Registry!Contribution
<1> QED
  BY <1>1, <1>2, <1>3, <1>4, <1>5, <1>6, <1>7, <1>8, <1>9, <1>10
  DEF Registry!Next, Registry!vars, registryVars

(* The registry keeps its invariant.                                       *)
LEMMA RegistryAlways == Spec => []RegistryInv
<1>1. Init => RegistryInv  BY RegistryInit DEF Init
<1>2. RegistryInv /\ [Next]_vars => RegistryInv'
  <2> SUFFICES ASSUME RegistryInv, [Next]_vars PROVE RegistryInv'  OBVIOUS
  <2>1. [Registry!Next]_registryVars  BY RegistrySteps
  <2>2. Registry!TypeOK'  BY <2>1, RegistryTypes
  <2>3. \A c \in Calls : RegistryCall(c)'  BY <2>1, RegistryCalls
  <2>4. Spoiled' \/ RegistryKept'  BY <2>1, <2>2, <2>3, RegistryStep
  <2> QED  BY <2>2, <2>3, <2>4 DEF RegistryInv
<1> QED  BY <1>1, <1>2, PTL DEF Spec

(* A room holds what its callers were told, in memory and in its file, for *)
(* any rooms and calls: through waits, locks and loads, unless the room    *)
(* was replaced or a file failed before a restart.                         *)
THEOREM RoomsKeepWhatWasTold == Spec => []RoomsAreKept
<1>1. RegistryInv => RoomsAreKept
  <2> SUFFICES ASSUME RegistryInv PROVE Registry!ToldIsKept /\ Registry!FileIsCurrent
    BY DEF RoomsAreKept, Registry!RoomsAreKept
  <2>1. Registry!ToldIsKept
    BY DEF RegistryInv, Spoiled, RegistryKept, RegistryHolds, Registry!ToldIsKept
  <2>2. Registry!FileIsCurrent
    BY DEF RegistryInv, Spoiled, RegistryKept, RegistryFiles, Registry!FileIsCurrent, Registry!Open
  <2> QED  BY <2>1, <2>2
<1> QED  BY <1>1, RegistryAlways, PTL

-----------------------------------------------------------------------------
(* Workflows.                                                              *)

(* Numbers have a least one: of the sets of those below, one is minimal.   *)
LEMMA LeastNumber ==
  ASSUME NEW S, S \subseteq Nat, S # {}
  PROVE  \E n \in S : \A m \in S : n <= m
<1> DEFINE Below(n) == 0 .. (n - 1)
           T == {Below(n) : n \in S}
<1>1. IsWellFoundedOn(StrictSubsetOrdering(Nat), FiniteSubsetsOf(Nat))
  BY FS_StrictSubsetOrderingWellFounded
<1>2. T \subseteq FiniteSubsetsOf(Nat) /\ T # {}
  <2>1. ASSUME NEW n \in S PROVE Below(n) \in FiniteSubsetsOf(Nat)
    <3>1. n \in Nat /\ 0 \in Int /\ n - 1 \in Int /\ Below(n) \subseteq Nat  OBVIOUS
    <3>2. IsFiniteSet(Below(n))  BY <3>1, FS_Interval
    <3> HIDE DEF Below
    <3> QED  BY <3>1, <3>2 DEF FiniteSubsetsOf
  <2> HIDE DEF Below
  <2> QED  BY <2>1
<1>3. PICK x \in T : \A y \in T : <<y, x>> \notin StrictSubsetOrdering(Nat)
  <2> HIDE DEF T
  <2> QED  BY <1>1, <1>2, WFMin
<1>4. PICK n \in S : x = Below(n)  BY <1>3
<1>5. ASSUME NEW m \in S, ~ n <= m PROVE FALSE
  <2>1. m \in Nat /\ n \in Nat  OBVIOUS
  <2>2. Below(m) \subseteq Below(n) /\ m \in Below(n) /\ m \notin Below(m)
    BY <1>5, <2>1
  <2>3. Below(m) \in SUBSET Nat /\ Below(n) \in SUBSET Nat  BY <2>1
  <2>4. Below(m) \in T  OBVIOUS
  <2> HIDE DEF Below
  <2>5. <<Below(m), Below(n)>> \in StrictSubsetOrdering(Nat)
    BY <2>2, <2>3 DEF StrictSubsetOrdering
  <2> QED  BY <1>3, <1>4, <2>4, <2>5
<1> QED  BY <1>5

(* Induction up to n, over a set instead of a predicate.                   *)
LEMMA UpTo ==
  ASSUME NEW n \in Nat, NEW S, 0 \in S, \A i \in 1 .. n : i - 1 \in S => i \in S
  PROVE  \A i \in 0 .. n : i \in S
<1> DEFINE Out == {i \in 0 .. n : i \notin S}
<1>1. ASSUME Out # {} PROVE FALSE
  <2>1. Out \subseteq Nat  OBVIOUS
  <2>2. PICK i \in Out : \A m \in Out : i <= m
    <3> HIDE DEF Out
    <3> QED  BY <1>1, <2>1, LeastNumber
  <2>3. i \in 1 .. n /\ i - 1 \in 0 .. n  OBVIOUS
  <2>4. i - 1 \notin Out  BY <2>2, <2>3
  <2> QED  BY <2>3, <2>4
<1> QED  BY <1>1

(* The table of a workflow, row by row.                                    *)
IsTable(w, t) ==
  t = [i \in 0 .. Len(w) |->
         IF i = 0 THEN [x \in {} |-> None] ELSE Compiled!Known(w, t[i - 1], i)]

(* Such a table exists: of n rows for every n, one row after the other.    *)
LEMMA TableExists ==
  ASSUME NEW w, Len(w) \in Nat
  PROVE  \E t : IsTable(w, t)
<1> DEFINE Rows(n, t) == /\ t = [i \in 0 .. n |-> t[i]]
                         /\ t[0] = [x \in {} |-> None]
                         /\ \A i \in 1 .. n : t[i] = Compiled!Known(w, t[i - 1], i)
           S == {n \in Nat : \E t : Rows(n, t)}
<1>1. 0 \in S
  <2>1. Rows(0, [i \in 0 .. 0 |-> [x \in {} |-> None]])  OBVIOUS
  <2> QED  BY <2>1
<1>2. ASSUME NEW n \in 1 .. Len(w), n - 1 \in S PROVE n \in S
  <2>1. PICK t : Rows(n - 1, t)  BY <1>2
  <2> DEFINE u == [i \in 0 .. n |-> IF i = n THEN Compiled!Known(w, t[n - 1], n) ELSE t[i]]
  <2>2. \A i \in 1 .. n : i - 1 \in 0 .. n /\ i \in 0 .. n /\ i - 1 # n /\ (i # n => i \in 1 .. n - 1)
    OBVIOUS
  <2>3. \A i \in 1 .. n : u[i - 1] = t[i - 1]  BY <2>2
  <2>4. \A i \in 1 .. n : i # n => u[i] = t[i]  BY <2>2
  <2>5. u[n] = Compiled!Known(w, t[n - 1], n) /\ u[0] = t[0] /\ n \in 1 .. n  OBVIOUS
  <2>6. u = [i \in 0 .. n |-> u[i]]  OBVIOUS
  <2> HIDE DEF u
  <2>7. ASSUME NEW i \in 1 .. n PROVE u[i] = Compiled!Known(w, u[i - 1], i)
    <3>1. CASE i = n  BY <3>1, <2>3, <2>5
    <3>2. CASE i # n
      <4>1. t[i] = Compiled!Known(w, t[i - 1], i)  BY <3>2, <2>1, <2>2
      <4> QED  BY <3>2, <4>1, <2>3, <2>4
    <3> QED  BY <3>1, <3>2
  <2>8. Rows(n, u)  BY <2>1, <2>5, <2>6, <2>7
  <2> QED  BY <2>8
<1>3. Len(w) \in S
  <2>1. Len(w) \in 0 .. Len(w)  OBVIOUS
  <2> HIDE DEF S
  <2>2. \A n \in 1 .. Len(w) : n - 1 \in S => n \in S  BY <1>2
  <2>3. \A n \in 0 .. Len(w) : n \in S  BY <1>1, <2>2, UpTo
  <2> QED  BY <2>1, <2>3
<1>4. PICK t : Rows(Len(w), t)  BY <1>3
<1>5. \A i \in 0 .. Len(w) : i # 0 => i \in 1 .. Len(w)  OBVIOUS
<1>6. IsTable(w, t)  BY <1>4, <1>5 DEF IsTable
<1> QED  BY <1>6

LEMMA LookupIsTable ==
  ASSUME NEW w, Len(w) \in Nat
  PROVE  \E t : IsTable(w, t) /\ Compiled!Lookup(w) = t[Len(w)]
<1>1. IsTable(w, CHOOSE t : IsTable(w, t))  BY TableExists
<1>2. Compiled!Lookup(w) = (CHOOSE t : IsTable(w, t))[Len(w)]
  BY DEF Compiled!Lookup, IsTable
<1> QED  BY <1>1, <1>2

(* The names of the first k steps.                                         *)
Named(w, k) == {Compiled!Name(w, j) : j \in 1 .. k}

(* What the rows up to i make of their aliases: they stand for a step that *)
(* has them, and for one up to m when no step after m has taken them.      *)
IsFound(w, t, i) ==
  \A x \in DOMAIN t : \E k \in 1 .. i : x \in Compiled!AliasesOf(w, k) /\ t[x] = Compiled!Name(w, k)
Stays(w, t, x, m) == x \in DOMAIN t /\ t[x] \in Named(w, m)
IsUntaken(w, x, m, i) == \A k \in m + 1 .. i : x \notin Compiled!Taken(w, k)
RowInv(w, t, i) ==
  /\ IsFound(w, t, i)
  /\ \A m \in 1 .. i : \A k \in 1 .. m : \A x \in Compiled!AliasesOf(w, k) :
       IsUntaken(w, x, m, i) => Stays(w, t, x, m)

LEMMA RowStep ==
  ASSUME NEW w, NEW n \in Nat, NEW i \in 1 .. n, NEW t, RowInv(w, t, i - 1)
  PROVE  RowInv(w, Compiled!Known(w, t, i), i)
<1> DEFINE u == Compiled!Known(w, t, i)
           A(k) == Compiled!AliasesOf(w, k)
           T(k) == Compiled!Taken(w, k)
           N(k) == Compiled!Name(w, k)
<1>1. /\ DOMAIN u = DOMAIN t \cup A(i)
      /\ \A x \in DOMAIN u : u[x] = IF x \in T(i) \/ x \notin DOMAIN t THEN N(i) ELSE t[x]
  BY DEF Compiled!Known
<1>2. T(i) \subseteq A(i)  BY DEF Compiled!AliasesOf
<1> HIDE DEF u, A, T, N
<1>3. ASSUME NEW x \in DOMAIN u
      PROVE  \E k \in 1 .. i : x \in A(k) /\ u[x] = N(k)
  <2>1. CASE x \in T(i) \/ x \notin DOMAIN t
    <3>1. x \in A(i) /\ u[x] = N(i)  BY <2>1, <1>1, <1>2
    <3> QED  BY <3>1
  <2>2. CASE x \notin T(i) /\ x \in DOMAIN t
    <3>1. PICK k \in 1 .. i - 1 : x \in A(k) /\ t[x] = N(k)
      BY <2>2 DEF RowInv, IsFound, A, N
    <3>2. k \in 1 .. i /\ u[x] = t[x]  BY <2>2, <1>1
    <3> QED  BY <3>1, <3>2
  <2> QED  BY <2>1, <2>2
<1>4. IsFound(w, u, i)  BY <1>3 DEF IsFound, A, N
<1>5. ASSUME NEW m \in 1 .. i, NEW k \in 1 .. m, NEW x \in A(k), IsUntaken(w, x, m, i)
      PROVE  Stays(w, u, x, m)
  <2>1. CASE m = i
    <3>1. x \in DOMAIN u
      <4>1. CASE k = i  BY <4>1, <1>1
      <4>2. CASE k # i
        <5>1. i - 1 \in 1 .. i - 1 /\ k \in 1 .. i - 1 /\ IsUntaken(w, x, i - 1, i - 1)
          BY <2>1, <4>2 DEF IsUntaken
        <5>2. x \in DOMAIN t  BY <5>1 DEF RowInv, Stays, A
        <5> QED  BY <5>2, <1>1
      <4> QED  BY <4>1, <4>2
    <3>2. u[x] \in Named(w, i)  BY <3>1, <1>3 DEF Named, N
    <3> QED  BY <2>1, <3>1, <3>2 DEF Stays
  <2>2. CASE m # i
    <3>1. m \in 1 .. i - 1 /\ m + 1 <= i /\ i \in m + 1 .. i  BY <2>2
    <3>2. x \notin T(i)  BY <1>5, <3>1 DEF IsUntaken, T
    <3>3. IsUntaken(w, x, m, i - 1)  BY <1>5, <3>1 DEF IsUntaken
    <3>4. Stays(w, t, x, m)  BY <3>1, <3>3 DEF RowInv, A
    <3> QED  BY <3>2, <3>4, <1>1 DEF Stays
  <2> QED  BY <2>1, <2>2
<1>6. RowInv(w, u, i)  BY <1>4, <1>5 DEF RowInv, A
<1> QED  BY <1>6 DEF u

(* The whole table.                                                        *)
LEMMA LookupFinds ==
  ASSUME NEW w, Len(w) \in Nat
  PROVE  RowInv(w, Compiled!Lookup(w), Len(w))
<1>1. PICK t : IsTable(w, t) /\ Compiled!Lookup(w) = t[Len(w)]  BY LookupIsTable
<1> DEFINE S == {i \in Nat : RowInv(w, t[i], i)}
<1>2. 0 \in S
  <2>1. 0 \in 0 .. Len(w)  OBVIOUS
  <2>2. t[0] = [x \in {} |-> None]  BY <1>1, <2>1 DEF IsTable
  <2> QED  BY <2>2 DEF RowInv, IsFound
<1>3. ASSUME NEW i \in 1 .. Len(w), i - 1 \in S PROVE i \in S
  <2>1. i \in 0 .. Len(w) /\ i # 0 /\ i \in Nat  OBVIOUS
  <2>2. t[i] = Compiled!Known(w, t[i - 1], i)  BY <1>1, <2>1 DEF IsTable
  <2>3. RowInv(w, t[i], i)  BY <1>3, <2>2, RowStep
  <2> QED  BY <2>1, <2>3
<1>4. Len(w) \in S
  <2>1. Len(w) \in 0 .. Len(w)  OBVIOUS
  <2> HIDE DEF S
  <2>2. \A i \in 1 .. Len(w) : i - 1 \in S => i \in S  BY <1>3
  <2>3. \A i \in 0 .. Len(w) : i \in S  BY <1>2, <2>2, UpTo
  <2> QED  BY <2>1, <2>3
<1> QED  BY <1>1, <1>4

(* What a workflow is compiled into.                                       *)
Compilation(w) ==
  [i \in DOMAIN w |-> [name  |-> Compiled!Name(w, i),
                       waits |-> Compiled!Resolve(w, Compiled!Awaited(w[i]))]]
WorkflowInv ==
  workflow \in Seq(Compiled!Steps) /\ workflowRoom \in {None, Compilation(workflow)}

LEMMA WorkflowAlways == Spec => []WorkflowInv
<1>1. Init => WorkflowInv
  <2> SUFFICES ASSUME Init PROVE WorkflowInv  OBVIOUS
  <2>1. Compiled!Init  BY DEF Init
  <2>2. MaxSteps \in Nat  BY BoundsAreNatural
  <2>3. PICK m \in 0 .. MaxSteps : workflow \in [1 .. m -> Compiled!Steps]
    BY <2>1 DEF Compiled!Init, Compiled!BoundedSeq, Compiled!SeqOf
  <2>4. workflow \in Seq(Compiled!Steps)  BY <2>2, <2>3
  <2> QED  BY <2>1, <2>4 DEF Compiled!Init, WorkflowInv
<1>2. WorkflowInv /\ [Next]_vars => WorkflowInv'
  <2> SUFFICES ASSUME WorkflowInv, [Next]_vars PROVE WorkflowInv'  OBVIOUS
  <2>1. [Compiled!Next]_workflowVars
    BY DEF Next, vars, workflowVars, RegistryRuns, DetachedRuns, CompiledRuns, PageRuns,
           ClaudeRuns, TurnsRuns, DebateRuns
  <2>2. workflow' = workflow /\ workflowRoom' \in {workflowRoom, Compilation(workflow)}
    BY <2>1 DEF Compiled!Next, Compiled!Compile, Compilation, workflowVars
  <2> QED  BY <2>2 DEF WorkflowInv
<1> QED  BY <1>1, <1>2, PTL DEF Spec

(* For any workflow an alias of its steps stands for one of them, and a    *)
(* step that refers to earlier steps by aliases that neither it nor a      *)
(* later step takes depends on earlier steps only: nobody waits for        *)
(* himself or in a circle.                                                 *)
THEOREM PipelinesAreAcyclic == Spec => []PipelineIsAcyclic
<1>1. WorkflowInv => PipelineIsAcyclic
  <2> DEFINE w == workflow
             room == workflowRoom
             t == Compiled!Lookup(w)
             n == Len(w)
             Waits(i) == Compiled!Awaited(w[i])
  <2> SUFFICES ASSUME WorkflowInv, room # None, NEW i \in DOMAIN room
               PROVE  /\ \A x \in Waits(i) : \A j \in DOMAIN room : x \in Compiled!AliasesOf(w, j) =>
                          \E k \in DOMAIN room : x \in Compiled!AliasesOf(w, k) /\ room[k].name \in room[i].waits
                      /\ (\A x \in Waits(i) : Compiled!IsEarlier(w, x, i)
                                               /\ \A k \in i .. n : x \notin Compiled!Taken(w, k))
                         => room[i].waits \subseteq {room[j].name : j \in 1 .. i - 1}
    BY DEF PipelineIsAcyclic, Compiled!PipelineIsAcyclic
  <2>1. w \in Seq(Compiled!Steps) /\ room = Compilation(w)  BY DEF WorkflowInv
  <2>2. DOMAIN w = 1 .. n /\ n \in Nat  BY <2>1
  <2>3. /\ DOMAIN room = 1 .. n
        /\ room[i].waits = {IF x \in DOMAIN t THEN t[x] ELSE x : x \in Waits(i)}
        /\ \A j \in 1 .. n : room[j].name = Compiled!Name(w, j)
    BY <2>1, <2>2 DEF Compilation, Compiled!Resolve
  <2>4. RowInv(w, t, n)  BY <2>2, LookupFinds
  <2> HIDE DEF w, room, t, n, Waits
  <2>5. ASSUME NEW m \in 1 .. n, NEW j \in 1 .. m, NEW x \in Compiled!AliasesOf(w, j),
               \A k \in m + 1 .. n : x \notin Compiled!Taken(w, k)
        PROVE  x \in DOMAIN t /\ \E k \in 1 .. m : t[x] = Compiled!Name(w, k)
    <3>1. IsUntaken(w, x, m, n)  BY <2>5 DEF IsUntaken
    <3> QED  BY <2>2, <2>4, <3>1 DEF RowInv, Stays, Named
  <2>6. ASSUME NEW x \in Waits(i), NEW j \in DOMAIN room, x \in Compiled!AliasesOf(w, j)
        PROVE  \E k \in DOMAIN room : x \in Compiled!AliasesOf(w, k) /\ room[k].name \in room[i].waits
    <3>1. n \in 1 .. n /\ j \in 1 .. n  BY <2>2, <2>3
    <3>2. x \in DOMAIN t  BY <2>2, <2>5, <2>6, <3>1
    <3>3. PICK k \in 1 .. n : x \in Compiled!AliasesOf(w, k) /\ t[x] = Compiled!Name(w, k)
      BY <2>4, <3>2 DEF RowInv, IsFound
    <3> QED  BY <2>3, <3>2, <3>3
  <2>7. ASSUME \A x \in Waits(i) : Compiled!IsEarlier(w, x, i)
                                  /\ \A k \in i .. n : x \notin Compiled!Taken(w, k),
               NEW y \in room[i].waits
        PROVE  y \in {room[j].name : j \in 1 .. i - 1}
    <3>1. PICK x \in Waits(i) : y = IF x \in DOMAIN t THEN t[x] ELSE x  BY <2>3
    <3>2. PICK j \in 1 .. i - 1 : x \in Compiled!AliasesOf(w, j)
      BY <2>7 DEF Compiled!IsEarlier
    <3>3. i \in 1 .. n /\ i - 1 \in 1 .. n /\ j \in 1 .. i - 1 /\ (i - 1) + 1 = i
      BY <2>2, <2>3, <3>2
    <3>4. \A k \in (i - 1) + 1 .. n : x \notin Compiled!Taken(w, k)  BY <2>7, <3>3
    <3>5. x \in DOMAIN t /\ \E k \in 1 .. i - 1 : t[x] = Compiled!Name(w, k)
      BY <2>5, <3>2, <3>3, <3>4
    <3>6. PICK k \in 1 .. i - 1 : y = Compiled!Name(w, k)  BY <3>1, <3>5
    <3>7. k \in 1 .. n  BY <2>2, <3>3
    <3> QED  BY <2>3, <3>6, <3>7
  <2> QED  BY <2>6, <2>7
<1> QED  BY <1>1, WorkflowAlways, PTL

-----------------------------------------------------------------------------
(* Every component around the room engine keeps its types, whichever of    *)
(* them runs.                                                              *)
THEOREM TypeCorrect == Spec => []TypeOK
<1>1. WorkflowInv => Compiled!TypeOK
  <2> SUFFICES ASSUME WorkflowInv PROVE Compiled!TypeOK  OBVIOUS
  <2>1. workflowRoom # None => DOMAIN workflowRoom = DOMAIN workflow
    BY DEF WorkflowInv, Compilation
  <2> QED  BY <2>1 DEF WorkflowInv, Compiled!TypeOK
<1>2. RegistryInv /\ FusionInv /\ WorkflowInv /\ PageInv /\ ClaudeInv /\ TurnsInv /\ DebateInv
        => TypeOK
  BY <1>1 DEF TypeOK, RegistryInv, FusionInv, PageInv, ClaudeInv, TurnsInv, DebateInv
<1> QED
  BY <1>2, RegistryAlways, FusionAlways, WorkflowAlways, PageAlways, ClaudeAlways, TurnsAlways,
     DebateAlways, PTL

=============================================================================
