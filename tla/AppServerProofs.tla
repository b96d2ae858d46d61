--------------------------- MODULE AppServerProofs ---------------------------
(* Proofs about AppServer, for any callers and any bounds: one process,    *)
(* waiters that are known, answers that are the caller's own.              *)
EXTENDS AppServer, FiniteSetTheorems, SequenceTheorems, TLAPS

(* A caller inside the start lock's reach waits for it or holds it; one    *)
(* that closes the server keeps the singleton's lock; one that respawns    *)
(* the process has failed whatever was in flight.                          *)
Inside  == {"closing", "starting", "reader", "exit", "boot", "init"}
Holding == {"reader", "exit", "boot", "init"}
Closing(c)  == pc[c] = "closing" \/ then[c] = "close"
Respawns(c) == then[c] = "boot" \/ pc[c] = "boot"

(* What the place of a caller says of its other variables.                 *)
PlacesOf(c) ==
  /\ then[c] # "none" <=> pc[c] \in {"reader", "exit"}
  /\ pc[c] \notin {"idle", "single", "done"} => mine[c] # NoServer
  /\ mine[c] <= single
  /\ pc[c] \in Inside => mine[c] = single
  /\ fut[c] # "none" => pc[c] \in {"init", "thread", "ack"}
  /\ turn[c] # "none" => pc[c] \in {"ack", "turn"}
  /\ thread[c] \subseteq {c}
  /\ pc[c] \in {"ack", "turn", "answered"} => thread[c] = {c}
Places == \A c \in Callers : PlacesOf(c)

(* Locks: nobody is in a queue twice, a holder is the head, and a caller   *)
(* that closes the server is the last in the queue for its start lock.     *)
Among(q, c) == \E i \in DOMAIN q : q[i] = c
Ends(q, c)  == q # <<>> /\ q[Len(q)] = c
Queue(q)    == q \in Seq(Callers) /\ \A i, j \in DOMAIN q : q[i] = q[j] => i = j
SingleLock ==
  /\ Queue(slock)
  /\ \A c \in Callers : Among(slock, c) <=> pc[c] = "single" \/ Closing(c)
  /\ \A c \in Callers : Closing(c) => First(slock, c)
StartLock(s) ==
  /\ Queue(startq[s])
  /\ \A c \in Callers : Among(startq[s], c) <=> mine[c] = s /\ pc[c] \in Inside
  /\ \A c \in Callers : mine[c] = s /\ pc[c] \in Holding => First(startq[s], c)
  /\ \A c \in Callers : mine[c] = s /\ Closing(c) => Ends(startq[s], c)
Locks == SingleLock /\ \A s \in Servers : StartLock(s)

(* A caller makes one object and three requests at most.                   *)
Makers  == {c \in Callers : pc[c] \notin {"idle", "single"} /\ ~Closing(c)}
Threads == {c \in Callers : pc[c] \in {"thread", "ack", "turn", "exec", "done", "answered"}}
Turns   == {c \in Callers : pc[c] \in {"ack", "turn", "exec", "done", "answered"}}
Inits   == {c \in Callers : pc[c] = "init" \/ then[c] = "fail" \/ c \in Threads}
Made    == Cardinality(Inits) + Cardinality(Threads) + Cardinality(Turns)
Numbers == single <= Cardinality(Makers) /\ \A s \in Servers : srv[s].next <= Made

(* An id is given once, so an answer is for whoever asked.                 *)
RequestsOf(s) ==
  /\ \A p \in srv[s].pending : p.id < srv[s].next
  /\ \A q \in wire[s] : q.id < srv[s].next
  /\ \A p \in srv[s].pending, q \in wire[s] : p.id = q.id => p.by = q.by
  /\ \A t \in srv[s].turns : t.thread = t.by
Requests == \A s \in Servers : RequestsOf(s)

(* Whoever waits is registered with its server; nobody has a thread of a   *)
(* process that was not initialized; and while a process is respawned      *)
(* nobody waits on its server or is about to.                              *)
QuietOf(d) ==
  /\ fut[d] # "wait" /\ turn[d] # "wait"
  /\ ~(pc[d] = "thread" /\ fut[d] = "ok" /\ Alive(mine[d]))
WaitsOf(d) ==
  /\ fut[d] = "wait" => \E p \in srv[mine[d]].pending : p.by = d
  /\ turn[d] = "wait" => \E t \in srv[mine[d]].turns : t.by = d
  /\ pc[d] = "thread" /\ Alive(mine[d]) /\ ~srv[mine[d]].started => fut[d] \notin {"wait", "ok"}
  /\ \A c \in Callers : Respawns(c) /\ mine[c] = mine[d] => QuietOf(d)
Waits == \A d \in Callers : WaitsOf(d)

(* Only the singleton has a process that nobody told to end.               *)
OnlySingle == \A s \in Servers : s # single => srv[s].proc \notin {"up", "deaf"}

AppInv == TypeOK /\ Places /\ Locks /\ Numbers /\ Requests /\ Waits /\ OnlySingle

-----------------------------------------------------------------------------
(* The queues of the locks.                                                *)

(* Sequence q without the element at place p, in terms of places.          *)
Closes(r, q, p) ==
  /\ r \in Seq(Callers) /\ Len(r) = Len(q) - 1
  /\ \A i \in 1 .. Len(r) : r[i] = q[IF i < p THEN i ELSE i + 1]

LEMMA TailCloses ==
  ASSUME NEW q \in Seq(Callers), q # <<>>
  PROVE  Closes(Tail(q), q, 1)
BY HeadTailProperties DEF Closes

LEMMA RemoveCloses ==
  ASSUME NEW q \in Seq(Callers), NEW p \in 1 .. Len(q)
  PROVE  Closes(RemoveAt(q, p), q, p)
<1> DEFINE x == SubSeq(q, 1, p - 1)
           y == SubSeq(q, p + 1, Len(q))
<1>1. Len(q) \in Nat /\ p \in Nat /\ 1 <= p /\ p <= Len(q) /\ p - 1 \in Int /\ p + 1 \in Int
  OBVIOUS
<1>2. x \in Seq(Callers) /\ Len(x) = p - 1 /\ \A i \in 1 .. p - 1 : x[i] = q[i]
  <2>1. \A i \in 1 .. p - 1 : q[i] \in Callers  BY <1>1
  <2>2. /\ SubSeq(q, 1, p - 1) \in Seq(Callers)
        /\ Len(SubSeq(q, 1, p - 1)) = IF 1 <= p - 1 THEN (p - 1) - 1 + 1 ELSE 0
        /\ \A i \in 1 .. (p - 1) - 1 + 1 : SubSeq(q, 1, p - 1)[i] = q[1 + i - 1]
    BY <1>1, <2>1, SubSeqProperties
  <2> QED  BY <1>1, <2>2
<1>3. y \in Seq(Callers) /\ Len(y) = Len(q) - p /\ \A i \in 1 .. Len(q) - p : y[i] = q[p + i]
  <2>1. \A i \in p + 1 .. Len(q) : q[i] \in Callers  BY <1>1
  <2>2. /\ SubSeq(q, p + 1, Len(q)) \in Seq(Callers)
        /\ Len(SubSeq(q, p + 1, Len(q))) =
             IF p + 1 <= Len(q) THEN Len(q) - (p + 1) + 1 ELSE 0
        /\ \A i \in 1 .. Len(q) - (p + 1) + 1 : SubSeq(q, p + 1, Len(q))[i] = q[p + 1 + i - 1]
    BY <1>1, <2>1, SubSeqProperties
  <2> QED  BY <1>1, <2>2
<1> HIDE DEF x, y
<1>4. /\ x \o y \in Seq(Callers) /\ Len(x \o y) = Len(x) + Len(y)
      /\ \A i \in 1 .. Len(x) + Len(y) : (x \o y)[i] = IF i <= Len(x) THEN x[i] ELSE y[i - Len(x)]
  BY <1>2, <1>3, ConcatProperties
<1>5. PICK r : r = x \o y  OBVIOUS
<1>6. r \in Seq(Callers) /\ Len(r) = Len(q) - 1
  <2>1. Len(x) + Len(y) = Len(q) - 1  BY <1>1, <1>2, <1>3
  <2> QED  BY <1>4, <1>5, <2>1
<1>7. ASSUME NEW i \in 1 .. Len(r) PROVE r[i] = q[IF i < p THEN i ELSE i + 1]
  <2>1. i \in Nat /\ 1 <= i /\ i <= Len(q) - 1 /\ i \in 1 .. Len(x) + Len(y)
    BY <1>1, <1>2, <1>3, <1>6
  <2>2. r[i] = IF i <= Len(x) THEN x[i] ELSE y[i - Len(x)]  BY <1>4, <1>5, <2>1
  <2>3. CASE i < p
    <3>1. i <= Len(x) /\ i \in 1 .. p - 1  BY <1>1, <1>2, <2>1, <2>3
    <3> QED  BY <1>2, <2>2, <2>3, <3>1
  <2>4. CASE ~(i < p)
    <3>1. ~(i <= Len(x)) /\ i - Len(x) = i - p + 1 /\ i - p + 1 \in 1 .. Len(q) - p
      BY <1>1, <1>2, <2>1, <2>4
    <3>2. y[i - p + 1] = q[p + (i - p + 1)] /\ p + (i - p + 1) = i + 1
      BY <1>1, <1>3, <2>1, <3>1
    <3> QED  BY <2>2, <2>4, <3>1, <3>2
  <2> QED  BY <2>3, <2>4
<1> QED  BY <1>5, <1>6, <1>7 DEF Closes, RemoveAt, x, y

(* A queue that closes up behind c keeps the others, the head and the last *)
(* among them.                                                             *)
Others(r, q, c) ==
  /\ Queue(r)
  /\ \A d \in Callers : Among(r, d) <=> Among(q, d) /\ d # c
  /\ \A d \in Callers : d # c /\ First(q, d) => First(r, d)
  /\ \A d \in Callers : d # c /\ Ends(q, d) => Ends(r, d)

LEMMA ClosesUp ==
  ASSUME NEW q, Queue(q), NEW p \in 1 .. Len(q), NEW r, Closes(r, q, p)
  PROVE  Others(r, q, q[p])
<1>1. q \in Seq(Callers) /\ Len(q) \in Nat /\ DOMAIN q = 1 .. Len(q)  BY DEF Queue
<1>2. r \in Seq(Callers) /\ Len(r) = Len(q) - 1 /\ DOMAIN r = 1 .. Len(r)  BY DEF Closes
<1>3. \A i \in DOMAIN r : LET j == IF i < p THEN i ELSE i + 1
                          IN  j \in DOMAIN q /\ j # p /\ r[i] = q[j]
  BY <1>1, <1>2 DEF Closes
<1>4. ASSUME NEW j \in DOMAIN q, j # p
      PROVE  LET i == IF j < p THEN j ELSE j - 1 IN i \in DOMAIN r /\ r[i] = q[j]
  <2>1. PICK i : i = IF j < p THEN j ELSE j - 1  OBVIOUS
  <2>2. i \in DOMAIN r /\ j = IF i < p THEN i ELSE i + 1  BY <1>1, <1>2, <1>4, <2>1
  <2>3. r[i] = q[j]  BY <1>3, <2>2
  <2> QED  BY <2>1, <2>2, <2>3
<1>5. Queue(r)
  <2>1. ASSUME NEW i \in DOMAIN r, NEW n \in DOMAIN r, r[i] = r[n] PROVE i = n
    <3>1. PICK j \in DOMAIN q : j = (IF i < p THEN i ELSE i + 1) /\ r[i] = q[j]  BY <1>3
    <3>2. PICK m \in DOMAIN q : m = (IF n < p THEN n ELSE n + 1) /\ r[n] = q[m]  BY <1>3
    <3>3. j = m  BY <2>1, <3>1, <3>2 DEF Queue
    <3> QED  BY <1>1, <1>2, <3>1, <3>2, <3>3
  <2> QED  BY <1>2, <2>1 DEF Queue
<1>6. ASSUME NEW d \in Callers PROVE Among(r, d) <=> Among(q, d) /\ d # q[p]
  <2>1. ASSUME Among(r, d) PROVE Among(q, d) /\ d # q[p]
    <3>1. PICK i \in DOMAIN r : r[i] = d  BY <2>1 DEF Among
    <3>2. PICK j \in DOMAIN q : j # p /\ r[i] = q[j]  BY <1>3
    <3> QED  BY <1>1, <3>1, <3>2 DEF Queue, Among
  <2>2. ASSUME Among(q, d), d # q[p] PROVE Among(r, d)
    <3>1. PICK j \in DOMAIN q : q[j] = d /\ j # p  BY <2>2 DEF Among
    <3> QED  BY <1>4, <3>1 DEF Among
  <2> QED  BY <2>1, <2>2
<1>7. ASSUME NEW d \in Callers, d # q[p], First(q, d) PROVE First(r, d)
  <2>1. 1 \in DOMAIN q /\ q[1] = d /\ 1 # p  BY <1>1, <1>7 DEF First
  <2>2. 1 < p /\ 1 \in DOMAIN r /\ r[1] = d  BY <1>1, <1>4, <2>1
  <2> QED  BY <1>2, <2>2 DEF First
<1>8. ASSUME NEW d \in Callers, d # q[p], Ends(q, d) PROVE Ends(r, d)
  <2>1. Len(q) # 0 /\ q[Len(q)] = d  BY <1>1, <1>8, EmptySeq DEF Ends
  <2>2. Len(q) \in DOMAIN q /\ Len(q) # p /\ ~(Len(q) < p)
    <3>1. PICK n \in Nat : n = Len(q)  BY <1>1
    <3>2. n # p  BY <1>8, <2>1, <3>1
    <3>3. DOMAIN q = 1 .. n /\ n # 0  BY <1>1, <2>1, <3>1
    <3>4. p \in 1 .. n  BY <3>1
    <3>5. n \in 1 .. n /\ ~(n < p)  BY <3>2, <3>3, <3>4
    <3> QED  BY <3>1, <3>2, <3>3, <3>5
  <2>3. Len(r) \in DOMAIN r /\ r[Len(r)] = d  BY <1>1, <1>2, <1>4, <2>1, <2>2
  <2> QED  BY <1>2, <2>3 DEF Ends
<1> QED  BY <1>5, <1>6, <1>7, <1>8 DEF Others

(* The head leaves; if it was the last one too, nobody is left.            *)
LEMMA HeadLeaves ==
  ASSUME NEW q, Queue(q), NEW c \in Callers, First(q, c)
  PROVE  Others(Tail(q), q, c) /\ (Ends(q, c) => \A d \in Callers : ~Among(Tail(q), d))
<1>1. q \in Seq(Callers) /\ q # <<>> /\ Len(q) \in Nat /\ DOMAIN q = 1 .. Len(q)
  BY DEF Queue, First
<1>2. 1 \in 1 .. Len(q) /\ q[1] = c  BY <1>1 DEF First
<1>3. Closes(Tail(q), q, 1)  BY <1>1, TailCloses
<1>4. Others(Tail(q), q, c)  BY <1>2, <1>3, ClosesUp
<1>5. ASSUME Ends(q, c), NEW d \in Callers PROVE ~Among(Tail(q), d)
  <2>1. Len(q) = 1  BY <1>1, <1>2, <1>5 DEF Ends, Queue
  <2>2. Tail(q) \in Seq(Callers) /\ Len(Tail(q)) = 0  BY <1>1, <1>3, <2>1 DEF Closes
  <2>3. Tail(q) = <<>>  BY <2>2, EmptySeq
  <2> QED  BY <2>3 DEF Among
<1> QED  BY <1>4, <1>5

(* Whoever is cancelled leaves from its place, if it has one.              *)
LEMMA OneLeaves ==
  ASSUME NEW q, Queue(q), NEW c \in Callers
  PROVE  Others(RemoveFirst(q, c), q, c)
<1>1. q \in Seq(Callers) /\ DOMAIN q = 1 .. Len(q)  BY DEF Queue
<1>2. CASE \E i \in 1 .. Len(q) : q[i] = c
  <2>1. PICK p \in 1 .. Len(q) : q[p] = c  BY <1>2
  <2>2. {i \in 1 .. Len(q) : q[i] = c} = {p}  BY <1>1, <2>1 DEF Queue
  <2>3. Min({p}) = p
    <3>1. p \in Nat  OBVIOUS
    <3>2. \E x \in {p} : \A y \in {p} : x <= y  BY <3>1
    <3>3. Min({p}) \in {p}  BY <3>2 DEF Min
    <3> QED  BY <3>3
  <2>4. SelectInSeq(q, LAMBDA v : v = c) = p  BY <2>2, <2>3 DEF SelectInSeq
  <2>5. RemoveFirst(q, c) = RemoveAt(q, p)  BY <1>2, <2>4 DEF RemoveFirst
  <2> QED  BY <1>1, <2>1, <2>5, RemoveCloses, ClosesUp
<1>3. CASE ~ \E i \in 1 .. Len(q) : q[i] = c
  <2>1. RemoveFirst(q, c) = q  BY <1>3 DEF RemoveFirst
  <2>2. ~Among(q, c)  BY <1>1, <1>3 DEF Among
  <2> QED  BY <2>1, <2>2 DEF Others
<1> QED  BY <1>2, <1>3

(* Somebody joins at the end.                                              *)
LEMMA OneJoins ==
  ASSUME NEW q, Queue(q), NEW c \in Callers, ~Among(q, c)
  PROVE  /\ Queue(Append(q, c))
         /\ \A d \in Callers : Among(Append(q, c), d) <=> Among(q, d) \/ d = c
         /\ \A d \in Callers : First(q, d) => First(Append(q, c), d)
         /\ \A d \in Callers : Ends(Append(q, c), d) <=> d = c
<1>1. PICK r : r = Append(q, c)  OBVIOUS
<1>2. /\ q \in Seq(Callers) /\ r \in Seq(Callers) /\ Len(q) \in Nat /\ Len(r) = Len(q) + 1
      /\ DOMAIN q = 1 .. Len(q) /\ DOMAIN r = 1 .. Len(q) + 1
      /\ r[Len(q) + 1] = c /\ \A i \in 1 .. Len(q) : r[i] = q[i]
  BY <1>1 DEF Queue
<1>3. Queue(r)
  <2>1. ASSUME NEW i \in DOMAIN r, NEW j \in DOMAIN r, r[i] = r[j] PROVE i = j
    <3>1. \A n \in 1 .. Len(q) : q[n] # c  BY <1>2 DEF Among
    <3> QED  BY <1>2, <2>1, <3>1 DEF Queue
  <2> QED  BY <1>2, <2>1 DEF Queue
<1>4. ASSUME NEW d \in Callers PROVE Among(r, d) <=> Among(q, d) \/ d = c
  <2>1. Len(q) + 1 \in DOMAIN r  BY <1>2
  <2>2. \A i \in DOMAIN q : i \in DOMAIN r /\ r[i] = q[i]  BY <1>2
  <2>3. \A i \in DOMAIN r : i \in DOMAIN q \/ i = Len(q) + 1  BY <1>2
  <2> QED  BY <1>2, <2>1, <2>2, <2>3 DEF Among
<1>5. ASSUME NEW d \in Callers, First(q, d) PROVE First(r, d)
  BY <1>1, <1>2, <1>5, HeadTailAppend DEF First
<1>6. ASSUME NEW d \in Callers PROVE Ends(r, d) <=> d = c
  BY <1>2 DEF Ends
<1> QED  BY <1>1, <1>3, <1>4, <1>5, <1>6

(* There is one head.                                                      *)
LEMMA OneIsFirst ==
  ASSUME NEW q, NEW c \in Callers, NEW d \in Callers, First(q, c), First(q, d)
  PROVE  c = d
BY DEF First

-----------------------------------------------------------------------------
(* Numbers.                                                                *)

LEMMA Grows ==
  ASSUME NEW S, NEW T, S \subseteq T, T \subseteq Callers
  PROVE  /\ Cardinality(S) \in Nat /\ Cardinality(T) \in Nat /\ Cardinality(Callers) \in Nat
         /\ Cardinality(S) <= Cardinality(T) /\ Cardinality(T) <= Cardinality(Callers)
         /\ \A c \in T \ S : Cardinality(S) + 1 <= Cardinality(T)
<1>1. IsFiniteSet(Callers)  BY AppServerAssumption
<1>2. IsFiniteSet(T) /\ Cardinality(T) <= Cardinality(Callers)  BY <1>1, FS_Subset
<1>3. IsFiniteSet(S) /\ Cardinality(S) <= Cardinality(T)  BY <1>2, FS_Subset
<1>4. Cardinality(S) \in Nat /\ Cardinality(T) \in Nat /\ Cardinality(Callers) \in Nat
  BY <1>1, <1>2, <1>3, FS_CardinalityType
<1>5. ASSUME NEW c \in T \ S PROVE Cardinality(S) + 1 <= Cardinality(T)
  <2>1. IsFiniteSet(S \cup {c}) /\ Cardinality(S \cup {c}) = Cardinality(S) + 1
    BY <1>3, FS_AddElement
  <2>2. S \cup {c} \subseteq T  OBVIOUS
  <2>3. Cardinality(S \cup {c}) <= Cardinality(T)  BY <1>2, <2>2, FS_Subset
  <2> QED  BY <2>1, <2>3
<1> QED  BY <1>2, <1>3, <1>4, <1>5

LEMMA Bounds ==
  /\ Cardinality(Callers) \in Nat /\ Servers = 1 .. Cardinality(Callers)
  /\ Ids = 0 .. 3 * Cardinality(Callers)
BY Grows DEF Servers, Ids

-----------------------------------------------------------------------------
(* The record of a server, field by field.                                 *)

LEMMA Fields ==
  ASSUME NEW r \in Server, NEW c \in Callers, thread[c] \subseteq {c}
  PROVE  /\ /\ r.proc \in {"none", "up", "deaf", "leaving", "dead"}
            /\ r.reader \in {"no", "runs", "stops"} /\ r.started \in BOOLEAN /\ r.next \in Ids
            /\ \A p \in r.pending : p.id \in Ids /\ p.by \in Callers
            /\ \A t \in r.turns : t.thread \in Callers /\ t.by \in Callers
         /\ /\ Unregister(r, c) \in Server
            /\ Unregister(r, c) = [r EXCEPT !.pending = {p \in r.pending : p.by # c}]
         /\ /\ PopTurn(r, c) \in Server
            /\ PopTurn(r, c) = [r EXCEPT !.turns = {t \in r.turns : t.thread \notin thread[c]}]
         /\ /\ Registered(r, c) \in Server
            /\ Registered(r, c) =
                 [r EXCEPT !.turns = {t \in r.turns : t.thread \notin thread[c]}
                                       \cup {[thread |-> t, by |-> c] : t \in thread[c]}]
         /\ r.next + 1 \in Ids =>
              /\ Register(r, c) \in Server
              /\ Register(r, c) =
                   [r EXCEPT !.next = r.next + 1,
                             !.pending = r.pending \cup {[id |-> r.next, by |-> c]}]
<1>1. r.pending \in SUBSET [id : Ids, by : Callers]  BY DEF Server
<1>2. r.turns \in SUBSET [thread : Callers, by : Callers]  BY DEF Server
<1>3. {p \in r.pending : p.by # c} \in SUBSET [id : Ids, by : Callers]  BY <1>1
<1>4. {t \in r.turns : t.thread \notin thread[c]} \in SUBSET [thread : Callers, by : Callers]
  BY <1>2
<1>5. {[thread |-> t, by |-> c] : t \in thread[c]} \in SUBSET [thread : Callers, by : Callers]
  OBVIOUS
<1>6. ASSUME r.next \in Ids
      PROVE r.pending \cup {[id |-> r.next, by |-> c]} \in SUBSET [id : Ids, by : Callers]
  BY <1>1, <1>6
<1>7. r.next \in Ids  BY DEF Server
<1>8. Unregister(r, c) = [r EXCEPT !.pending = {p \in r.pending : p.by # c}]
  BY DEF Unregister, Server
<1>9. PopTurn(r, c) = [r EXCEPT !.turns = {t \in r.turns : t.thread \notin thread[c]}]
  BY DEF PopTurn, Server
<1>10. Registered(r, c) = [r EXCEPT !.turns = {t \in r.turns : t.thread \notin thread[c]}
                                       \cup {[thread |-> t, by |-> c] : t \in thread[c]}]
  BY DEF Registered, Server
<1>11. Register(r, c) = [r EXCEPT !.next = r.next + 1,
                                  !.pending = r.pending \cup {[id |-> r.next, by |-> c]}]
  BY DEF Register, NextId, Server
<1>12. Unregister(r, c) \in Server  BY <1>3, <1>8 DEF Server
<1>13. PopTurn(r, c) \in Server  BY <1>4, <1>9 DEF Server
<1>14. Registered(r, c) \in Server  BY <1>4, <1>5, <1>10 DEF Server
<1>15. ASSUME r.next + 1 \in Ids PROVE Register(r, c) \in Server
  BY <1>6, <1>7, <1>11, <1>15 DEF Server
<1>16. \A p \in r.pending : p.id \in Ids /\ p.by \in Callers  BY <1>1
<1>17. \A t \in r.turns : t.thread \in Callers /\ t.by \in Callers  BY <1>2
<1>18. r.proc \in {"none", "up", "deaf", "leaving", "dead"} /\ r.reader \in {"no", "runs", "stops"}
       /\ r.started \in BOOLEAN
  BY DEF Server
<1> QED  BY <1>7, <1>8, <1>9, <1>10, <1>11, <1>12, <1>13, <1>14, <1>15, <1>16, <1>17, <1>18

-----------------------------------------------------------------------------
(* Types.                                                                  *)

LEMMA AppTypes ==
  ASSUME TypeOK
  PROVE  /\ DOMAIN pc = Callers /\ DOMAIN then = Callers /\ DOMAIN mine = Callers
         /\ DOMAIN fut = Callers /\ DOMAIN turn = Callers /\ DOMAIN thread = Callers
         /\ DOMAIN srv = Servers /\ DOMAIN startq = Servers /\ DOMAIN wire = Servers
         /\ DOMAIN live = Servers /\ Servers \subseteq Nat /\ NoServer \notin Servers
         /\ \A c \in Callers : mine[c] # NoServer => mine[c] \in Servers
         /\ \A s \in Servers : srv[s] \in Server
         /\ single \in Nat /\ \A c \in Callers : mine[c] \in Nat
<1>1. Servers \subseteq Nat /\ NoServer = 0 /\ NoServer \notin Servers
  BY Bounds DEF NoServer
<1>2. /\ DOMAIN pc = Callers /\ DOMAIN then = Callers /\ DOMAIN mine = Callers
      /\ DOMAIN fut = Callers /\ DOMAIN turn = Callers /\ DOMAIN thread = Callers
  BY DEF TypeOK
<1>3. /\ DOMAIN srv = Servers /\ DOMAIN startq = Servers /\ DOMAIN wire = Servers
      /\ DOMAIN live = Servers /\ \A s \in Servers : srv[s] \in Server
  BY DEF TypeOK
<1>4. single \in Nat  BY <1>1 DEF TypeOK
<1>5. \A c \in Callers : mine[c] \in Servers \cup {NoServer}  BY DEF TypeOK
<1>6. Servers \cup {NoServer} \subseteq Nat  BY <1>1
<1>7. \A c \in Callers : mine[c] \in Nat  BY <1>5, <1>6
<1> QED  BY <1>1, <1>2, <1>3, <1>4, <1>5, <1>7

(* There is room for one more object and one more request.                 *)
LEMMA FreshFits ==
  ASSUME AppInv, NEW c \in Callers, c \notin Makers
  PROVE  Fresh \in Servers /\ Fresh = single + 1 /\ single \in Nat
<1>1. Makers \subseteq Callers /\ c \in Callers \ Makers  BY DEF Makers
<1>2. Cardinality(Makers) \in Nat /\ Cardinality(Callers) \in Nat
      /\ Cardinality(Makers) + 1 <= Cardinality(Callers)
  BY <1>1, Grows
<1>3. single \in Nat /\ single <= Cardinality(Makers)  BY AppTypes DEF AppInv, Numbers
<1> QED  BY <1>2, <1>3 DEF Fresh, Servers

LEMMA NextFits ==
  ASSUME AppInv, NEW c \in Callers, c \notin Threads \/ c \notin Turns, NEW s \in Servers
  PROVE  srv[s].next + 1 \in Ids /\ srv[s].next \in Nat
<1>1. /\ Inits \subseteq Callers /\ Threads \subseteq Callers /\ Turns \subseteq Callers
      /\ c \in Callers \ Threads \/ c \in Callers \ Turns
  BY DEF Inits, Threads, Turns
<1>2. PICK i, t, u, n : i = Cardinality(Inits) /\ t = Cardinality(Threads)
                        /\ u = Cardinality(Turns) /\ n = Cardinality(Callers)
  OBVIOUS
<1>3. /\ i \in Nat /\ t \in Nat /\ u \in Nat /\ n \in Nat /\ i <= n /\ t <= n /\ u <= n
      /\ t + 1 <= n \/ u + 1 <= n
  BY <1>1, <1>2, Grows
<1>4. srv[s].next <= i + t + u  BY <1>2 DEF AppInv, Numbers, Made
<1>5. srv[s].next \in Ids /\ Ids = 0 .. 3 * n  BY <1>2, AppTypes, Bounds DEF AppInv, Server
<1> QED  BY <1>3, <1>4, <1>5

(* What a tear-down does.                                                  *)
Told(f, g, W) == \A d \in Callers : g[d] = IF d \in W /\ f[d] = "wait" THEN "err" ELSE f[d]

LEMMA FailedTypes ==
  ASSUME NEW f \in [Callers -> Future], NEW W
  PROVE  Failed(f, W) \in [Callers -> Future] /\ Told(f, Failed(f, W), W)
BY DEF Failed, Told, Future

TornDown(c, s, r) ==
  /\ r \in Server /\ srv' = [srv EXCEPT ![s] = r]
  /\ r.pending = {} /\ r.turns = {} /\ r.reader = (IF srv[s].reader = "no" THEN "no" ELSE "stops")
  /\ r.proc = srv[s].proc /\ r.started = srv[s].started /\ r.next = srv[s].next
  /\ fut' \in [Callers -> Future] /\ turn' \in [Callers -> Future]
  /\ \A d \in Callers \ {c} :
       fut'[d] = IF fut[d] = "wait" /\ \E p \in srv[s].pending : p.by = d THEN "err" ELSE fut[d]
  /\ fut'[c] = "none"
  /\ \A d \in Callers :
       turn'[d] = IF turn[d] = "wait" /\ \E t \in srv[s].turns : t.by = d THEN "err" ELSE turn[d]

LEMMA TearsDown ==
  ASSUME TypeOK, NEW c \in Callers, NEW s \in Servers, NEW next, TearDown(c, s, next)
  PROVE  \E r : TornDown(c, s, r)
<1>1. PICK r : r = [srv[s] EXCEPT !.pending = {}, !.turns = {},
                                  !.reader = IF srv[s].reader = "no" THEN "no" ELSE "stops"]
  OBVIOUS
<1>2. srv[s] \in Server /\ DOMAIN srv = Servers  BY AppTypes
<1>3. srv' = [srv EXCEPT ![s] = r]  BY <1>1, <1>2 DEF TearDown
<1>4. r \in Server  BY <1>1, <1>2 DEF Server
<1>5. /\ r.pending = {} /\ r.turns = {} /\ r.reader = (IF srv[s].reader = "no" THEN "no" ELSE "stops")
      /\ r.proc = srv[s].proc /\ r.started = srv[s].started /\ r.next = srv[s].next
  BY <1>1, <1>2 DEF Server
<1>6. PICK g : g = Failed(fut, {p.by : p \in srv[s].pending})  OBVIOUS
<1>7. g \in [Callers -> Future] /\ Told(fut, g, {p.by : p \in srv[s].pending})
  BY <1>6, FailedTypes DEF TypeOK
<1>8. fut' = [g EXCEPT ![c] = "none"]  BY <1>6 DEF TearDown
<1>9. turn' \in [Callers -> Future] /\ Told(turn, turn', {t.by : t \in srv[s].turns})
  BY FailedTypes DEF TypeOK, TearDown
<1>10. fut' \in [Callers -> Future] /\ fut'[c] = "none" /\ \A d \in Callers \ {c} : fut'[d] = g[d]
  BY <1>7, <1>8 DEF Future
<1>11. ASSUME NEW d \in Callers \ {c}
       PROVE fut'[d] = IF fut[d] = "wait" /\ \E p \in srv[s].pending : p.by = d THEN "err" ELSE fut[d]
  BY <1>7, <1>10 DEF Told
<1>12. ASSUME NEW d \in Callers
       PROVE turn'[d] = IF turn[d] = "wait" /\ \E t \in srv[s].turns : t.by = d THEN "err" ELSE turn[d]
  BY <1>9 DEF Told
<1> QED  BY <1>3, <1>4, <1>5, <1>9, <1>10, <1>11, <1>12 DEF TornDown

-----------------------------------------------------------------------------
(* What leaves a part of the invariant as it is.                           *)

LEMMA LocksStay ==
  ASSUME Locks, UNCHANGED <<slock, startq, mine>>,
         \A d \in Callers :
           /\ pc'[d] = "single" <=> pc[d] = "single"
           /\ Closing(d)' <=> Closing(d)
           /\ pc'[d] \in Inside <=> pc[d] \in Inside
           /\ pc'[d] \in Holding => pc[d] \in Holding \/ First(startq[mine[d]], d)
  PROVE  Locks'
<1>1. SingleLock'  BY DEF Locks, SingleLock
<1>2. ASSUME NEW s \in Servers PROVE StartLock(s)'
  <2>1. StartLock(s)  BY DEF Locks
  <2>2. startq'[s] = startq[s] /\ \A d \in Callers : mine'[d] = mine[d]  OBVIOUS
  <2>3. ASSUME NEW d \in Callers, mine[d] = s, pc'[d] \in Holding PROVE First(startq[s], d)
    <3>1. pc[d] \in Holding \/ First(startq[mine[d]], d)  BY <2>3
    <3> QED  BY <2>1, <2>3, <3>1 DEF StartLock
  <2> QED  BY <2>1, <2>2, <2>3 DEF StartLock
<1> QED  BY <1>1, <1>2 DEF Locks, Servers

LEMMA NumbersStay ==
  ASSUME TypeOK, TypeOK', Numbers, NEW c \in Callers,
         Makers \subseteq Makers', Inits \subseteq Inits', Threads \subseteq Threads',
         Turns \subseteq Turns',
         single' = single \/ (single' = single + 1 /\ c \in Makers' \ Makers),
         \A s \in Servers :
           \/ srv'[s].next = srv[s].next
           \/ /\ srv'[s].next = srv[s].next + 1
              /\ c \in (Inits' \ Inits) \cup (Threads' \ Threads) \cup (Turns' \ Turns)
  PROVE  Numbers'
<1>1. Makers' \subseteq Callers /\ Inits' \subseteq Callers /\ Threads' \subseteq Callers
      /\ Turns' \subseteq Callers
  BY DEF Makers, Inits, Threads, Turns
<1>2. PICK m, i, t, u, n, j, v, w :
        /\ m = Cardinality(Makers) /\ i = Cardinality(Inits) /\ t = Cardinality(Threads)
        /\ u = Cardinality(Turns) /\ n = Cardinality(Makers') /\ j = Cardinality(Inits')
        /\ v = Cardinality(Threads') /\ w = Cardinality(Turns')
  OBVIOUS
<1>3. m \in Nat /\ n \in Nat /\ m <= n /\ (c \in Makers' \ Makers => m + 1 <= n)
  BY <1>1, <1>2, Grows
<1>4. i \in Nat /\ j \in Nat /\ i <= j /\ (c \in Inits' \ Inits => i + 1 <= j)
  BY <1>1, <1>2, Grows
<1>5. t \in Nat /\ v \in Nat /\ t <= v /\ (c \in Threads' \ Threads => t + 1 <= v)
  BY <1>1, <1>2, Grows
<1>6. u \in Nat /\ w \in Nat /\ u <= w /\ (c \in Turns' \ Turns => u + 1 <= w)
  BY <1>1, <1>2, Grows
<1>7. single' <= n
  <2>1. single \in Nat /\ single <= m  BY <1>2, AppTypes DEF Numbers
  <2> QED  BY <1>3, <2>1
<1>8. ASSUME NEW s \in Servers PROVE srv'[s].next <= j + v + w
  <2>1. srv[s].next \in Nat  BY AppTypes, Bounds DEF Server
  <2>2. srv[s].next <= i + t + u  BY <1>2 DEF Numbers, Made
  <2> QED  BY <1>4, <1>5, <1>6, <2>1, <2>2
<1> QED  BY <1>2, <1>7, <1>8 DEF Numbers, Made, Servers

LEMMA RequestsStay ==
  ASSUME Requests,
         \A s \in Servers :
           /\ srv'[s].pending \subseteq srv[s].pending /\ srv'[s].turns \subseteq srv[s].turns
           /\ wire'[s] \subseteq wire[s] /\ srv'[s].next = srv[s].next
  PROVE  Requests'
<1>1. ASSUME NEW s \in Servers PROVE RequestsOf(s)'
  BY DEF Requests, RequestsOf
<1> QED  BY <1>1 DEF Requests, Servers

(* A request is numbered, registered and perhaps written.                  *)
Asking(c, s, r) ==
  /\ srv' \in [Servers -> Server] /\ wire' \in [Servers -> SUBSET Request]
  /\ \A x \in Servers \ {s} : srv'[x] = srv[x]
  /\ srv'[s].proc = r.proc /\ srv'[s].reader = r.reader /\ srv'[s].started = r.started
  /\ srv'[s].turns = r.turns /\ srv'[s].next = srv[s].next + 1
  /\ srv'[s].pending = r.pending \cup {[id |-> r.next, by |-> c]}

LEMMA Asks ==
  ASSUME AppInv, NEW c \in Callers, c \notin Threads \/ c \notin Turns, NEW s \in Servers,
         NEW r \in Server, r.next = srv[s].next, r.pending \subseteq srv[s].pending,
         \A t \in r.turns : t.thread = t.by,
         NEW what \in {"initialize", "thread", "turn"}, NEW t \in Callers,
         srv' = [srv EXCEPT ![s] = Register(r, c)],
         wire' = [wire EXCEPT ![s] = Written(s, r, c, what, t)]
  PROVE  Asking(c, s, r) /\ Requests'
<1>1. TypeOK /\ thread[c] \subseteq {c}  BY DEF AppInv, Places, PlacesOf
<1>2. r.next + 1 \in Ids /\ r.next \in Nat  BY NextFits
<1>3. PICK n : n = Register(r, c)  OBVIOUS
<1>4. /\ n \in Server
      /\ n = [r EXCEPT !.next = r.next + 1, !.pending = r.pending \cup {[id |-> r.next, by |-> c]}]
  BY <1>1, <1>2, <1>3, Fields
<1>5. /\ n.proc = r.proc /\ n.reader = r.reader /\ n.started = r.started /\ n.turns = r.turns
      /\ n.next = r.next + 1 /\ n.pending = r.pending \cup {[id |-> r.next, by |-> c]}
  BY <1>4 DEF Server
<1>6. srv' = [srv EXCEPT ![s] = n] /\ DOMAIN srv = Servers /\ srv \in [Servers -> Server]
  BY <1>1, <1>3, AppTypes DEF TypeOK
<1>7. srv' \in [Servers -> Server] /\ srv'[s] = n /\ \A x \in Servers \ {s} : srv'[x] = srv[x]
  BY <1>4, <1>6
<1>8. PICK w : w = Written(s, r, c, what, t)  OBVIOUS
<1>9. r.next \in Ids  BY DEF Server
<1>10. PICK q : q = [id |-> r.next, by |-> c, what |-> what, thread |-> t]  OBVIOUS
<1>11. q \in Request /\ q.id = r.next /\ q.by = c  BY <1>9, <1>10 DEF Request
<1>12. w \subseteq wire[s] \cup {q}  BY <1>8, <1>10 DEF Written
<1>13. wire \in [Servers -> SUBSET Request] /\ wire' = [wire EXCEPT ![s] = w]
  BY <1>1, <1>8 DEF TypeOK
<1>14. wire' \in [Servers -> SUBSET Request] /\ wire'[s] = w
       /\ \A x \in Servers \ {s} : wire'[x] = wire[x]
  BY <1>11, <1>12, <1>13
<1>15. Asking(c, s, r)  BY <1>5, <1>7, <1>14 DEF Asking
<1>16. RequestsOf(s)'
  <2>1. RequestsOf(s)  BY DEF AppInv, Requests
  <2>2. /\ \A p \in srv[s].pending : p.id \in Nat /\ p.id < r.next
        /\ \A x \in wire[s] : x.id \in Nat /\ x.id < r.next
    <3>1. \A x \in wire[s] : x.id \in Ids  BY <1>13 DEF Request
    <3>2. \A p \in srv[s].pending : p.id \in Ids  BY <1>6 DEF Server
    <3> QED  BY <2>1, <3>1, <3>2, Bounds DEF RequestsOf
  <2>3. ASSUME NEW p \in srv'[s].pending PROVE p.id <= r.next /\ p.id \in Nat
                 /\ (p \in srv[s].pending \/ (p.id = r.next /\ p.by = c))
    BY <1>2, <1>5, <1>7, <2>2
  <2>4. ASSUME NEW x \in wire'[s] PROVE x.id <= r.next /\ x.id \in Nat
                 /\ (x \in wire[s] \/ (x.id = r.next /\ x.by = c))
    BY <1>2, <1>11, <1>12, <1>14, <2>2
  <2>5. srv'[s].next = r.next + 1 /\ srv'[s].turns = r.turns  BY <1>5, <1>7
  <2>6. ASSUME NEW p \in srv'[s].pending, NEW x \in wire'[s], p.id = x.id PROVE p.by = x.by
    <3>1. CASE p \in srv[s].pending /\ x \in wire[s]  BY <2>1, <2>6, <3>1 DEF RequestsOf
    <3>2. CASE p \notin srv[s].pending /\ x \notin wire[s]  BY <2>3, <2>4, <3>2
    <3>3. CASE p \in srv[s].pending /\ x \notin wire[s]  BY <1>2, <2>2, <2>4, <2>6, <3>3
    <3>4. CASE p \notin srv[s].pending /\ x \in wire[s]  BY <1>2, <2>2, <2>3, <2>6, <3>4
    <3> QED  BY <3>1, <3>2, <3>3, <3>4
  <2>7. \A p \in srv'[s].pending : p.id < srv'[s].next  BY <1>2, <2>3, <2>5
  <2>8. \A x \in wire'[s] : x.id < srv'[s].next  BY <1>2, <2>4, <2>5
  <2> QED  BY <2>5, <2>6, <2>7, <2>8 DEF RequestsOf
<1>17. ASSUME NEW x \in Servers \ {s} PROVE RequestsOf(x)'
  <2>1. RequestsOf(x) /\ srv'[x] = srv[x] /\ wire'[x] = wire[x]
    BY <1>7, <1>14 DEF AppInv, Requests
  <2> QED  BY <2>1 DEF RequestsOf
<1> QED  BY <1>15, <1>16, <1>17 DEF Requests, Servers

LEMMA OtherWaits ==
  ASSUME AppInv, NEW d \in Callers, pc'[d] = pc[d], mine'[d] = mine[d],
         fut'[d] \in {fut[d], "err"}, turn'[d] \in {turn[d], "err"},
         fut'[d] = "wait" =>
           \A p \in srv[mine[d]].pending : p.by = d => p \in srv'[mine[d]].pending,
         turn'[d] = "wait" =>
           \A t \in srv[mine[d]].turns : t.by = d => t \in srv'[mine[d]].turns,
         mine[d] \in Servers =>
           /\ Alive(mine[d])' => Alive(mine[d])
           /\ srv[mine[d]].started /\ Alive(mine[d])' => srv'[mine[d]].started,
         \A e \in Callers : Respawns(e)' /\ mine'[e] = mine[d] => Respawns(e) /\ mine[e] = mine[d]
  PROVE  WaitsOf(d)'
<1>1. WaitsOf(d) /\ (pc[d] = "thread" => mine[d] \in Servers)
  BY AppTypes DEF AppInv, Waits, Places, PlacesOf
<1>2. fut'[d] = "wait" => \E p \in srv'[mine'[d]].pending : p.by = d  BY <1>1 DEF WaitsOf
<1>3. turn'[d] = "wait" => \E t \in srv'[mine'[d]].turns : t.by = d  BY <1>1 DEF WaitsOf
<1>5. pc'[d] = "thread" /\ Alive(mine[d])' /\ ~srv'[mine'[d]].started => fut'[d] \notin {"wait", "ok"}
  BY <1>1 DEF WaitsOf
<1>6. ASSUME NEW c \in Callers, Respawns(c)', mine'[c] = mine'[d] PROVE QuietOf(d)'
  <2>1. QuietOf(d)  BY <1>1, <1>6 DEF WaitsOf
  <2> QED  BY <1>1, <2>1 DEF QuietOf
<1> QED  BY <1>2, <1>3, <1>5, <1>6 DEF WaitsOf

(* Only one caller holds the start lock.                                   *)
LEMMA OneHolds ==
  ASSUME AppInv, NEW c \in Callers, NEW d \in Callers,
         First(startq[mine[c]], c), pc[c] \in Inside, pc[d] \in Holding
  PROVE  c = d /\ mine[c] = single /\ mine[c] \in Servers
<1>1. Inside = Holding \cup {"closing", "starting"} /\ pc[d] \in Inside  BY DEF Inside, Holding
<1>2. mine[c] = single /\ mine[d] = single /\ mine[c] \in Servers
  BY <1>1, AppTypes DEF AppInv, Places, PlacesOf, Inside
<1>3. First(startq[single], c) /\ First(startq[single], d)
  BY <1>2 DEF AppInv, Locks, StartLock
<1> QED  BY <1>2, <1>3, OneIsFirst

LEMMA AtMoves ==
  ASSUME TypeOK, NEW c \in Callers, NEW from, NEW to, At(c, from, to)
  PROVE  pc[c] = from /\ pc'[c] = to /\ \A d \in Callers \ {c} : pc'[d] = pc[d]
BY DEF At, TypeOK

-----------------------------------------------------------------------------
(* The start.                                                              *)

LEMMA AppInit == Init => AppInv
<1> SUFFICES ASSUME Init PROVE AppInv  OBVIOUS
<1>1. /\ \A c \in Callers : pc[c] = "idle" /\ then[c] = "none" /\ mine[c] = 0 /\ fut[c] = "none"
                            /\ turn[c] = "none" /\ thread[c] = {}
      /\ single = 0 /\ slock = <<>>
      /\ \A s \in Servers : startq[s] = <<>> /\ srv[s] = NewServer /\ wire[s] = {} /\ live[s] = {}
  BY DEF Init, NoServer
<1>2. NewServer \in Server /\ NewServer.pending = {} /\ NewServer.turns = {} /\ NewServer.next = 0
      /\ NewServer.proc = "none"
  BY Bounds DEF NewServer, Server
<1>3. TypeOK
  <2>1. /\ pc \in [Callers -> {"idle"}] /\ then \in [Callers -> {"none"}]
        /\ mine \in [Callers -> {NoServer}] /\ fut \in [Callers -> Future]
        /\ turn \in [Callers -> Future] /\ thread \in [Callers -> SUBSET Callers]
    BY DEF Init, Future
  <2>2. single = NoServer /\ slock \in Seq(Callers) /\ startq \in [Servers -> Seq(Callers)]
    BY DEF Init
  <2>3. /\ srv \in [Servers -> Server] /\ wire \in [Servers -> SUBSET Request]
        /\ live \in [Servers -> SUBSET Callers]
    BY <1>2 DEF Init
  <2>4. budget \in [deaths : 0 .. MaxDeaths, errors : 0 .. MaxErrors, cancels : 0 .. MaxCancels]
    BY AppServerAssumption DEF Init
  <2> QED  BY <2>1, <2>2, <2>3, <2>4 DEF TypeOK
<1>4. Places  BY <1>1 DEF Places, PlacesOf, Inside, NoServer
<1>5. Locks
  <2>1. SingleLock  BY <1>1 DEF SingleLock, Queue, Among, Closing
  <2>2. Queue(<<>>) /\ \A c \in Callers : ~Among(<<>>, c)  BY DEF Queue, Among
  <2>3. \A c \in Callers : pc[c] \notin Inside /\ pc[c] \notin Holding /\ ~Closing(c)
    BY <1>1 DEF Closing, Inside, Holding
  <2>4. \A s \in Servers : StartLock(s)  BY <1>1, <2>2, <2>3 DEF StartLock
  <2> QED  BY <2>1, <2>4 DEF Locks
<1>6. Numbers
  <2>1. Makers \subseteq Callers /\ Inits \subseteq Callers /\ Threads \subseteq Callers
        /\ Turns \subseteq Callers
    BY DEF Makers, Inits, Threads, Turns
  <2>2. Cardinality(Makers) \in Nat /\ Cardinality(Inits) \in Nat /\ Cardinality(Threads) \in Nat
        /\ Cardinality(Turns) \in Nat
    BY <2>1, Grows
  <2>3. \A s \in Servers : srv[s].next = 0  BY <1>1, <1>2
  <2> QED  BY <1>1, <2>2, <2>3 DEF Numbers, Made
<1>7. Requests  BY <1>1, <1>2 DEF Requests, RequestsOf
<1>8. Waits  BY <1>1 DEF Waits, WaitsOf, QuietOf
<1>9. OnlySingle  BY <1>1, <1>2 DEF OnlySingle
<1> QED  BY <1>3, <1>4, <1>5, <1>6, <1>7, <1>8, <1>9 DEF AppInv

-----------------------------------------------------------------------------
(* get_singleton.                                                          *)

(* A caller that has nothing in flight goes elsewhere.                     *)
LEMMA Walks ==
  ASSUME AppInv, NEW c \in Callers, UNCHANGED <<wait, server>>,
         \A d \in Callers \ {c} : pc'[d] = pc[d] /\ then'[d] = then[d] /\ mine'[d] = mine[d],
         fut[c] = "none", turn[c] = "none", ~Respawns(c)'
  PROVE  Requests' /\ Waits'
<1>1. UNCHANGED <<fut, thread, turn, srv, wire, live>>  BY DEF wait, server
<1>2. Requests'
  <2>1. Requests  BY DEF AppInv
  <2> QED  BY <1>1, <2>1, RequestsStay
<1>3. ASSUME NEW d \in Callers, d # c PROVE WaitsOf(d)'
  <2>1. \A e \in Callers : Respawns(e)' /\ mine'[e] = mine[d] => Respawns(e) /\ mine[e] = mine[d]
    BY DEF Respawns
  <2>2. Alive(mine[d])' => Alive(mine[d])  BY <1>1, <1>3 DEF Alive
  <2> QED  BY <1>1, <1>3, <2>1, <2>2, OtherWaits
<1>4. WaitsOf(c)'  BY <1>1 DEF WaitsOf, QuietOf
<1> QED  BY <1>2, <1>3, <1>4 DEF Waits

LEMMA OthersPlaces ==
  ASSUME AppInv, NEW d \in Callers, pc'[d] = pc[d], then'[d] = then[d], mine'[d] = mine[d],
         thread'[d] = thread[d], fut'[d] # "none" => fut[d] # "none",
         turn'[d] # "none" => turn[d] # "none", single' \in Nat,
         single' = single \/ (single' >= single /\ pc[d] \notin Inside)
  PROVE  PlacesOf(d)'
<1>1. PlacesOf(d) /\ mine[d] \in Nat /\ single \in Nat
  BY AppTypes DEF AppInv, Places
<1> QED  BY <1>1 DEF PlacesOf

LEMMA AppAsk ==
  ASSUME AppInv, NEW c \in Callers, Ask(c)
  PROVE  AppInv'
<1>1. UNCHANGED <<then, mine, fut, thread, turn, single, startq, srv, wire, live, budget>>
      /\ slock' = Append(slock, c) /\ TypeOK /\ UNCHANGED <<wait, server>>
  BY DEF Ask, wait, server, AppInv
<1>2. pc[c] = "idle" /\ pc'[c] = "single" /\ \A d \in Callers \ {c} : pc'[d] = pc[d]
  BY <1>1, AtMoves DEF Ask
<1>3. PlacesOf(c) /\ then[c] = "none" /\ fut[c] = "none" /\ turn[c] = "none"
  BY <1>2 DEF AppInv, Places, PlacesOf
<1>4. TypeOK'
  <2>1. slock' \in Seq(Callers)  BY <1>1 DEF TypeOK
  <2>2. pc' = [pc EXCEPT ![c] = "single"]  BY DEF Ask, At
  <2> QED  BY <1>1, <2>1, <2>2 DEF TypeOK, Servers
<1>5. Places'
  <2>1. PlacesOf(c)'  BY <1>1, <1>2, <1>3 DEF PlacesOf, Inside
  <2>2. \A d \in Callers \ {c} : PlacesOf(d)'  BY <1>1, <1>2, AppTypes, OthersPlaces
  <2> QED  BY <2>1, <2>2 DEF Places
<1>6. Locks'
  <2>1. Locks  BY DEF AppInv
  <2>2. ~Closing(c) /\ \A d \in Callers : Closing(d)' <=> Closing(d)
    BY <1>1, <1>2, <1>3 DEF Closing
  <2>3. Queue(slock) /\ ~Among(slock, c)  BY <1>2, <2>1, <2>2 DEF Locks, SingleLock
  <2>4. SingleLock'  BY <1>1, <1>2, <2>1, <2>2, <2>3, OneJoins DEF Locks, SingleLock
  <2>5. ASSUME NEW s \in Servers PROVE StartLock(s)'
    <3>1. \A d \in Callers : /\ pc'[d] \in Inside <=> pc[d] \in Inside
                             /\ pc'[d] \in Holding <=> pc[d] \in Holding
      BY <1>2 DEF Inside, Holding
    <3> QED  BY <1>1, <2>1, <2>2, <3>1 DEF Locks, StartLock
  <2> QED  BY <2>4, <2>5 DEF Locks, Servers
<1>7. Numbers'
  <2>1. Makers \subseteq Makers' /\ Inits \subseteq Inits' /\ Threads \subseteq Threads'
        /\ Turns \subseteq Turns'
    BY <1>1, <1>2 DEF Makers, Inits, Threads, Turns, Closing
  <2> QED  BY <1>1, <1>4, <2>1, NumbersStay DEF AppInv
<1>8. Requests' /\ Waits'
  <2>1. ~Respawns(c)'  BY <1>1, <1>2, <1>3 DEF Respawns
  <2> QED  BY <1>1, <1>2, <1>3, <2>1, Walks
<1>9. OnlySingle'  BY <1>1 DEF AppInv, OnlySingle, Servers
<1> QED  BY <1>4, <1>5, <1>6, <1>7, <1>8, <1>9 DEF AppInv

(* Somebody joins the queue for a start lock, its head leaves it, and what *)
(* concerns other locks leaves it alone.                                   *)
LEMMA StartJoins ==
  ASSUME NEW c \in Callers, NEW s \in Servers, StartLock(s), ~Among(startq[s], c),
         startq'[s] = Append(startq[s], c), mine'[c] = s, pc'[c] \in {"closing", "starting"},
         \A d \in Callers \ {c} :
           /\ pc'[d] = pc[d] /\ then'[d] = then[d] /\ mine'[d] = mine[d] /\ ~Closing(d)
  PROVE  StartLock(s)'
<1>1. Queue(startq[s])  BY DEF StartLock
<1>2. /\ Queue(startq'[s])
      /\ \A d \in Callers : Among(startq'[s], d) <=> Among(startq[s], d) \/ d = c
      /\ \A d \in Callers : First(startq[s], d) => First(startq'[s], d)
      /\ \A d \in Callers : Ends(startq'[s], d) <=> d = c
  BY <1>1, OneJoins
<1>3. pc'[c] \in Inside /\ pc'[c] \notin Holding  BY DEF Inside, Holding
<1>4. ASSUME NEW d \in Callers PROVE Among(startq'[s], d) <=> mine'[d] = s /\ pc'[d] \in Inside
  BY <1>2, <1>3 DEF StartLock
<1>5. ASSUME NEW d \in Callers, mine'[d] = s, pc'[d] \in Holding PROVE First(startq'[s], d)
  BY <1>2, <1>3, <1>5 DEF StartLock
<1>6. ASSUME NEW d \in Callers, mine'[d] = s, Closing(d)' PROVE Ends(startq'[s], d)
  BY <1>2, <1>6 DEF Closing
<1> QED  BY <1>2, <1>4, <1>5, <1>6 DEF StartLock

LEMMA StartLeaves ==
  ASSUME NEW c \in Callers, NEW s \in Servers, StartLock(s), Others(startq'[s], startq[s], c),
         ~(mine'[c] = s /\ pc'[c] \in Inside), ~(mine'[c] = s /\ Closing(c)'),
         \A d \in Callers \ {c} : pc'[d] = pc[d] /\ then'[d] = then[d] /\ mine'[d] = mine[d]
  PROVE  StartLock(s)'
<1>1. Holding \subseteq Inside  BY DEF Inside, Holding
<1>2. ASSUME NEW d \in Callers PROVE Among(startq'[s], d) <=> mine'[d] = s /\ pc'[d] \in Inside
  BY DEF StartLock, Others
<1>3. ASSUME NEW d \in Callers, mine'[d] = s, pc'[d] \in Holding PROVE First(startq'[s], d)
  BY <1>1, <1>3 DEF StartLock, Others
<1>4. ASSUME NEW d \in Callers, mine'[d] = s, Closing(d)' PROVE Ends(startq'[s], d)
  BY <1>4 DEF StartLock, Others, Closing
<1> QED  BY <1>2, <1>3, <1>4 DEF StartLock, Others

LEMMA StartSame ==
  ASSUME NEW c \in Callers, NEW s \in Servers, StartLock(s), startq'[s] = startq[s],
         ~(mine[c] = s /\ pc[c] \in Inside), ~(mine'[c] = s /\ pc'[c] \in Inside),
         ~(mine'[c] = s /\ Closing(c)'),
         \A d \in Callers \ {c} : pc'[d] = pc[d] /\ then'[d] = then[d] /\ mine'[d] = mine[d]
  PROVE  StartLock(s)'
<1>1. Holding \subseteq Inside  BY DEF Inside, Holding
<1>2. ASSUME NEW d \in Callers PROVE Among(startq'[s], d) <=> mine'[d] = s /\ pc'[d] \in Inside
  BY DEF StartLock
<1>3. ASSUME NEW d \in Callers, mine'[d] = s, pc'[d] \in Holding PROVE First(startq'[s], d)
  BY <1>1, <1>3 DEF StartLock
<1>4. ASSUME NEW d \in Callers, mine'[d] = s, Closing(d)' PROVE Ends(startq'[s], d)
  BY <1>4 DEF StartLock, Closing
<1> QED  BY <1>2, <1>3, <1>4 DEF StartLock

(* The singleton's lock passes on.                                         *)
LEMMA SingleLeaves ==
  ASSUME NEW c \in Callers, SingleLock, Others(slock', slock, c),
         pc'[c] # "single", ~Closing(c)',
         \A d \in Callers \ {c} : pc'[d] = pc[d] /\ then'[d] = then[d]
  PROVE  SingleLock'
<1>1. \A d \in Callers \ {c} : Closing(d)' <=> Closing(d)  BY DEF Closing
<1> QED  BY <1>1 DEF SingleLock, Others

LEMMA AppFirstServer ==
  ASSUME AppInv, NEW c \in Callers, FirstServer(c)
  PROVE  AppInv'
<1>1. UNCHANGED <<then, fut, thread, turn, srv, wire, live, budget>> /\ TypeOK
      /\ UNCHANGED <<wait, server>>
      /\ single' = Fresh /\ slock' = Tail(slock) /\ First(slock, c) /\ single = NoServer
      /\ mine' = [mine EXCEPT ![c] = Fresh]
      /\ startq' = [startq EXCEPT ![Fresh] = Append(@, c)]
  BY DEF FirstServer, UseFresh, wait, server, AppInv
<1>2. pc[c] = "single" /\ pc'[c] = "starting" /\ \A d \in Callers \ {c} : pc'[d] = pc[d]
  BY <1>1, AtMoves DEF FirstServer
<1>3. /\ PlacesOf(c) /\ then[c] = "none" /\ fut[c] = "none" /\ turn[c] = "none"
      /\ \A d \in Callers : pc[d] \notin Inside
  <2>1. \A d \in Callers : PlacesOf(d)  BY DEF AppInv, Places
  <2>2. \A d \in Callers : pc[d] \notin Inside  BY <1>1, <2>1 DEF PlacesOf, Inside
  <2> QED  BY <1>2, <2>1, <2>2 DEF PlacesOf
<1>4. Fresh \in Servers /\ Fresh = single + 1 /\ single \in Nat
  BY <1>2, FreshFits DEF Makers
<1>5. mine'[c] = Fresh /\ \A d \in Callers \ {c} : mine'[d] = mine[d]
  BY <1>1, AppTypes
<1>6. \A d \in Callers : ~Closing(d)
  <2>1. \A d \in Callers : Closing(d) => d = c
    BY <1>1, OneIsFirst DEF AppInv, Locks, SingleLock
  <2> QED  BY <1>2, <1>3, <2>1 DEF Closing
<1>7. ~Closing(c)' /\ ~Respawns(c)'  BY <1>1, <1>2, <1>3 DEF Closing, Respawns
<1>8. SingleLock /\ \A s \in Servers : StartLock(s)  BY DEF AppInv, Locks
<1>9. TypeOK'
  <2>1. slock' \in Seq(Callers)  BY <1>1, HeadTailProperties DEF TypeOK, First
  <2>2. pc' = [pc EXCEPT ![c] = "starting"]  BY DEF FirstServer, At
  <2>3. startq' \in [Servers -> Seq(Callers)]  BY <1>1, <1>4 DEF TypeOK
  <2>4. mine' \in [Callers -> Servers \cup {NoServer}]  BY <1>1, <1>4 DEF TypeOK
  <2>5. single' \in Servers \cup {NoServer}  BY <1>1, <1>4
  <2> QED  BY <1>1, <2>1, <2>2, <2>3, <2>4, <2>5 DEF TypeOK, Servers
<1>10. Places'
  <2>1. PlacesOf(c)'  BY <1>1, <1>2, <1>3, <1>4, <1>5 DEF PlacesOf, Inside, NoServer
  <2>2. ASSUME NEW d \in Callers \ {c} PROVE PlacesOf(d)'
    <3>1. single' \in Nat /\ single' >= single  BY <1>1, <1>4
    <3> QED  BY <1>1, <1>2, <1>3, <1>5, <3>1, OthersPlaces
  <2> QED  BY <2>1, <2>2 DEF Places
<1>11. Locks'
  <2>1. SingleLock'
    <3>1. Others(slock', slock, c)  BY <1>1, <1>8, HeadLeaves DEF SingleLock
    <3> QED  BY <1>1, <1>2, <1>7, <1>8, <3>1, SingleLeaves
  <2>2. PICK f \in Servers : f = Fresh  BY <1>4
  <2>3. ASSUME NEW s \in Servers, s # f PROVE StartLock(s)'
    <3>1. startq'[s] = startq[s]  BY <1>1, <2>2, <2>3
    <3>2. mine'[c] # s  BY <1>5, <2>2, <2>3
    <3> QED  BY <1>1, <1>2, <1>3, <1>5, <1>7, <1>8, <3>1, <3>2, StartSame
  <2>4. StartLock(f)'
    <3>1. startq'[f] = Append(startq[f], c)  BY <1>1, <2>2, AppTypes
    <3>2. ~Among(startq[f], c)  BY <1>3, <1>8 DEF StartLock
    <3> QED  BY <1>1, <1>2, <1>5, <1>6, <1>8, <2>2, <3>1, <3>2, StartJoins
  <2> QED  BY <2>1, <2>3, <2>4 DEF Locks, Servers
<1>12. Numbers'
  <2>1. Makers \subseteq Makers' /\ Inits \subseteq Inits' /\ Threads \subseteq Threads'
        /\ Turns \subseteq Turns' /\ c \in Makers' \ Makers
    BY <1>1, <1>2, <1>7 DEF Makers, Inits, Threads, Turns, Closing
  <2> QED  BY <1>1, <1>4, <1>9, <2>1, NumbersStay DEF AppInv
<1>13. Requests' /\ Waits'
  BY <1>1, <1>2, <1>3, <1>5, <1>7, Walks
<1>14. OnlySingle'
  BY <1>1 DEF AppInv, OnlySingle, Servers, NoServer
<1> QED  BY <1>9, <1>10, <1>11, <1>12, <1>13, <1>14 DEF AppInv

LEMMA AppSameServer ==
  ASSUME AppInv, NEW c \in Callers, SameServer(c)
  PROVE  AppInv'
<1>1. UNCHANGED <<then, fut, thread, turn, single, srv, wire, live, budget>> /\ TypeOK
      /\ UNCHANGED <<wait, server>>
      /\ slock' = Tail(slock) /\ First(slock, c) /\ single # NoServer
      /\ mine' = [mine EXCEPT ![c] = single]
      /\ startq' = [startq EXCEPT ![single] = Append(@, c)]
  BY DEF SameServer, wait, server, AppInv
<1>2. pc[c] = "single" /\ pc'[c] = "starting" /\ \A d \in Callers \ {c} : pc'[d] = pc[d]
  BY <1>1, AtMoves DEF SameServer
<1>3. PlacesOf(c) /\ then[c] = "none" /\ fut[c] = "none" /\ turn[c] = "none"
  BY <1>2 DEF AppInv, Places, PlacesOf
<1>4. PICK f \in Servers : f = single  BY <1>1 DEF TypeOK
<1>5. mine'[c] = f /\ \A d \in Callers \ {c} : mine'[d] = mine[d]
  BY <1>1, <1>4, AppTypes
<1>6. \A d \in Callers : ~Closing(d)
  <2>1. \A d \in Callers : Closing(d) => d = c
    BY <1>1, OneIsFirst DEF AppInv, Locks, SingleLock
  <2> QED  BY <1>2, <1>3, <2>1 DEF Closing
<1>7. ~Closing(c)' /\ ~Respawns(c)'  BY <1>1, <1>2, <1>3 DEF Closing, Respawns
<1>8. SingleLock /\ \A s \in Servers : StartLock(s)  BY DEF AppInv, Locks
<1>9. TypeOK'
  <2>1. slock' \in Seq(Callers)  BY <1>1, HeadTailProperties DEF TypeOK, First
  <2>2. pc' = [pc EXCEPT ![c] = "starting"]  BY DEF SameServer, At
  <2>3. startq' \in [Servers -> Seq(Callers)]  BY <1>1, <1>4 DEF TypeOK
  <2>4. mine' \in [Callers -> Servers \cup {NoServer}]  BY <1>1, <1>4 DEF TypeOK
  <2> QED  BY <1>1, <2>1, <2>2, <2>3, <2>4 DEF TypeOK, Servers
<1>10. Places'
  <2>1. PlacesOf(c)'
    <3>1. f \in Nat /\ f # NoServer  BY AppTypes, <1>1
    <3> QED  BY <1>1, <1>2, <1>3, <1>4, <1>5, <3>1 DEF PlacesOf, Inside
  <2>2. ASSUME NEW d \in Callers \ {c} PROVE PlacesOf(d)'
    BY <1>1, <1>2, <1>5, AppTypes, OthersPlaces
  <2> QED  BY <2>1, <2>2 DEF Places
<1>11. Locks'
  <2>1. SingleLock'
    <3>1. Others(slock', slock, c)  BY <1>1, <1>8, HeadLeaves DEF SingleLock
    <3> QED  BY <1>1, <1>2, <1>7, <1>8, <3>1, SingleLeaves
  <2>2. pc[c] \notin Inside  BY <1>2 DEF Inside
  <2>3. ASSUME NEW s \in Servers, s # f PROVE StartLock(s)'
    <3>1. startq'[s] = startq[s]  BY <1>1, <1>4, <2>3
    <3>2. mine'[c] # s  BY <1>5, <2>3
    <3> QED  BY <1>1, <1>2, <1>5, <1>7, <1>8, <2>2, <3>1, <3>2, StartSame
  <2>4. StartLock(f)'
    <3>1. startq'[f] = Append(startq[f], c)  BY <1>1, <1>4, AppTypes
    <3>2. ~Among(startq[f], c)  BY <1>8, <2>2 DEF StartLock
    <3> QED  BY <1>1, <1>2, <1>5, <1>6, <1>8, <3>1, <3>2, StartJoins
  <2> QED  BY <2>1, <2>3, <2>4 DEF Locks, Servers
<1>12. Numbers'
  <2>1. Makers \subseteq Makers' /\ Inits \subseteq Inits' /\ Threads \subseteq Threads'
        /\ Turns \subseteq Turns'
    BY <1>1, <1>2, <1>7 DEF Makers, Inits, Threads, Turns, Closing
  <2> QED  BY <1>1, <1>9, <2>1, NumbersStay DEF AppInv
<1>13. Requests' /\ Waits'
  BY <1>1, <1>2, <1>3, <1>5, <1>7, Walks
<1>14. OnlySingle'
  BY <1>1 DEF AppInv, OnlySingle, Servers
<1> QED  BY <1>9, <1>10, <1>11, <1>12, <1>13, <1>14 DEF AppInv

LEMMA AppOtherServer ==
  ASSUME AppInv, NEW c \in Callers, OtherServer(c)
  PROVE  AppInv'
<1>1. UNCHANGED <<then, fut, thread, turn, single, slock, srv, wire, live, budget>> /\ TypeOK
      /\ UNCHANGED <<wait, server>>
      /\ First(slock, c) /\ single # NoServer
      /\ mine' = [mine EXCEPT ![c] = single]
      /\ startq' = [startq EXCEPT ![single] = Append(@, c)]
  BY DEF OtherServer, wait, server, AppInv
<1>2. pc[c] = "single" /\ pc'[c] = "closing" /\ \A d \in Callers \ {c} : pc'[d] = pc[d]
  BY <1>1, AtMoves DEF OtherServer
<1>3. PlacesOf(c) /\ then[c] = "none" /\ fut[c] = "none" /\ turn[c] = "none"
  BY <1>2 DEF AppInv, Places, PlacesOf
<1>4. PICK f \in Servers : f = single  BY <1>1 DEF TypeOK
<1>5. mine'[c] = f /\ \A d \in Callers \ {c} : mine'[d] = mine[d]
  BY <1>1, <1>4, AppTypes
<1>6. \A d \in Callers : ~Closing(d)
  <2>1. \A d \in Callers : Closing(d) => d = c
    BY <1>1, OneIsFirst DEF AppInv, Locks, SingleLock
  <2> QED  BY <1>2, <1>3, <2>1 DEF Closing
<1>7. Closing(c)' /\ ~Respawns(c)'  BY <1>1, <1>2, <1>3 DEF Closing, Respawns
<1>8. SingleLock /\ \A s \in Servers : StartLock(s)  BY DEF AppInv, Locks
<1>9. TypeOK'
  <2>1. pc' = [pc EXCEPT ![c] = "closing"]  BY DEF OtherServer, At
  <2>2. startq' \in [Servers -> Seq(Callers)]  BY <1>1, <1>4 DEF TypeOK
  <2>3. mine' \in [Callers -> Servers \cup {NoServer}]  BY <1>1, <1>4 DEF TypeOK
  <2> QED  BY <1>1, <2>1, <2>2, <2>3 DEF TypeOK, Servers
<1>10. Places'
  <2>1. PlacesOf(c)'
    <3>1. f \in Nat /\ f # NoServer  BY AppTypes, <1>1
    <3> QED  BY <1>1, <1>2, <1>3, <1>4, <1>5, <3>1 DEF PlacesOf, Inside
  <2>2. ASSUME NEW d \in Callers \ {c} PROVE PlacesOf(d)'
    BY <1>1, <1>2, <1>5, AppTypes, OthersPlaces
  <2> QED  BY <2>1, <2>2 DEF Places
<1>11. Locks'
  <2>1. SingleLock'
    <3>1. \A d \in Callers \ {c} : ~Closing(d)'  BY <1>1, <1>2, <1>6 DEF Closing
    <3> QED  BY <1>1, <1>2, <1>6, <1>7, <1>8, <3>1 DEF SingleLock
  <2>2. pc[c] \notin Inside  BY <1>2 DEF Inside
  <2>3. ASSUME NEW s \in Servers, s # f PROVE StartLock(s)'
    <3>1. startq'[s] = startq[s]  BY <1>1, <1>4, <2>3
    <3>2. mine'[c] # s  BY <1>5, <2>3
    <3> QED  BY <1>1, <1>2, <1>5, <1>8, <2>2, <3>1, <3>2, StartSame
  <2>4. StartLock(f)'
    <3>1. startq'[f] = Append(startq[f], c)  BY <1>1, <1>4, AppTypes
    <3>2. ~Among(startq[f], c)  BY <1>8, <2>2 DEF StartLock
    <3> QED  BY <1>1, <1>2, <1>5, <1>6, <1>8, <3>1, <3>2, StartJoins
  <2> QED  BY <2>1, <2>3, <2>4 DEF Locks, Servers
<1>12. Numbers'
  <2>1. Makers \subseteq Makers' /\ Inits \subseteq Inits' /\ Threads \subseteq Threads'
        /\ Turns \subseteq Turns'
    BY <1>1, <1>2 DEF Makers, Inits, Threads, Turns, Closing
  <2> QED  BY <1>1, <1>9, <2>1, NumbersStay DEF AppInv
<1>13. Requests' /\ Waits'
  BY <1>1, <1>2, <1>3, <1>5, <1>7, Walks
<1>14. OnlySingle'
  BY <1>1 DEF AppInv, OnlySingle, Servers
<1> QED  BY <1>9, <1>10, <1>11, <1>12, <1>13, <1>14 DEF AppInv

LEMMA AppExecutes ==
  ASSUME AppInv, NEW c \in Callers, Executes(c)
  PROVE  AppInv'
<1>1. UNCHANGED <<then, mine, fut, thread, turn, single, slock, startq, srv, wire, live, budget>>
      /\ TypeOK /\ UNCHANGED <<wait, server>>
  BY DEF Executes, wait, locks, server, AppInv
<1>2. pc[c] = "exec" /\ pc'[c] = "done" /\ \A d \in Callers \ {c} : pc'[d] = pc[d]
  BY <1>1, AtMoves DEF Executes
<1>3. PlacesOf(c) /\ then[c] = "none" /\ fut[c] = "none" /\ turn[c] = "none"
  BY <1>2 DEF AppInv, Places, PlacesOf
<1>4. TypeOK'
  <2>1. pc' = [pc EXCEPT ![c] = "done"]  BY DEF Executes, At
  <2> QED  BY <1>1, <2>1 DEF TypeOK, Servers
<1>5. Places'
  <2>1. PlacesOf(c)'  BY <1>1, <1>2, <1>3 DEF PlacesOf, Inside
  <2>2. \A d \in Callers \ {c} : PlacesOf(d)'  BY <1>1, <1>2, AppTypes, OthersPlaces
  <2> QED  BY <2>1, <2>2 DEF Places
<1>6. Locks'
  <2>1. \A d \in Callers : /\ pc'[d] \in Inside <=> pc[d] \in Inside
                           /\ pc'[d] \in Holding <=> pc[d] \in Holding
                           /\ pc'[d] = "single" <=> pc[d] = "single"
                           /\ Closing(d)' <=> Closing(d)
    BY <1>1, <1>2 DEF Inside, Holding, Closing
  <2> QED  BY <1>1, <2>1, LocksStay DEF AppInv
<1>7. Numbers'
  <2>1. Makers \subseteq Makers' /\ Inits \subseteq Inits' /\ Threads \subseteq Threads'
        /\ Turns \subseteq Turns'
    BY <1>1, <1>2 DEF Makers, Inits, Threads, Turns, Closing
  <2> QED  BY <1>1, <1>4, <2>1, NumbersStay DEF AppInv
<1>8. Requests' /\ Waits'
  <2>1. ~Respawns(c)'  BY <1>1, <1>2, <1>3 DEF Respawns
  <2> QED  BY <1>1, <1>2, <1>3, <2>1, Walks
<1>9. OnlySingle'  BY <1>1 DEF AppInv, OnlySingle, Servers
<1> QED  BY <1>4, <1>5, <1>6, <1>7, <1>8, <1>9 DEF AppInv

(* The holder of the start lock releases it and is done with it.           *)
LEMMA Releases ==
  ASSUME AppInv, NEW c \in Callers, pc[c] \in {"starting", "exit", "boot", "init"},
         First(startq[mine[c]], c), ~Closing(c),
         startq' = [startq EXCEPT ![mine[c]] = Tail(@)], pc'[c] \in {"thread", "exec"},
         then'[c] = "none", UNCHANGED <<slock, mine>>,
         \A d \in Callers \ {c} : pc'[d] = pc[d] /\ then'[d] = then[d]
  PROVE  Locks' /\ startq' \in [Servers -> Seq(Callers)]
<1>1. PICK f \in Servers : f = mine[c]  BY AppTypes DEF AppInv, Places, PlacesOf
<1>2. SingleLock /\ (\A s \in Servers : StartLock(s)) /\ TypeOK  BY DEF AppInv, Locks
<1>3. /\ startq'[f] = Tail(startq[f]) /\ \A s \in Servers \ {f} : startq'[s] = startq[s]
      /\ startq \in [Servers -> Seq(Callers)]
  BY <1>1, <1>2 DEF TypeOK
<1>4. pc'[c] \notin Inside /\ ~Closing(c)'  BY DEF Inside, Closing
<1>5. Others(Tail(startq[f]), startq[f], c)  BY <1>1, <1>2, HeadLeaves DEF StartLock
<1>6. StartLock(f)'  BY <1>2, <1>3, <1>4, <1>5, StartLeaves
<1>7. \A s \in Servers \ {f} : StartLock(s)'  BY <1>1, <1>2, <1>3, <1>4, StartSame
<1>8. SingleLock'
  <2>1. \A d \in Callers : (Closing(d)' <=> Closing(d)) /\ (pc'[d] = "single" <=> pc[d] = "single")
    BY <1>4 DEF Closing
  <2> QED  BY <1>2, <2>1 DEF SingleLock
<1>9. startq' \in [Servers -> Seq(Callers)]
  <2>1. Tail(startq[f]) \in Seq(Callers)  BY <1>5 DEF Others, Queue
  <2> QED  BY <1>1, <1>3, <2>1
<1> QED  BY <1>6, <1>7, <1>8, <1>9 DEF Locks, Servers

LEMMA AppSpawnFails ==
  ASSUME AppInv, NEW c \in Callers, SpawnFails(c)
  PROVE  AppInv'
<1>1. UNCHANGED <<then, mine, fut, thread, turn, single, slock, srv, wire, live, budget>>
      /\ TypeOK /\ UNCHANGED <<wait, server>> /\ startq' = [startq EXCEPT ![mine[c]] = Tail(@)]
  BY DEF SpawnFails, wait, server, AppInv
<1>2. pc[c] = "boot" /\ pc'[c] = "exec" /\ \A d \in Callers \ {c} : pc'[d] = pc[d]
  BY <1>1, AtMoves DEF SpawnFails
<1>3. PlacesOf(c) /\ then[c] = "none" /\ fut[c] = "none" /\ turn[c] = "none"
  BY <1>2 DEF AppInv, Places, PlacesOf
<1>4. ~Closing(c) /\ ~Respawns(c)'  BY <1>1, <1>2, <1>3 DEF Closing, Respawns
<1>5. First(startq[mine[c]], c)
  <2>1. pc[c] \in Holding /\ mine[c] \in Servers
    BY <1>2, <1>3, AppTypes DEF Holding, PlacesOf, AppInv
  <2> QED  BY <2>1 DEF AppInv, Locks, StartLock
<1>6. Locks' /\ startq' \in [Servers -> Seq(Callers)]
  BY <1>1, <1>2, <1>3, <1>4, <1>5, Releases
<1>7. TypeOK'
  <2>1. pc' = [pc EXCEPT ![c] = "exec"]  BY DEF SpawnFails, At
  <2> QED  BY <1>1, <1>6, <2>1 DEF TypeOK, Servers
<1>8. Places'
  <2>1. PlacesOf(c)'  BY <1>1, <1>2, <1>3 DEF PlacesOf, Inside
  <2>2. \A d \in Callers \ {c} : PlacesOf(d)'  BY <1>1, <1>2, AppTypes, OthersPlaces
  <2> QED  BY <2>1, <2>2 DEF Places
<1>9. Numbers'
  <2>1. Makers \subseteq Makers' /\ Inits \subseteq Inits' /\ Threads \subseteq Threads'
        /\ Turns \subseteq Turns'
    BY <1>1, <1>2 DEF Makers, Inits, Threads, Turns, Closing
  <2> QED  BY <1>1, <1>7, <2>1, NumbersStay DEF AppInv
<1>10. Requests' /\ Waits'
  BY <1>1, <1>2, <1>3, <1>4, Walks
<1>11. OnlySingle'  BY <1>1 DEF AppInv, OnlySingle, Servers
<1> QED  BY <1>6, <1>7, <1>8, <1>9, <1>10, <1>11 DEF AppInv

-----------------------------------------------------------------------------
(* The tear-downs.                                                         *)

(* A tear-down fails whatever waits for the server of its caller.          *)
LEMMA TornWaits ==
  ASSUME AppInv, NEW c \in Callers, NEW r, mine[c] \in Servers, TornDown(c, mine[c], r),
         pc'[c] = "reader", turn'[c] = "none", UNCHANGED mine,
         \A d \in Callers \ {c} : pc'[d] = pc[d] /\ then'[d] = then[d],
         then'[c] = "boot" => ~Ready(mine[c])
  PROVE  Waits'
<1>1. PICK s \in Servers : s = mine[c]  OBVIOUS
<1>2. /\ srv'[s] = r /\ (\A x \in Servers \ {s} : srv'[x] = srv[x])
      /\ r.proc = srv[s].proc /\ r.started = srv[s].started
      /\ Alive(s)' = Alive(s) /\ srv'[s].started = srv[s].started /\ fut'[c] = "none"
  BY <1>1, AppTypes DEF TornDown, Alive, AppInv
<1>3. WaitsOf(c)'  BY <1>2 DEF WaitsOf, QuietOf
<1>4. ASSUME NEW d \in Callers \ {c} PROVE WaitsOf(d)'
  <2>1. /\ WaitsOf(d) /\ PlacesOf(d) /\ d # c /\ pc'[d] = pc[d] /\ mine'[d] = mine[d]
        /\ fut'[d] = IF fut[d] = "wait" /\ \E p \in srv[s].pending : p.by = d THEN "err" ELSE fut[d]
        /\ turn'[d] = IF turn[d] = "wait" /\ \E t \in srv[s].turns : t.by = d THEN "err" ELSE turn[d]
    BY <1>1 DEF AppInv, Waits, Places, TornDown
  <2>2. CASE mine[d] = s
    <3>1. fut'[d] # "wait" /\ turn'[d] # "wait"  BY <2>1, <2>2 DEF WaitsOf
    <3>2. fut'[d] = "ok" => fut[d] = "ok"  BY <2>1
    <3>3. pc'[d] = "thread" /\ Alive(mine[d])' /\ ~srv'[mine'[d]].started
            => fut'[d] \notin {"wait", "ok"}
      BY <1>2, <2>1, <2>2, <3>1, <3>2 DEF WaitsOf
    <3>4. ASSUME NEW e \in Callers, Respawns(e)', mine'[e] = mine'[d] PROVE QuietOf(d)'
      <4>1. CASE e # c
        <5>1. Respawns(e) /\ mine[e] = mine[d]  BY <3>4, <4>1 DEF Respawns
        <5>2. QuietOf(d)  BY <2>1, <5>1 DEF WaitsOf
        <5> QED  BY <1>2, <2>1, <2>2, <3>1, <3>2, <5>2 DEF QuietOf
      <4>2. CASE e = c
        <5>1. ~Ready(s)  BY <1>1, <3>4, <4>2 DEF Respawns
        <5>2. ~(pc[d] = "thread" /\ fut[d] = "ok" /\ Alive(s))
          BY <2>1, <2>2, <5>1 DEF WaitsOf, Ready
        <5> QED  BY <1>2, <2>1, <2>2, <3>1, <3>2, <5>2 DEF QuietOf
      <4> QED  BY <4>1, <4>2
    <3> QED  BY <3>1, <3>3, <3>4 DEF WaitsOf
  <2>3. CASE mine[d] # s
    <3>1. fut'[d] = "wait" \/ turn'[d] = "wait" => mine[d] \in Servers \ {s}
      BY <2>1, <2>3, AppTypes DEF PlacesOf, AppInv
    <3>2. mine[d] \in Servers => srv'[mine[d]] = srv[mine[d]]  BY <1>2, <2>3
    <3>3. \A e \in Callers : Respawns(e)' /\ mine'[e] = mine[d] => Respawns(e) /\ mine[e] = mine[d]
      BY <1>1, <2>3 DEF Respawns
    <3>4. mine[d] \in Servers => (Alive(mine[d])' <=> Alive(mine[d]))  BY <3>2 DEF Alive
    <3>5. fut'[d] \in {fut[d], "err"} /\ turn'[d] \in {turn[d], "err"}  BY <2>1
    <3> QED  BY <2>1, <3>1, <3>2, <3>3, <3>4, <3>5, OtherWaits
  <2> QED  BY <2>2, <2>3
<1> QED  BY <1>3, <1>4 DEF Waits

LEMMA AppTears ==
  ASSUME AppInv, NEW c \in Callers, NEW next \in {"close", "boot", "fail"},
         pc[c] \in {"closing", "starting", "init"}, pc' = [pc EXCEPT ![c] = "reader"],
         First(startq[mine[c]], c), TearDown(c, mine[c], next),
         pc[c] = "closing" <=> next = "close", pc[c] = "init" <=> next = "fail",
         next = "boot" => ~Ready(mine[c]),
         UNCHANGED <<mine, thread, locks, wire, live, budget>>
  PROVE  AppInv'
<1>1. UNCHANGED <<mine, thread, single, slock, startq, wire, live, budget>> /\ TypeOK
  BY DEF locks, AppInv
<1>2. pc'[c] = "reader" /\ \A d \in Callers \ {c} : pc'[d] = pc[d]  BY <1>1 DEF TypeOK
<1>3. then' = [then EXCEPT ![c] = next] /\ then'[c] = next
      /\ \A d \in Callers \ {c} : then'[d] = then[d]
  BY <1>1 DEF TearDown, TypeOK
<1>4. PlacesOf(c) /\ then[c] = "none" /\ turn[c] = "none" /\ mine[c] = single /\ mine[c] \in Servers
  BY <1>1, AppTypes DEF AppInv, Places, PlacesOf, Inside
<1>5. PICK s \in Servers : s = mine[c]  BY <1>4
<1>6. PICK r : TornDown(c, s, r)  BY <1>1, <1>5, TearsDown
<1>7. fut'[c] = "none" /\ turn'[c] = "none" /\ srv'[s] = r
      /\ \A x \in Servers \ {s} : srv'[x] = srv[x]
  BY <1>1, <1>4, <1>6, AppTypes DEF TornDown
<1>8. \A d \in Callers : /\ fut'[d] # "none" => fut[d] # "none"
                         /\ turn'[d] # "none" => turn[d] # "none"
  BY <1>6 DEF TornDown
<1>9. TypeOK'
  <2>1. srv' \in [Servers -> Server] /\ fut' \in [Callers -> Future] /\ turn' \in [Callers -> Future]
    BY <1>1, <1>6 DEF TypeOK, TornDown
  <2> QED  BY <1>1, <1>3, <2>1 DEF TypeOK, Servers
<1>10. Places'
  <2>1. PlacesOf(c)'  BY <1>1, <1>2, <1>3, <1>4, <1>7 DEF PlacesOf, Inside
  <2>2. \A d \in Callers \ {c} : PlacesOf(d)'  BY <1>1, <1>2, <1>3, <1>8, AppTypes, OthersPlaces
  <2> QED  BY <2>1, <2>2 DEF Places
<1>11. Locks'
  <2>1. \A d \in Callers : /\ pc'[d] \in Inside <=> pc[d] \in Inside
                           /\ pc'[d] \in Holding => pc[d] \in Holding \/ First(startq[mine[d]], d)
                           /\ pc'[d] = "single" <=> pc[d] = "single"
                           /\ Closing(d)' <=> Closing(d)
    BY <1>2, <1>3, <1>4 DEF Inside, Holding, Closing
  <2> QED  BY <1>1, <2>1, LocksStay DEF AppInv
<1>12. Numbers'
  <2>1. Makers \subseteq Makers' /\ Inits \subseteq Inits' /\ Threads \subseteq Threads'
        /\ Turns \subseteq Turns'
    BY <1>2, <1>3, <1>4 DEF Makers, Inits, Threads, Turns, Closing
  <2>2. \A x \in Servers : srv'[x].next = srv[x].next  BY <1>6, <1>7 DEF TornDown
  <2> QED  BY <1>1, <1>9, <2>1, <2>2, NumbersStay DEF AppInv
<1>13. Requests'
  <2>1. \A x \in Servers :
           /\ srv'[x].pending \subseteq srv[x].pending /\ srv'[x].turns \subseteq srv[x].turns
           /\ wire'[x] \subseteq wire[x] /\ srv'[x].next = srv[x].next
    BY <1>1, <1>6, <1>7 DEF TornDown
  <2> QED  BY <2>1, RequestsStay DEF AppInv
<1>14. Waits'
  <2>1. then'[c] = "boot" => ~Ready(mine[c])  BY <1>3
  <2> QED  BY <1>1, <1>2, <1>3, <1>4, <1>5, <1>6, <1>7, <2>1, TornWaits
<1>15. OnlySingle'
  <2>1. \A x \in Servers : srv'[x].proc = srv[x].proc  BY <1>6, <1>7 DEF TornDown
  <2> QED  BY <1>1, <2>1 DEF AppInv, OnlySingle, Servers
<1> QED  BY <1>9, <1>10, <1>11, <1>12, <1>13, <1>14, <1>15 DEF AppInv

LEMMA AppTearDowns ==
  ASSUME AppInv, NEW c \in Callers, CloseBegins(c) \/ Respawn(c) \/ InitFails(c)
  PROVE  AppInv'
<1>1. CASE CloseBegins(c)
  <2>1. pc[c] = "closing" /\ pc' = [pc EXCEPT ![c] = "reader"]  BY <1>1 DEF CloseBegins, At
  <2> QED  BY <1>1, <2>1, AppTears DEF CloseBegins
<1>2. CASE Respawn(c)
  <2>1. pc[c] = "starting" /\ pc' = [pc EXCEPT ![c] = "reader"]  BY <1>2 DEF Respawn, At
  <2> QED  BY <1>2, <2>1, AppTears DEF Respawn
<1>3. CASE InitFails(c)
  <2>1. pc[c] = "init" /\ pc' = [pc EXCEPT ![c] = "reader"]  BY <1>3 DEF InitFails, At
  <2>2. First(startq[mine[c]], c)
    <3>1. pc[c] \in Holding /\ mine[c] \in Servers
      BY <2>1, AppTypes DEF Holding, PlacesOf, AppInv, Places
    <3> QED  BY <3>1 DEF AppInv, Locks, StartLock
  <2> QED  BY <1>3, <2>1, <2>2, AppTears DEF InitFails
<1> QED  BY <1>1, <1>2, <1>3

LEMMA AppReaderStops ==
  ASSUME AppInv, NEW c \in Callers, ReaderStops(c)
  PROVE  AppInv'
<1>1. UNCHANGED <<then, mine, fut, thread, turn, single, slock, startq, wire, live, budget>>
      /\ TypeOK
  BY DEF ReaderStops, wait, locks, AppInv
<1>2. pc[c] = "reader" /\ pc'[c] = "exit" /\ (\A d \in Callers \ {c} : pc'[d] = pc[d])
      /\ pc' = [pc EXCEPT ![c] = "exit"]
  BY <1>1, AtMoves DEF ReaderStops, At
<1>3. PlacesOf(c) /\ mine[c] \in Servers  BY <1>1, <1>2, AppTypes DEF AppInv, Places, PlacesOf
<1>4. PICK s \in Servers : s = mine[c]  BY <1>3
<1>5. PICK p : p = IF Alive(s) THEN "leaving" ELSE srv[s].proc  OBVIOUS
<1>6. p \in {"none", "up", "deaf", "leaving", "dead"} /\ (p # srv[s].proc => p = "leaving" /\ Alive(s))
      /\ p \notin {"up", "deaf"}
  BY <1>1, <1>5, AppTypes DEF Server, Alive
<1>7. srv' = [srv EXCEPT ![s].proc = p]
  BY <1>1, <1>4, <1>5, AppTypes DEF ReaderStops
<1>8. /\ srv' \in [Servers -> Server] /\ \A x \in Servers \ {s} : srv'[x] = srv[x]
      /\ srv'[s].proc = p /\ srv'[s].pending = srv[s].pending /\ srv'[s].turns = srv[s].turns
      /\ srv'[s].started = srv[s].started /\ srv'[s].next = srv[s].next
  <2>1. PICK r : r = [srv[s] EXCEPT !.proc = p]  OBVIOUS
  <2>2. srv[s] \in Server /\ srv \in [Servers -> Server]  BY <1>1 DEF TypeOK
  <2>3. /\ r \in Server /\ r.proc = p /\ r.pending = srv[s].pending /\ r.turns = srv[s].turns
        /\ r.started = srv[s].started /\ r.next = srv[s].next
    BY <1>6, <2>1, <2>2 DEF Server
  <2>4. srv' = [srv EXCEPT ![s] = r]  BY <1>7, <2>1
  <2> QED  BY <2>2, <2>3, <2>4
<1>9. TypeOK'  BY <1>1, <1>2, <1>8 DEF TypeOK, Servers
<1>10. Places'
  <2>1. PlacesOf(c)'  BY <1>1, <1>2, <1>3 DEF PlacesOf, Inside
  <2>2. \A d \in Callers \ {c} : PlacesOf(d)'  BY <1>1, <1>2, AppTypes, OthersPlaces
  <2> QED  BY <2>1, <2>2 DEF Places
<1>11. Locks'
  <2>1. \A d \in Callers : /\ pc'[d] \in Inside <=> pc[d] \in Inside
                           /\ pc'[d] \in Holding <=> pc[d] \in Holding
                           /\ pc'[d] = "single" <=> pc[d] = "single"
                           /\ Closing(d)' <=> Closing(d)
    BY <1>1, <1>2 DEF Inside, Holding, Closing
  <2> QED  BY <1>1, <2>1, LocksStay DEF AppInv
<1>12. Numbers'
  <2>1. Makers \subseteq Makers' /\ Inits \subseteq Inits' /\ Threads \subseteq Threads'
        /\ Turns \subseteq Turns'
    BY <1>1, <1>2 DEF Makers, Inits, Threads, Turns, Closing
  <2>2. \A x \in Servers : srv'[x].next = srv[x].next  BY <1>8
  <2> QED  BY <1>1, <1>9, <2>1, <2>2, NumbersStay DEF AppInv
<1>13. Requests'
  <2>1. \A x \in Servers :
           /\ srv'[x].pending \subseteq srv[x].pending /\ srv'[x].turns \subseteq srv[x].turns
           /\ wire'[x] \subseteq wire[x] /\ srv'[x].next = srv[x].next
    BY <1>1, <1>8
  <2> QED  BY <2>1, RequestsStay DEF AppInv
<1>14. Waits'
  <2>1. WaitsOf(c)'
    BY <1>1, <1>2, <1>3 DEF WaitsOf, QuietOf, PlacesOf
  <2>2. ASSUME NEW d \in Callers \ {c} PROVE WaitsOf(d)'
    <3>1. \A x \in Servers : /\ srv'[x].pending = srv[x].pending /\ srv'[x].turns = srv[x].turns
                             /\ srv'[x].started = srv[x].started /\ (Alive(x)' => Alive(x))
      BY <1>6, <1>8 DEF Alive
    <3>2. fut[d] = "wait" \/ turn[d] = "wait" => mine[d] \in Servers
      BY <1>1, AppTypes DEF PlacesOf, AppInv, Places
    <3>3. \A e \in Callers : Respawns(e)' /\ mine'[e] = mine[d] => Respawns(e) /\ mine[e] = mine[d]
      BY <1>1, <1>2 DEF Respawns
    <3>4. mine[d] \in Servers => (Alive(mine[d])' => Alive(mine[d]))
      BY <1>1, <3>1 DEF Alive
    <3>5. pc'[d] = pc[d]  BY <1>2
    <3> QED  BY <1>1, <3>1, <3>2, <3>3, <3>4, <3>5, OtherWaits
  <2> QED  BY <2>1, <2>2 DEF Waits
<1>15. OnlySingle'
  <2>1. \A x \in Servers : srv'[x].proc \in {"up", "deaf"} => srv'[x].proc = srv[x].proc
    BY <1>6, <1>8
  <2> QED  BY <1>1, <2>1 DEF AppInv, OnlySingle, Servers
<1> QED  BY <1>9, <1>10, <1>11, <1>12, <1>13, <1>14, <1>15 DEF AppInv

(* The process is gone.                                                    *)
LEMMA Clears ==
  ASSUME AppInv, NEW c \in Callers, ServerExits(c)
  PROVE  /\ UNCHANGED <<fut, thread, turn, budget>> /\ TypeOK
         /\ pc[c] = "exit" /\ PlacesOf(c) /\ mine[c] = single /\ mine[c] \in Servers
         /\ fut[c] = "none" /\ turn[c] = "none" /\ First(startq[mine[c]], c)
         /\ then' = [then EXCEPT ![c] = "none"] /\ then'[c] = "none"
         /\ \A d \in Callers \ {c} : then'[d] = then[d]
         /\ srv' \in [Servers -> Server] /\ wire' \in [Servers -> SUBSET Request]
         /\ live' \in [Servers -> SUBSET Callers]
         /\ \A x \in Servers : /\ srv'[x].pending = srv[x].pending /\ srv'[x].turns = srv[x].turns
                               /\ srv'[x].next = srv[x].next /\ wire'[x] \subseteq wire[x]
                               /\ x # mine[c] => srv'[x] = srv[x]
         /\ srv'[mine[c]].proc = "none"
<1>1. UNCHANGED <<fut, thread, turn, budget>> /\ TypeOK /\ pc[c] = "exit"
      /\ then' = [then EXCEPT ![c] = "none"] /\ srv' = Cleared(mine[c])
      /\ wire' = [wire EXCEPT ![mine[c]] = {}] /\ live' = [live EXCEPT ![mine[c]] = {}]
  BY DEF ServerExits, wait, AppInv
<1>2. PlacesOf(c) /\ mine[c] = single /\ mine[c] \in Servers /\ fut[c] = "none" /\ turn[c] = "none"
  BY <1>1, AppTypes DEF AppInv, Places, PlacesOf, Inside
<1>3. First(startq[mine[c]], c)  BY <1>1, <1>2 DEF AppInv, Locks, StartLock, Holding
<1>4. then'[c] = "none" /\ \A d \in Callers \ {c} : then'[d] = then[d]  BY <1>1, AppTypes
<1>5. PICK s \in Servers : s = mine[c]  BY <1>2
<1>6. srv' = [srv EXCEPT ![s].proc = "none", ![s].started = FALSE]  BY <1>1, <1>5 DEF Cleared
<1>7. /\ srv' \in [Servers -> Server] /\ \A x \in Servers \ {s} : srv'[x] = srv[x]
      /\ srv'[s].proc = "none" /\ srv'[s].pending = srv[s].pending
      /\ srv'[s].turns = srv[s].turns /\ srv'[s].next = srv[s].next
  <2>1. PICK r : r = [srv[s] EXCEPT !.proc = "none", !.started = FALSE]  OBVIOUS
  <2>2. srv[s] \in Server /\ srv \in [Servers -> Server]  BY <1>1 DEF TypeOK
  <2>3. /\ r \in Server /\ r.proc = "none" /\ r.pending = srv[s].pending
        /\ r.turns = srv[s].turns /\ r.next = srv[s].next
    BY <2>1, <2>2 DEF Server
  <2>4. srv' = [srv EXCEPT ![s] = r]  BY <1>6, <2>1, <2>2
  <2> QED  BY <2>2, <2>3, <2>4
<1>8. /\ wire' \in [Servers -> SUBSET Request] /\ live' \in [Servers -> SUBSET Callers]
      /\ \A x \in Servers : wire'[x] \subseteq wire[x]
  BY <1>1, <1>5 DEF TypeOK
<1> QED  BY <1>1, <1>2, <1>3, <1>4, <1>5, <1>7, <1>8

LEMMA ExitWaits ==
  ASSUME AppInv, NEW c \in Callers, ServerExits(c), pc'[c] \in {"starting", "boot", "exec"},
         \A d \in Callers \ {c} : pc'[d] = pc[d] /\ mine'[d] = mine[d],
         Respawns(c)' => Respawns(c) /\ mine'[c] = mine[c]
  PROVE  Requests' /\ Waits'
<1>1. Requests'
  <2>1. Requests  BY DEF AppInv
  <2> QED  BY <2>1, Clears, RequestsStay
<1>2. WaitsOf(c)'  BY Clears DEF WaitsOf, QuietOf
<1>3. ASSUME NEW d \in Callers \ {c} PROVE WaitsOf(d)'
  <2>1. /\ \A x \in Servers : /\ srv'[x].pending = srv[x].pending /\ srv'[x].turns = srv[x].turns
                              /\ x # mine[c] => srv'[x] = srv[x]
        /\ srv'[mine[c]].proc = "none" /\ UNCHANGED <<fut, turn>> /\ TypeOK
    BY Clears
  <2>2. \A x \in Servers : Alive(x)' => Alive(x) /\ srv'[x].started = srv[x].started
    BY <2>1 DEF Alive
  <2>3. fut[d] = "wait" \/ turn[d] = "wait" => mine[d] \in Servers
    BY <2>1, AppTypes DEF PlacesOf, AppInv, Places
  <2>4. \A e \in Callers : Respawns(e)' /\ mine'[e] = mine[d] => Respawns(e) /\ mine[e] = mine[d]
    <3>1. \A e \in Callers \ {c} : then'[e] = then[e]  BY Clears
    <3> QED  BY <3>1 DEF Respawns
  <2>5. mine[d] \in Servers => /\ Alive(mine[d])' => Alive(mine[d])
                               /\ srv[mine[d]].started /\ Alive(mine[d])' => srv'[mine[d]].started
    BY <2>2
  <2>6. pc'[d] = pc[d] /\ mine'[d] = mine[d]  OBVIOUS
  <2> QED  BY <2>1, <2>3, <2>4, <2>5, <2>6, OtherWaits
<1> QED  BY <1>1, <1>2, <1>3 DEF Waits

(* After a close the caller goes on with a fresh object; nobody else is at *)
(* the one that was closed.                                                *)
LEMMA AppExitClose ==
  ASSUME AppInv, NEW c \in Callers, ServerExits(c), then[c] = "close"
  PROVE  AppInv'
<1> USE Clears
<1>1. /\ UseFresh(c) /\ pc' = [pc EXCEPT ![c] = "starting"]
      /\ startq' = [startq EXCEPT ![mine[c]] = Tail(@), ![Fresh] = Append(@, c)]
  BY DEF ServerExits
<1>2. pc'[c] = "starting" /\ \A d \in Callers \ {c} : pc'[d] = pc[d]  BY <1>1 DEF TypeOK
<1>3. Closing(c) /\ c \notin Makers  BY DEF Closing, Makers
<1>4. PICK f \in Servers : f = Fresh /\ f = single + 1 /\ single \in Nat  BY <1>3, FreshFits
<1>5. PICK s \in Servers : s = mine[c] /\ s = single /\ s # f
  BY <1>4
<1>6. /\ single' = f /\ slock' = Tail(slock) /\ mine' = [mine EXCEPT ![c] = f] /\ mine'[c] = f
      /\ \A d \in Callers \ {c} : mine'[d] = mine[d]
  BY <1>1, <1>4, AppTypes DEF UseFresh
<1>7. /\ startq' = [startq EXCEPT ![s] = Tail(startq[s]), ![f] = Append(startq[f], c)]
      /\ startq'[s] = Tail(startq[s]) /\ startq'[f] = Append(startq[f], c)
      /\ \A x \in Servers \ {s, f} : startq'[x] = startq[x]
  <2>1. startq \in [Servers -> Seq(Callers)]  BY Clears DEF TypeOK
  <2>2. startq' = [startq EXCEPT ![s] = Tail(@), ![f] = Append(@, c)]  BY <1>1, <1>4, <1>5
  <2>3. startq' = [startq EXCEPT ![s] = Tail(startq[s]), ![f] = Append(startq[f], c)]
    BY ONLY <1>5, <2>1, <2>2
  <2> QED  BY ONLY <1>5, <2>1, <2>3
<1>8. SingleLock /\ \A x \in Servers : StartLock(x)  BY DEF AppInv, Locks
<1>9. First(slock, c) /\ Others(slock', slock, c)
  BY <1>3, <1>6, <1>8, HeadLeaves DEF SingleLock
<1>10. \A d \in Callers \ {c} : ~Closing(d)
  BY <1>8, <1>9, OneIsFirst DEF SingleLock
<1>11. Ends(startq[s], c) /\ First(startq[s], c) /\ Queue(startq[s])
  BY <1>3, <1>5, <1>8 DEF StartLock
<1>12. Others(startq'[s], startq[s], c) /\ \A d \in Callers : ~Among(startq'[s], d)
  <2>1. PICK q : q = startq[s]  OBVIOUS
  <2>2. Others(Tail(q), q, c) /\ \A d \in Callers : ~Among(Tail(q), d)
    BY ONLY c \in Callers, <1>11, <2>1, HeadLeaves
  <2> QED  BY ONLY <1>7, <2>1, <2>2
<1>13. ASSUME NEW d \in Callers \ {c} PROVE pc[d] \notin Inside
  <2>1. ~Among(startq[s], d)  BY <1>12 DEF Others
  <2>2. pc[d] \in Inside => mine[d] = s  BY <1>5 DEF AppInv, Places, PlacesOf
  <2> QED  BY <1>8, <2>1, <2>2 DEF StartLock
<1>14. ~Closing(c)' /\ ~Respawns(c)'  BY <1>2 DEF Closing, Respawns
<1>15. TypeOK'
  <2>1. startq' \in [Servers -> Seq(Callers)]
    <3>1. Tail(startq[s]) \in Seq(Callers) /\ Append(startq[f], c) \in Seq(Callers)
      <4>1. startq[f] \in Seq(Callers)  BY <1>8 DEF StartLock, Queue
      <4>2. Tail(startq[s]) \in Seq(Callers)  BY <1>7, <1>12 DEF Others, Queue
      <4> QED  BY <4>1, <4>2
    <3> QED  BY <1>7, <3>1 DEF TypeOK
  <2>2. slock' \in Seq(Callers)  BY <1>9 DEF Others, Queue
  <2>3. single' \in Servers \cup {NoServer} /\ mine' \in [Callers -> Servers \cup {NoServer}]
    BY <1>6 DEF TypeOK
  <2>4. pc' \in [Callers -> {"idle", "single", "closing", "starting", "reader", "exit", "boot",
                             "init", "thread", "ack", "turn", "exec", "done", "answered"}]
        /\ then' \in [Callers -> {"none", "close", "boot", "fail"}]
    <3>1. TypeOK /\ then' = [then EXCEPT ![c] = "none"]  OBVIOUS
    <3> QED  BY ONLY <1>1, <3>1 DEF TypeOK
  <2>5. UNCHANGED <<fut, thread, turn, budget>> /\ srv' \in [Servers -> Server]
        /\ wire' \in [Servers -> SUBSET Request] /\ live' \in [Servers -> SUBSET Callers]
        /\ TypeOK
    OBVIOUS
  <2> QED  BY ONLY <2>1, <2>2, <2>3, <2>4, <2>5 DEF TypeOK, Servers
<1>16. Places'
  <2>1. PlacesOf(c)'
    <3>1. f # NoServer /\ f \in Nat  BY AppTypes
    <3> QED  BY <1>2, <1>6, <3>1 DEF PlacesOf, Inside
  <2>2. ASSUME NEW d \in Callers \ {c} PROVE PlacesOf(d)'
    <3>1. single' \in Nat /\ single' >= single  BY <1>4, <1>6
    <3>2. UNCHANGED <<fut, turn, thread>>  OBVIOUS
    <3>3. pc'[d] = pc[d] /\ then'[d] = then[d] /\ mine'[d] = mine[d] /\ pc[d] \notin Inside
      BY <1>2, <1>6, <1>13
    <3> QED  BY ONLY AppInv, d \in Callers, <3>1, <3>2, <3>3, OthersPlaces
  <2> QED  BY <2>1, <2>2 DEF Places
<1>17. Locks'
  <2>1. SingleLock'  BY <1>2, <1>8, <1>9, <1>14, SingleLeaves
  <2>2. StartLock(s)'  BY <1>2, <1>5, <1>6, <1>8, <1>12, StartLeaves
  <2>3. StartLock(f)'
    <3>1. ~Among(startq[f], c)  BY <1>5, <1>8 DEF StartLock
    <3>2. f \in Servers /\ StartLock(f) /\ startq'[f] = Append(startq[f], c)  BY <1>7, <1>8, <1>10
    <3>3. \A d \in Callers \ {c} :
            pc'[d] = pc[d] /\ then'[d] = then[d] /\ mine'[d] = mine[d] /\ ~Closing(d)
      BY <1>2, <1>6, <1>7, <1>8, <1>10
    <3> QED  BY <1>2, <1>6, <1>7, <1>8, <1>10, <3>1, <3>2, <3>3, StartJoins
  <2>4. ASSUME NEW x \in Servers \ {s, f} PROVE StartLock(x)'
    <3>1. \A d \in Callers \ {c} : pc'[d] = pc[d] /\ then'[d] = then[d] /\ mine'[d] = mine[d]
      BY <1>2, <1>6
    <3>2. StartLock(x) /\ startq'[x] = startq[x]  BY <1>7, <1>8
    <3>3. mine[c] # x /\ mine'[c] # x  BY <1>5, <1>6
    <3> QED  BY ONLY c \in Callers, x \in Servers, <3>1, <3>2, <3>3, StartSame
  <2> QED  BY <2>1, <2>2, <2>3, <2>4 DEF Locks, Servers
<1>18. Numbers'
  <2>1. Makers \subseteq Makers' /\ Inits \subseteq Inits' /\ Threads \subseteq Threads'
        /\ Turns \subseteq Turns' /\ c \in Makers' \ Makers
    BY <1>2, <1>3, <1>14 DEF Makers, Inits, Threads, Turns, Closing
  <2>2. single' = single + 1 /\ \A x \in Servers : srv'[x].next = srv[x].next  BY <1>4, <1>6
  <2> QED  BY <1>15, <2>1, <2>2, NumbersStay DEF AppInv
<1>19. Requests' /\ Waits'  BY <1>2, <1>6, <1>14, ExitWaits
<1>20. OnlySingle'
  <2>1. \A x \in Servers : x # single => srv'[x] = srv[x]  OBVIOUS
  <2>2. srv'[single].proc \notin {"up", "deaf"}  OBVIOUS
  <2> QED  BY <2>1, <2>2 DEF AppInv, OnlySingle, Servers
<1> QED  BY <1>15, <1>16, <1>17, <1>18, <1>19, <1>20 DEF AppInv

LEMMA AppExitOthers ==
  ASSUME AppInv, NEW c \in Callers, ServerExits(c), then[c] # "close"
  PROVE  AppInv'
<1> USE Clears
<1>1. PICK to \in {"boot", "exec"} :
        /\ then[c] = (IF to = "boot" THEN "boot" ELSE "fail") /\ pc' = [pc EXCEPT ![c] = to]
        /\ UNCHANGED <<mine, single, slock>>
        /\ startq' = IF to = "boot" THEN startq ELSE [startq EXCEPT ![mine[c]] = Tail(@)]
  <2>1. CASE then[c] = "boot"  BY <2>1 DEF ServerExits, locks
  <2>2. CASE then[c] = "fail"  BY <2>2 DEF ServerExits
  <2>3. then[c] = "boot" \/ then[c] = "fail"  BY DEF ServerExits
  <2> QED  BY <2>1, <2>2, <2>3
<1>2. pc'[c] = to /\ \A d \in Callers \ {c} : pc'[d] = pc[d]  BY <1>1 DEF TypeOK
<1>3. ~Closing(c) /\ ~Closing(c)' /\ (Respawns(c)' => Respawns(c))
  BY <1>1, <1>2 DEF Closing, Respawns
<1>4. Locks' /\ startq' \in [Servers -> Seq(Callers)]
  <2>1. CASE to = "boot"
    <3>1. \A d \in Callers : /\ pc'[d] \in Inside <=> pc[d] \in Inside
                             /\ pc'[d] \in Holding <=> pc[d] \in Holding
                             /\ pc'[d] = "single" <=> pc[d] = "single"
                             /\ Closing(d)' <=> Closing(d)
      BY <1>2, <1>3, <2>1 DEF Inside, Holding, Closing
    <3> QED  BY <1>1, <2>1, <3>1, LocksStay DEF AppInv, TypeOK
  <2>2. CASE to = "exec"
    <3>1. startq' = [startq EXCEPT ![mine[c]] = Tail(@)] /\ UNCHANGED <<slock, mine>>
      BY <1>1, <2>2
    <3>2. pc[c] = "exit" /\ pc'[c] = "exec" /\ then'[c] = "none" /\ First(startq[mine[c]], c)
          /\ \A d \in Callers \ {c} : pc'[d] = pc[d] /\ then'[d] = then[d]
      BY <1>2, <2>2
    <3> QED  BY ONLY AppInv, c \in Callers, <1>3, <3>1, <3>2, Releases
  <2> QED  BY <2>1, <2>2
<1>5. TypeOK'  BY <1>1, <1>4 DEF TypeOK, Servers
<1>6. Places'
  <2>1. PlacesOf(c)'  BY <1>1, <1>2 DEF PlacesOf, Inside
  <2>2. \A d \in Callers \ {c} : PlacesOf(d)'  BY <1>1, <1>2, AppTypes, OthersPlaces
  <2> QED  BY <2>1, <2>2 DEF Places
<1>7. Numbers'
  <2>1. Makers \subseteq Makers' /\ Inits \subseteq Inits' /\ Threads \subseteq Threads'
        /\ Turns \subseteq Turns'
    BY <1>1, <1>2 DEF Makers, Inits, Threads, Turns, Closing
  <2>2. single' = single /\ \A x \in Servers : srv'[x].next = srv[x].next  BY <1>1
  <2> QED  BY <1>5, <2>1, <2>2, NumbersStay DEF AppInv
<1>8. Requests' /\ Waits'  BY <1>1, <1>2, <1>3, ExitWaits
<1>9. OnlySingle'
  <2>1. \A x \in Servers : x # single => srv'[x] = srv[x]  OBVIOUS
  <2> QED  BY <1>1, <2>1 DEF AppInv, OnlySingle, Servers
<1> QED  BY <1>4, <1>5, <1>6, <1>7, <1>8, <1>9 DEF AppInv

-----------------------------------------------------------------------------
(* The requests.                                                           *)

(* A caller puts a request: what every such step has in common.            *)
MayAsk(c, s, r, to) ==
  /\ r \in Server /\ to \in {"init", "thread", "ack"}
  /\ pc[c] \in {"starting", "boot", "init", "thread"} /\ mine[c] = s
  /\ pc' = [pc EXCEPT ![c] = to] /\ ~Closing(c)
  /\ UNCHANGED <<then, mine, thread, single, slock, budget>> /\ Locks'
  /\ startq' \in [Servers -> Seq(Callers)] /\ live' \in [Servers -> SUBSET Callers]
  /\ Asking(c, s, r) /\ Requests' /\ fut' = [fut EXCEPT ![c] = "wait"]
  /\ turn' \in [Callers -> Future] /\ (\A d \in Callers \ {c} : turn'[d] = turn[d])
  /\ (turn'[c] = "none" \/ (to = "ack" /\ \E x \in r.turns : x.by = c))
  /\ (to = "ack" <=> pc[c] = "thread") /\ (to = "init" <=> pc[c] = "boot")
  /\ (to = "ack" => thread[c] = {c}) /\ (to = "thread" => r.started)
  /\ (r.proc = srv[s].proc \/ s = single) /\ (\A e \in Callers \ {c} : Respawns(e) => mine[e] # s)
  /\ \A d \in Callers \ {c} : mine[d] = s =>
       /\ fut[d] = "wait" => \A p \in srv[s].pending : p.by = d => p \in r.pending
       /\ turn[d] = "wait" => \A x \in srv[s].turns : x.by = d => x \in r.turns
  /\ \/ r.proc = srv[s].proc /\ (srv[s].started => r.started)
     \/ \A d \in Callers \ {c} : mine[d] = s => fut[d] # "wait" /\ turn[d] # "wait"
                                              /\ ~(pc[d] = "thread" /\ fut[d] = "ok")
LEMMA AskWaits ==
  ASSUME AppInv, NEW c \in Callers, NEW s \in Servers, NEW r, NEW to, MayAsk(c, s, r, to),
         then[c] = "none",
         \A d \in Callers \ {c} : pc'[d] = pc[d] /\ fut'[d] = fut[d], pc'[c] = to
  PROVE  Waits'
<1> SUFFICES ASSUME mine[c] = s, Asking(c, s, r),
         UNCHANGED <<then, mine>>, pc'[c] \in {"init", "thread", "ack"},
         \A d \in Callers \ {c} : pc'[d] = pc[d] /\ fut'[d] = fut[d] /\ turn'[d] = turn[d],
         turn'[c] = "wait" => \E x \in r.turns : x.by = c,
         pc'[c] = "thread" => r.started,
         \A e \in Callers \ {c} : Respawns(e) => mine[e] # s,
         \A d \in Callers \ {c} : mine[d] = s =>
           /\ fut[d] = "wait" => \A p \in srv[s].pending : p.by = d => p \in r.pending
           /\ turn[d] = "wait" => \A x \in srv[s].turns : x.by = d => x \in r.turns,
         \/ r.proc = srv[s].proc /\ (srv[s].started => r.started)
         \/ \A d \in Callers \ {c} : mine[d] = s => fut[d] # "wait" /\ turn[d] # "wait"
                                                    /\ ~(pc[d] = "thread" /\ fut[d] = "ok")
         PROVE  Waits'
  BY DEF MayAsk
<1>1. ~Respawns(c)' /\ \A e \in Callers \ {c} : Respawns(e)' <=> Respawns(e)
  BY DEF Respawns
<1>2. PICK e : e = [id |-> r.next, by |-> c]  OBVIOUS
<1>3. /\ srv'[s].pending = r.pending \cup {e} /\ e.by = c /\ srv'[s].turns = r.turns
      /\ srv'[s].started = r.started /\ srv'[s].proc = r.proc
      /\ \A x \in Servers \ {s} : srv'[x] = srv[x]
  BY <1>2 DEF Asking
<1>4. WaitsOf(c)'
  <2>1. \E p \in srv'[mine'[c]].pending : p.by = c  BY <1>3
  <2>2. turn'[c] = "wait" => \E x \in srv'[mine'[c]].turns : x.by = c  BY <1>3
  <2>3. pc'[c] = "thread" => srv'[mine'[c]].started  BY <1>3
  <2>4. \A d \in Callers : ~(Respawns(d)' /\ mine'[d] = mine'[c])  BY <1>1
  <2> QED  BY <2>1, <2>2, <2>3, <2>4 DEF WaitsOf
<1>5. ASSUME NEW d \in Callers \ {c} PROVE WaitsOf(d)'
  <2>1. /\ WaitsOf(d) /\ pc'[d] = pc[d] /\ mine'[d] = mine[d] /\ fut'[d] = fut[d] /\ turn'[d] = turn[d]
        /\ (fut[d] = "wait" \/ turn[d] = "wait" => mine[d] \in Servers)
    BY AppTypes DEF AppInv, Waits, Places, PlacesOf
  <2>2. fut[d] = "wait" => \A p \in srv[mine[d]].pending : p.by = d => p \in srv'[mine[d]].pending
    BY <1>3, <2>1
  <2>3. turn[d] = "wait" => \A x \in srv[mine[d]].turns : x.by = d => x \in srv'[mine[d]].turns
    BY <1>3, <2>1
  <2>4. \A x \in Callers : Respawns(x)' /\ mine'[x] = mine[d] => Respawns(x) /\ mine[x] = mine[d]
    BY <1>1
  <2>5. CASE mine[d] # s \/ (r.proc = srv[s].proc /\ (srv[s].started => r.started))
    <3>1. mine[d] \in Servers => /\ Alive(mine[d])' => Alive(mine[d])
                                 /\ srv[mine[d]].started /\ Alive(mine[d])' => srv'[mine[d]].started
      BY <1>3, <2>1, <2>5 DEF Alive
    <3> QED  BY <2>1, <2>2, <2>3, <2>4, <3>1, OtherWaits
  <2>6. CASE mine[d] = s /\ fut[d] # "wait" /\ turn[d] # "wait" /\ ~(pc[d] = "thread" /\ fut[d] = "ok")
    BY <2>1, <2>6 DEF WaitsOf, QuietOf
  <2> QED  BY <2>5, <2>6
<1> QED  BY <1>4, <1>5 DEF Waits

(* A caller puts a request.                                                *)
LEMMA AppAsks ==
  ASSUME AppInv, NEW c \in Callers, NEW s \in Servers, NEW r, NEW to, MayAsk(c, s, r, to)
  PROVE  AppInv'
<1> SUFFICES ASSUME r \in Server, to \in {"init", "thread", "ack"},
                    pc[c] \in {"starting", "boot", "init", "thread"}, mine[c] = s,
                    pc' = [pc EXCEPT ![c] = to], ~Closing(c),
                    UNCHANGED <<then, mine, thread, single, slock, budget>>, Locks',
                    startq' \in [Servers -> Seq(Callers)], live' \in [Servers -> SUBSET Callers],
                    Asking(c, s, r), Requests', fut' = [fut EXCEPT ![c] = "wait"],
                    turn' \in [Callers -> Future], \A d \in Callers \ {c} : turn'[d] = turn[d],
                    turn'[c] = "none" \/ (to = "ack" /\ \E x \in r.turns : x.by = c),
                    to = "ack" <=> pc[c] = "thread", to = "init" <=> pc[c] = "boot",
                    to = "ack" => thread[c] = {c}, to = "thread" => r.started,
                    r.proc = srv[s].proc \/ s = single,
                    \A e \in Callers \ {c} : Respawns(e) => mine[e] # s,
                    \A d \in Callers \ {c} : mine[d] = s =>
                      /\ fut[d] = "wait" => \A p \in srv[s].pending : p.by = d => p \in r.pending
                      /\ turn[d] = "wait" => \A x \in srv[s].turns : x.by = d => x \in r.turns,
                    \/ r.proc = srv[s].proc /\ (srv[s].started => r.started)
                    \/ \A d \in Callers \ {c} : mine[d] = s => fut[d] # "wait" /\ turn[d] # "wait"
                                                             /\ ~(pc[d] = "thread" /\ fut[d] = "ok")
             PROVE  AppInv'
  BY DEF MayAsk
<1>1. TypeOK /\ PlacesOf(c) /\ then[c] = "none"  BY DEF AppInv, Places, PlacesOf
<1>2. pc'[c] = to /\ \A d \in Callers \ {c} : pc'[d] = pc[d]  BY <1>1 DEF TypeOK
<1>3. fut' \in [Callers -> Future] /\ fut'[c] = "wait" /\ \A d \in Callers \ {c} : fut'[d] = fut[d]
  BY <1>1 DEF TypeOK, Future
<1>4. /\ srv' \in [Servers -> Server] /\ wire' \in [Servers -> SUBSET Request]
      /\ srv'[s].proc = r.proc /\ srv'[s].next = srv[s].next + 1
      /\ \A x \in Servers \ {s} : srv'[x] = srv[x]
  BY DEF Asking
<1>5. TypeOK'
  <2>1. pc' \in [Callers -> {"idle", "single", "closing", "starting", "reader", "exit", "boot",
                             "init", "thread", "ack", "turn", "exec", "done", "answered"}]
    BY <1>1 DEF TypeOK
  <2> QED  BY ONLY <1>1, <1>3, <1>4, <2>1, live' \in [Servers -> SUBSET Callers],
              startq' \in [Servers -> Seq(Callers)], turn' \in [Callers -> Future],
              UNCHANGED <<then, mine, thread, single, slock, budget>> DEF TypeOK, Servers
<1>6. Places'
  <2>1. PlacesOf(c)'  BY <1>1, <1>2, <1>3 DEF PlacesOf, Inside
  <2>2. ASSUME NEW d \in Callers \ {c} PROVE PlacesOf(d)'
    <3>1. pc'[d] = pc[d] /\ then'[d] = then[d] /\ mine'[d] = mine[d] /\ thread'[d] = thread[d]
          /\ fut'[d] = fut[d] /\ turn'[d] = turn[d] /\ single' = single /\ single \in Nat
      BY <1>1, <1>2, <1>3, AppTypes
    <3> QED  BY ONLY AppInv, d \in Callers, <3>1, OthersPlaces
  <2> QED  BY <2>1, <2>2 DEF Places
<1>7. Numbers'
  <2>1. Makers \subseteq Makers' /\ Inits \subseteq Inits' /\ Threads \subseteq Threads'
        /\ Turns \subseteq Turns'
        /\ c \in (Inits' \ Inits) \cup (Threads' \ Threads) \cup (Turns' \ Turns)
    BY <1>1, <1>2 DEF Makers, Inits, Threads, Turns, Closing
  <2>2. single' = single /\ \A x \in Servers : srv'[x].next = srv[x].next \/
                                               srv'[x].next = srv[x].next + 1
    BY <1>4
  <2> QED  BY ONLY AppInv, c \in Callers, <1>1, <1>5, <2>1, <2>2, NumbersStay DEF AppInv
<1>8. Waits'
  <2>1. \A d \in Callers \ {c} : pc'[d] = pc[d] /\ fut'[d] = fut[d]  BY <1>2, <1>3
  <2>2. pc'[c] = to /\ then[c] = "none"  BY <1>1, <1>2
  <2> QED  BY ONLY AppInv, c \in Callers, s \in Servers, MayAsk(c, s, r, to), <2>1, <2>2, AskWaits
<1>9. OnlySingle'  BY <1>4 DEF AppInv, OnlySingle, Servers
<1> QED  BY <1>5, <1>6, <1>7, <1>8, <1>9 DEF AppInv

(* While somebody holds a start lock nobody else respawns the process.     *)
LEMMA NobodyRespawns ==
  ASSUME AppInv, NEW c \in Callers, First(startq[mine[c]], c), pc[c] \in Inside
  PROVE  \A e \in Callers \ {c} : ~Respawns(e)
<1> SUFFICES ASSUME NEW e \in Callers \ {c}, Respawns(e) PROVE FALSE  OBVIOUS
<1>1. pc[e] \in Holding  BY DEF AppInv, Places, PlacesOf, Respawns, Holding
<1> QED  BY <1>1, OneHolds

LEMMA AppAlreadyStarted ==
  ASSUME AppInv, NEW c \in Callers, AlreadyStarted(c)
  PROVE  AppInv'
<1>1. UNCHANGED <<then, mine, thread, turn, single, slock, live, budget>> /\ TypeOK
      /\ First(startq[mine[c]], c) /\ Ready(mine[c])
      /\ startq' = [startq EXCEPT ![mine[c]] = Tail(@)]
      /\ pc' = [pc EXCEPT ![c] = "thread"] /\ pc[c] = "starting"
      /\ OpenThread(c, mine[c], srv[mine[c]])
  BY DEF AlreadyStarted, At, AppInv
<1>2. pc'[c] = "thread" /\ \A d \in Callers \ {c} : pc'[d] = pc[d]  BY <1>1 DEF TypeOK
<1>3. PlacesOf(c) /\ then[c] = "none" /\ turn[c] = "none" /\ mine[c] = single /\ mine[c] \in Servers
  BY <1>1, AppTypes DEF AppInv, Places, PlacesOf, Inside
<1>4. PICK s \in Servers : s = mine[c]  BY <1>3
<1>5. PICK r \in Server : r = srv[s]  BY <1>1, AppTypes
<1>6. ~Closing(c) /\ \A e \in Callers \ {c} : ~Respawns(e)
  BY <1>1, <1>3, NobodyRespawns DEF Closing, Inside
<1>7. Locks' /\ startq' \in [Servers -> Seq(Callers)]
  BY <1>1, <1>2, <1>3, <1>6, Releases
<1>8. /\ srv' = [srv EXCEPT ![s] = Register(r, c)] /\ fut' = [fut EXCEPT ![c] = "wait"]
      /\ wire' = [wire EXCEPT ![s] = Written(s, r, c, "thread", c)]
  BY <1>1, <1>4, <1>5 DEF OpenThread
<1>9. Asking(c, s, r) /\ Requests'
  <2>1. \A t \in r.turns : t.thread = t.by  BY <1>5 DEF AppInv, Requests, RequestsOf
  <2>2. c \notin Threads  BY <1>1 DEF Threads
  <2> QED  BY ONLY AppInv, c \in Callers, <1>5, <1>8, <2>1, <2>2, Asks
<1>10. /\ turn' \in [Callers -> Future] /\ turn'[c] = "none" /\ \A d \in Callers : turn'[d] = turn[d]
       /\ live' \in [Servers -> SUBSET Callers]
  BY <1>1, <1>3 DEF TypeOK
<1>11. r.started  BY <1>1, <1>4, <1>5 DEF Ready
<1>12. UNCHANGED <<then, mine, thread, single, slock, budget>>  BY <1>1
<1>13. MayAsk(c, s, r, "thread")
  BY ONLY <1>1, <1>3, <1>4, <1>5, <1>6, <1>7, <1>8, <1>9, <1>10, <1>11, <1>12 DEF MayAsk
<1> QED  BY ONLY AppInv, c \in Callers, s \in Servers, <1>13, AppAsks

LEMMA AppBoot ==
  ASSUME AppInv, NEW c \in Callers, Boot(c)
  PROVE  AppInv'
<1>1. UNCHANGED <<then, mine, thread, turn, single, slock, startq, live, budget>> /\ TypeOK
      /\ pc' = [pc EXCEPT ![c] = "init"] /\ pc[c] = "boot" /\ Settled(c)
  BY DEF Boot, At, locks, AppInv
<1>2. pc'[c] = "init" /\ \A d \in Callers \ {c} : pc'[d] = pc[d]  BY <1>1 DEF TypeOK
<1>3. PlacesOf(c) /\ then[c] = "none" /\ turn[c] = "none" /\ mine[c] = single /\ mine[c] \in Servers
  BY <1>1, AppTypes DEF AppInv, Places, PlacesOf, Inside
<1>4. PICK s \in Servers : s = mine[c]  BY <1>3
<1>5. PICK r : r = [srv[s] EXCEPT !.proc = "up", !.reader = "runs", !.pending = {}, !.turns = {}]
  OBVIOUS
<1>6. r \in Server /\ r.next = srv[s].next /\ r.pending = {} /\ r.turns = {}
  <2>1. srv[s] \in Server  BY <1>1, AppTypes
  <2> QED  BY <1>5, <2>1 DEF Server
<1>7. First(startq[mine[c]], c)
  BY <1>1, <1>3 DEF AppInv, Locks, StartLock, Holding
<1>8. ~Closing(c) /\ \A e \in Callers \ {c} : ~Respawns(e)
  BY <1>1, <1>3, <1>7, NobodyRespawns DEF Closing, Inside
<1>9. Locks'
  <2>1. \A d \in Callers : /\ pc'[d] \in Inside <=> pc[d] \in Inside
                           /\ pc'[d] \in Holding <=> pc[d] \in Holding
                           /\ pc'[d] = "single" <=> pc[d] = "single"
                           /\ Closing(d)' <=> Closing(d)
    BY <1>1, <1>2 DEF Inside, Holding, Closing
  <2> QED  BY <1>1, <2>1, LocksStay DEF AppInv
<1>10. /\ srv' = [srv EXCEPT ![s] = Register(r, c)] /\ fut' = [fut EXCEPT ![c] = "wait"]
       /\ wire' = [wire EXCEPT ![s] = Written(s, r, c, "initialize", c)]
  BY <1>4, <1>5 DEF Boot
<1>11. Asking(c, s, r) /\ Requests'
  <2>1. c \notin Threads  BY <1>1 DEF Threads
  <2>2. \A t \in r.turns : t.thread = t.by  BY <1>6
  <2>3. r.pending \subseteq srv[s].pending  BY <1>6
  <2> QED  BY ONLY AppInv, c \in Callers, <1>6, <1>10, <2>1, <2>2, <2>3, Asks
<1>12. /\ turn' \in [Callers -> Future] /\ turn'[c] = "none" /\ \A d \in Callers : turn'[d] = turn[d]
       /\ live' \in [Servers -> SUBSET Callers] /\ startq' \in [Servers -> Seq(Callers)]
  BY <1>1, <1>3 DEF TypeOK
<1>13. \A d \in Callers \ {c} : mine[d] = s => fut[d] # "wait" /\ turn[d] # "wait"
                                               /\ ~(pc[d] = "thread" /\ fut[d] = "ok")
  <2>1. Respawns(c)  BY <1>1 DEF Respawns
  <2>2. \A d \in Callers : mine[d] = s => QuietOf(d)  BY <1>4, <2>1 DEF AppInv, Waits, WaitsOf
  <2> QED  BY <1>1, <2>2 DEF QuietOf, Settled
<1>14. MayAsk(c, s, r, "init")
  BY ONLY <1>1, <1>3, <1>4, <1>6, <1>8, <1>9, <1>10, <1>11, <1>12, <1>13 DEF MayAsk
<1> QED  BY ONLY AppInv, c \in Callers, s \in Servers, <1>14, AppAsks

LEMMA AppStartTurn ==
  ASSUME AppInv, NEW c \in Callers, StartTurn(c)
  PROVE  AppInv'
<1>1. UNCHANGED <<then, mine, thread, single, slock, startq, budget>> /\ TypeOK
      /\ pc' = [pc EXCEPT ![c] = "ack"] /\ pc[c] = "thread" /\ fut[c] = "ok" /\ Alive(mine[c])
      /\ fut' = [fut EXCEPT ![c] = "wait"] /\ turn' = [turn EXCEPT ![c] = "wait"]
  BY DEF StartTurn, At, locks, AppInv
<1>2. pc'[c] = "ack" /\ \A d \in Callers \ {c} : pc'[d] = pc[d]  BY <1>1 DEF TypeOK
<1>3. PlacesOf(c) /\ then[c] = "none" /\ thread[c] \subseteq {c} /\ mine[c] \in Servers
  BY <1>1, AppTypes DEF AppInv, Places, PlacesOf
<1>4. PICK s \in Servers : s = mine[c]  BY <1>3
<1>5. PICK u : u = Unregister(srv[s], c)  OBVIOUS
<1>6. PICK r : r = Registered(u, c)  OBVIOUS
<1>7. PICK t \in thread[c] :
        /\ wire' = [wire EXCEPT ![s] = Written(s, r, c, "turn", t)]
        /\ live' = [live EXCEPT ![s] = IF Unsure(s) THEN @ ELSE @ \cup {t}]
  BY <1>4, <1>5, <1>6 DEF StartTurn
<1>8. t = c /\ thread[c] = {c}  BY <1>3
<1>9. /\ u \in Server /\ u.pending = {p \in srv[s].pending : p.by # c} /\ u.turns = srv[s].turns
      /\ u.next = srv[s].next /\ u.started = srv[s].started /\ u.proc = srv[s].proc
  <2>1. srv[s] \in Server  BY <1>1, AppTypes
  <2>2. u \in Server /\ u = [srv[s] EXCEPT !.pending = {p \in srv[s].pending : p.by # c}]
    BY <1>3, <1>5, <2>1, Fields
  <2> QED  BY <2>1, <2>2 DEF Server
<1>10. /\ r \in Server /\ r.pending = u.pending /\ r.next = u.next /\ r.started = u.started
       /\ r.proc = u.proc
       /\ r.turns = {x \in u.turns : x.thread \notin thread[c]}
                      \cup {[thread |-> x, by |-> c] : x \in thread[c]}
  <2>1. r \in Server /\ r = [u EXCEPT !.turns = {x \in u.turns : x.thread \notin thread[c]}
                                        \cup {[thread |-> x, by |-> c] : x \in thread[c]}]
    BY <1>3, <1>6, <1>9, Fields
  <2> QED  BY <1>9, <2>1 DEF Server
<1>11. PICK e : e = [thread |-> c, by |-> c]  OBVIOUS
<1>12. r.turns = {x \in srv[s].turns : x.thread # c} \cup {e} /\ e.thread = c /\ e.by = c
  BY <1>8, <1>9, <1>10, <1>11
<1>13. \A x \in srv[s].turns : x.thread = x.by  BY DEF AppInv, Requests, RequestsOf
<1>14. ~Closing(c) /\ \A d \in Callers \ {c} : Respawns(d) => mine[d] # s
  <2>1. ~QuietOf(c)  BY <1>1 DEF QuietOf
  <2> QED  BY <1>1, <1>3, <1>4, <2>1 DEF Closing, AppInv, Waits, WaitsOf
<1>15. Locks'
  <2>1. \A d \in Callers : /\ pc'[d] \in Inside <=> pc[d] \in Inside
                           /\ pc'[d] \in Holding <=> pc[d] \in Holding
                           /\ pc'[d] = "single" <=> pc[d] = "single"
                           /\ Closing(d)' <=> Closing(d)
    BY <1>1, <1>2 DEF Inside, Holding, Closing
  <2> QED  BY <1>1, <2>1, LocksStay DEF AppInv
<1>16. Asking(c, s, r) /\ Requests'
  <2>1. c \notin Turns  BY <1>1 DEF Turns
  <2>2. \A x \in r.turns : x.thread = x.by  BY <1>12, <1>13
  <2>3. r.pending \subseteq srv[s].pending /\ r.next = srv[s].next  BY <1>9, <1>10
  <2>4. srv' = [srv EXCEPT ![s] = Register(r, c)]  BY <1>4, <1>5, <1>6 DEF StartTurn
  <2>5. t \in Callers  BY <1>8
  <2> QED  BY ONLY AppInv, c \in Callers, <1>7, <1>10, <2>1, <2>2, <2>3, <2>4, <2>5, Asks
<1>17. /\ turn' \in [Callers -> Future] /\ \A d \in Callers \ {c} : turn'[d] = turn[d]
       /\ live' \in [Servers -> SUBSET Callers] /\ startq' \in [Servers -> Seq(Callers)]
  <2>1. PICK l \in SUBSET Callers : live' = [live EXCEPT ![s] = l]
    BY <1>1, <1>7, <1>8 DEF TypeOK
  <2> QED  BY <1>1, <2>1 DEF TypeOK, Future
<1>18. \A d \in Callers \ {c} : /\ \A p \in srv[s].pending : p.by = d => p \in r.pending
                                /\ \A x \in srv[s].turns : x.by = d => x \in r.turns
  BY <1>9, <1>10, <1>12, <1>13
<1>19. r.proc = srv[s].proc /\ r.started = srv[s].started /\ \E x \in r.turns : x.by = c
  BY <1>9, <1>10, <1>12
<1>20. /\ UNCHANGED <<then, mine, thread, single, slock, budget>> /\ pc[c] = "thread"
       /\ pc' = [pc EXCEPT ![c] = "ack"] /\ fut' = [fut EXCEPT ![c] = "wait"]
       /\ mine[c] = s /\ thread[c] = {c} /\ r \in Server
  BY <1>1, <1>4, <1>8, <1>10
<1>21. MayAsk(c, s, r, "ack")
  BY ONLY <1>14, <1>15, <1>16, <1>17, <1>18, <1>19, <1>20, s \in Servers DEF MayAsk
<1> QED  BY ONLY AppInv, c \in Callers, s \in Servers, <1>21, AppAsks

-----------------------------------------------------------------------------
(* The end of a request or a turn.                                         *)

(* The record r is that of server s without entries of caller c.           *)
Less(c, s, r) ==
  /\ r \in Server /\ srv' = [srv EXCEPT ![s] = r]
  /\ r.proc = srv[s].proc /\ r.reader = srv[s].reader /\ r.started = srv[s].started
  /\ r.next = srv[s].next /\ r.pending \subseteq srv[s].pending /\ r.turns \subseteq srv[s].turns
  /\ \A p \in srv[s].pending : p.by # c => p \in r.pending
  /\ \A x \in srv[s].turns : x.by # c => x \in r.turns

LEMMA Unregisters ==
  ASSUME AppInv, NEW c \in Callers, NEW s \in Servers,
         srv' = [srv EXCEPT ![s] = Unregister(@, c)]
  PROVE  \E r : Less(c, s, r) /\ r.turns = srv[s].turns
<1>1. srv[s] \in Server /\ thread[c] \subseteq {c} /\ srv \in [Servers -> Server]
  BY AppTypes DEF AppInv, Places, PlacesOf, TypeOK
<1>2. PICK r : r = Unregister(srv[s], c)  OBVIOUS
<1>3. r \in Server /\ r = [srv[s] EXCEPT !.pending = {p \in srv[s].pending : p.by # c}]
  BY <1>1, <1>2, Fields
<1>4. /\ r.proc = srv[s].proc /\ r.reader = srv[s].reader /\ r.started = srv[s].started
      /\ r.next = srv[s].next /\ r.pending = {p \in srv[s].pending : p.by # c}
      /\ r.turns = srv[s].turns
  BY <1>1, <1>3 DEF Server
<1>5. srv' = [srv EXCEPT ![s] = r]  BY <1>1, <1>2
<1> QED  BY <1>3, <1>4, <1>5 DEF Less

LEMMA Pops ==
  ASSUME AppInv, NEW c \in Callers, NEW s \in Servers,
         srv' = [srv EXCEPT ![s] = PopTurn(Unregister(@, c), c)]
  PROVE  \E r : Less(c, s, r)
<1>1. srv[s] \in Server /\ thread[c] \subseteq {c} /\ srv \in [Servers -> Server]
      /\ \A x \in srv[s].turns : x.thread = x.by
  BY AppTypes DEF AppInv, Places, PlacesOf, TypeOK, Requests, RequestsOf
<1>2. PICK u : u = Unregister(srv[s], c)  OBVIOUS
<1>3. u \in Server /\ u = [srv[s] EXCEPT !.pending = {p \in srv[s].pending : p.by # c}]
  BY <1>1, <1>2, Fields
<1>4. PICK r : r = PopTurn(u, c)  OBVIOUS
<1>5. r \in Server /\ r = [u EXCEPT !.turns = {x \in u.turns : x.thread \notin thread[c]}]
  BY <1>1, <1>3, <1>4, Fields
<1>6. /\ u.proc = srv[s].proc /\ u.reader = srv[s].reader /\ u.started = srv[s].started
      /\ u.next = srv[s].next /\ u.pending = {p \in srv[s].pending : p.by # c}
      /\ u.turns = srv[s].turns
  BY <1>1, <1>3 DEF Server
<1>7. /\ r.proc = u.proc /\ r.reader = u.reader /\ r.started = u.started /\ r.next = u.next
      /\ r.pending = u.pending /\ r.turns = {x \in u.turns : x.thread \notin thread[c]}
  <2>1. PICK left : left = {x \in u.turns : x.thread \notin thread[c]}  OBVIOUS
  <2>2. u \in Server /\ r = [u EXCEPT !.turns = left]  BY ONLY <1>3, <1>5, <2>1
  <2>3. /\ r.proc = u.proc /\ r.reader = u.reader /\ r.started = u.started /\ r.next = u.next
        /\ r.pending = u.pending /\ r.turns = left
    BY ONLY <2>2 DEF Server
  <2> QED  BY ONLY <2>1, <2>3
<1>8. srv' = [srv EXCEPT ![s] = r]  BY <1>1, <1>2, <1>4
<1>9. \A x \in srv[s].turns : x.by # c => x \in r.turns  BY <1>1, <1>6, <1>7
<1> QED  BY <1>5, <1>6, <1>7, <1>8, <1>9 DEF Less

LEMMA LessWaits ==
  ASSUME AppInv, NEW c \in Callers, NEW s \in Servers, NEW r, mine[c] = s, Less(c, s, r),
         pc'[c] \in {"turn", "answered", "exec", "done"}, then'[c] = "none", UNCHANGED mine,
         \A d \in Callers \ {c} : pc'[d] = pc[d] /\ then'[d] = then[d] /\ fut'[d] = fut[d]
                                  /\ turn'[d] = turn[d],
         fut'[c] = "none",
         turn'[c] = "none" \/ (turn'[c] = turn[c] /\ r.turns = srv[s].turns)
  PROVE  Waits'
<1>1. ~Respawns(c)' /\ \A e \in Callers \ {c} : Respawns(e)' <=> Respawns(e)
  BY DEF Respawns
<1>2. /\ srv'[s] = r /\ \A x \in Servers \ {s} : srv'[x] = srv[x]
  BY AppTypes DEF Less, AppInv
<1>3. WaitsOf(c)'
  <2>1. WaitsOf(c)  BY DEF AppInv, Waits
  <2>2. turn'[c] = "wait" => \E x \in srv'[mine'[c]].turns : x.by = c  BY <1>2, <2>1 DEF WaitsOf
  <2>3. ASSUME NEW e \in Callers, Respawns(e)', mine'[e] = mine'[c] PROVE QuietOf(c)'
    <3>1. QuietOf(c)  BY <1>1, <2>1, <2>3 DEF WaitsOf
    <3> QED  BY <3>1 DEF QuietOf
  <2> QED  BY <2>2, <2>3 DEF WaitsOf
<1>4. ASSUME NEW d \in Callers \ {c} PROVE WaitsOf(d)'
  <2>1. /\ pc'[d] = pc[d] /\ mine'[d] = mine[d] /\ fut'[d] = fut[d] /\ turn'[d] = turn[d] /\ d # c
        /\ (fut[d] = "wait" \/ turn[d] = "wait" => mine[d] \in Servers)
    BY AppTypes DEF AppInv, Places, PlacesOf
  <2>2. fut[d] = "wait" => \A p \in srv[mine[d]].pending : p.by = d => p \in srv'[mine[d]].pending
    BY <1>2, <2>1 DEF Less
  <2>3. turn[d] = "wait" => \A x \in srv[mine[d]].turns : x.by = d => x \in srv'[mine[d]].turns
    BY <1>2, <2>1 DEF Less
  <2>4. \A x \in Callers : Respawns(x)' /\ mine'[x] = mine[d] => Respawns(x) /\ mine[x] = mine[d]
    BY <1>1
  <2>5. mine[d] \in Servers => /\ Alive(mine[d])' => Alive(mine[d])
                               /\ srv[mine[d]].started /\ Alive(mine[d])' => srv'[mine[d]].started
    BY <1>2 DEF Alive, Less
  <2> QED  BY <2>1, <2>2, <2>3, <2>4, <2>5, OtherWaits
<1> QED  BY <1>3, <1>4 DEF Waits

LEMMA AppLeaves ==
  ASSUME AppInv, NEW c \in Callers, NEW s \in Servers, NEW r, mine[c] = s, Less(c, s, r),
         NEW to \in {"turn", "answered", "exec", "done"}, pc' = [pc EXCEPT ![c] = to],
         then' = [then EXCEPT ![c] = "none"], UNCHANGED <<mine, thread, single, wire, live>>,
         Locks', slock' \in Seq(Callers), startq' \in [Servers -> Seq(Callers)],
         budget' \in [deaths : 0 .. MaxDeaths, errors : 0 .. MaxErrors, cancels : 0 .. MaxCancels],
         fut' = [fut EXCEPT ![c] = "none"], turn' \in [Callers -> Future],
         \A d \in Callers \ {c} : turn'[d] = turn[d],
         turn'[c] = "none" \/ (turn'[c] = turn[c] /\ r.turns = srv[s].turns /\ to = "turn"),
         to \in {"turn", "answered"} => thread[c] = {c}
  PROVE  AppInv'
<1>1. TypeOK /\ PlacesOf(c)  BY DEF AppInv, Places
<1>2. /\ pc'[c] = to /\ \A d \in Callers \ {c} : pc'[d] = pc[d]
      /\ then'[c] = "none" /\ \A d \in Callers \ {c} : then'[d] = then[d]
  BY <1>1 DEF TypeOK
<1>3. fut' \in [Callers -> Future] /\ fut'[c] = "none" /\ \A d \in Callers \ {c} : fut'[d] = fut[d]
  BY <1>1 DEF TypeOK, Future
<1>4. srv' \in [Servers -> Server] /\ srv'[s] = r /\ \A x \in Servers \ {s} : srv'[x] = srv[x]
  BY <1>1 DEF TypeOK, Less
<1>5. TypeOK'
  <2>1. pc' \in [Callers -> {"idle", "single", "closing", "starting", "reader", "exit", "boot",
                             "init", "thread", "ack", "turn", "exec", "done", "answered"}]
        /\ then' \in [Callers -> {"none", "close", "boot", "fail"}]
    BY <1>1 DEF TypeOK
  <2>2. UNCHANGED <<mine, thread, single, wire, live>> /\ slock' \in Seq(Callers)
        /\ startq' \in [Servers -> Seq(Callers)] /\ turn' \in [Callers -> Future]
        /\ budget' \in [deaths : 0 .. MaxDeaths, errors : 0 .. MaxErrors, cancels : 0 .. MaxCancels]
    OBVIOUS
  <2> QED  BY ONLY <1>1, <1>3, <1>4, <2>1, <2>2 DEF TypeOK, Servers
<1>6. Places'
  <2>1. PlacesOf(c)'
    <3>1. s # NoServer  BY <1>1, AppTypes
    <3> QED  BY <1>1, <1>2, <1>3, <3>1 DEF PlacesOf, Inside
  <2>2. ASSUME NEW d \in Callers \ {c} PROVE PlacesOf(d)'
    <3>1. pc'[d] = pc[d] /\ then'[d] = then[d] /\ mine'[d] = mine[d] /\ thread'[d] = thread[d]
          /\ fut'[d] = fut[d] /\ turn'[d] = turn[d] /\ single' = single /\ single \in Nat
      BY <1>1, <1>2, <1>3, AppTypes
    <3> QED  BY ONLY AppInv, d \in Callers, <3>1, OthersPlaces
  <2> QED  BY <2>1, <2>2 DEF Places
<1>7. Numbers'
  <2>1. Makers \subseteq Makers' /\ Inits \subseteq Inits' /\ Threads \subseteq Threads'
        /\ Turns \subseteq Turns'
    BY <1>2 DEF Makers, Inits, Threads, Turns, Closing
  <2>2. single' = single /\ \A x \in Servers : srv'[x].next = srv[x].next
    BY <1>4 DEF Less
  <2> QED  BY ONLY AppInv, c \in Callers, <1>1, <1>5, <2>1, <2>2, NumbersStay DEF AppInv
<1>8. Requests'
  <2>1. \A x \in Servers :
           /\ srv'[x].pending \subseteq srv[x].pending /\ srv'[x].turns \subseteq srv[x].turns
           /\ wire'[x] \subseteq wire[x] /\ srv'[x].next = srv[x].next
    BY <1>4 DEF Less
  <2> QED  BY <2>1, RequestsStay DEF AppInv
<1>9. Waits'
  <2>1. \A d \in Callers \ {c} : pc'[d] = pc[d] /\ then'[d] = then[d] /\ fut'[d] = fut[d]
                                 /\ turn'[d] = turn[d]
    BY <1>2, <1>3
  <2>2. pc'[c] \in {"turn", "answered", "exec", "done"} /\ then'[c] = "none" /\ fut'[c] = "none"
        /\ UNCHANGED mine
        /\ (turn'[c] = "none" \/ (turn'[c] = turn[c] /\ r.turns = srv[s].turns))
    BY <1>2, <1>3
  <2> QED  BY ONLY AppInv, c \in Callers, s \in Servers, mine[c] = s, Less(c, s, r),
              <2>1, <2>2, LessWaits
<1>10. OnlySingle'  BY <1>4 DEF Less, AppInv, OnlySingle, Servers
<1> QED  BY <1>5, <1>6, <1>7, <1>8, <1>9, <1>10 DEF AppInv

(* The caller is outside the locks and stays there.                        *)
LEMMA OutsideLocks ==
  ASSUME AppInv, NEW c \in Callers, pc[c] \in {"thread", "ack", "turn"},
         pc'[c] \in {"turn", "answered", "exec"}, UNCHANGED <<then, mine, slock, startq>>,
         \A d \in Callers \ {c} : pc'[d] = pc[d]
  PROVE  /\ Locks' /\ slock' \in Seq(Callers) /\ startq' \in [Servers -> Seq(Callers)]
         /\ then' = [then EXCEPT ![c] = "none"] /\ mine[c] \in Servers
<1>1. PlacesOf(c) /\ then[c] = "none" /\ TypeOK /\ mine[c] \in Servers
  BY AppTypes DEF AppInv, Places, PlacesOf
<1>2. \A d \in Callers : /\ pc'[d] \in Inside <=> pc[d] \in Inside
                         /\ pc'[d] \in Holding <=> pc[d] \in Holding
                         /\ pc'[d] = "single" <=> pc[d] = "single"
                         /\ Closing(d)' <=> Closing(d)
  BY <1>1 DEF Inside, Holding, Closing
<1>3. Locks'  BY <1>2, LocksStay DEF AppInv
<1>4. then' = [then EXCEPT ![c] = "none"]  BY <1>1 DEF TypeOK
<1> QED  BY <1>1, <1>3, <1>4 DEF TypeOK

LEMMA AppAcked ==
  ASSUME AppInv, NEW c \in Callers, Acked(c)
  PROVE  AppInv'
<1>1. UNCHANGED <<then, mine, thread, turn, single, slock, startq, wire, live, budget>> /\ TypeOK
      /\ pc' = [pc EXCEPT ![c] = "turn"] /\ pc[c] = "ack" /\ fut' = [fut EXCEPT ![c] = "none"]
      /\ srv' = [srv EXCEPT ![mine[c]] = Unregister(@, c)]
  BY DEF Acked, At, locks, AppInv
<1>2. pc'[c] = "turn" /\ \A d \in Callers \ {c} : pc'[d] = pc[d]  BY <1>1 DEF TypeOK
<1>3. /\ Locks' /\ slock' \in Seq(Callers) /\ startq' \in [Servers -> Seq(Callers)]
      /\ then' = [then EXCEPT ![c] = "none"] /\ mine[c] \in Servers
  BY <1>1, <1>2, OutsideLocks
<1>4. PICK s \in Servers : s = mine[c]  BY <1>3
<1>5. PICK r : Less(c, s, r) /\ r.turns = srv[s].turns  BY <1>1, <1>4, Unregisters
<1>6. /\ turn' \in [Callers -> Future] /\ \A d \in Callers : turn'[d] = turn[d]
      /\ thread[c] = {c}
      /\ budget' \in [deaths : 0 .. MaxDeaths, errors : 0 .. MaxErrors, cancels : 0 .. MaxCancels]
  BY <1>1 DEF TypeOK, AppInv, Places, PlacesOf
<1> QED  BY <1>1, <1>3, <1>4, <1>5, <1>6, AppLeaves

LEMMA AppGoes ==
  ASSUME AppInv, NEW c \in Callers, NEW from \in {"thread", "ack", "turn"},
         NEW to \in {"answered", "exec"}, At(c, from, to), to = "answered" => from = "turn",
         Leave(c), UNCHANGED <<then, mine, thread, locks, wire, live, budget>>
  PROVE  AppInv'
<1>1. UNCHANGED <<then, mine, thread, single, slock, startq, wire, live, budget>> /\ TypeOK
      /\ pc' = [pc EXCEPT ![c] = to] /\ pc[c] = from
  BY DEF At, locks, AppInv
<1>2. pc'[c] = to /\ \A d \in Callers \ {c} : pc'[d] = pc[d]  BY <1>1 DEF TypeOK
<1>3. /\ Locks' /\ slock' \in Seq(Callers) /\ startq' \in [Servers -> Seq(Callers)]
      /\ then' = [then EXCEPT ![c] = "none"] /\ mine[c] \in Servers
  BY <1>1, <1>2, OutsideLocks
<1>4. PICK s \in Servers : s = mine[c]  BY <1>3
<1>5. PICK r : Less(c, s, r)  BY <1>4, Pops DEF Leave
<1>6. /\ fut' = [fut EXCEPT ![c] = "none"] /\ turn' \in [Callers -> Future]
      /\ turn'[c] = "none" /\ \A d \in Callers \ {c} : turn'[d] = turn[d]
      /\ to = "answered" => thread[c] = {c}
      /\ budget' \in [deaths : 0 .. MaxDeaths, errors : 0 .. MaxErrors, cancels : 0 .. MaxCancels]
  BY <1>1 DEF Leave, TypeOK, Future, AppInv, Places, PlacesOf
<1> QED  BY <1>1, <1>3, <1>4, <1>5, <1>6, AppLeaves

LEMMA AppAnswered ==
  ASSUME AppInv, NEW c \in Callers, Answered(c)
  PROVE  AppInv'
BY AppGoes DEF Answered

LEMMA AppGivesUp ==
  ASSUME AppInv, NEW c \in Callers, GivesUp(c)
  PROVE  AppInv'
<1>1. PICK from \in {"thread", "ack", "turn"} : At(c, from, "exec")  BY DEF GivesUp
<1> QED  BY <1>1, AppGoes DEF GivesUp

LEMMA AppInitialized ==
  ASSUME AppInv, NEW c \in Callers, Initialized(c)
  PROVE  AppInv'
<1>1. UNCHANGED <<then, mine, thread, turn, single, slock, live, budget>> /\ TypeOK
      /\ pc[c] = "init" /\ startq' = [startq EXCEPT ![mine[c]] = Tail(@)]
  BY DEF Initialized, AppInv
<1>2. PlacesOf(c) /\ then[c] = "none" /\ turn[c] = "none" /\ mine[c] = single /\ mine[c] \in Servers
  BY <1>1, AppTypes DEF AppInv, Places, PlacesOf, Inside
<1>3. PICK s \in Servers : s = mine[c]  BY <1>2
<1>4. First(startq[mine[c]], c)
  BY <1>1, <1>2 DEF AppInv, Locks, StartLock, Holding
<1>5. ~Closing(c) /\ \A e \in Callers \ {c} : ~Respawns(e)
  BY <1>1, <1>2, <1>4, NobodyRespawns DEF Closing, Inside
<1>6. /\ turn' \in [Callers -> Future] /\ turn'[c] = "none" /\ \A d \in Callers : turn'[d] = turn[d]
      /\ live' \in [Servers -> SUBSET Callers] /\ slock' \in Seq(Callers)
      /\ budget' \in [deaths : 0 .. MaxDeaths, errors : 0 .. MaxErrors, cancels : 0 .. MaxCancels]
  BY <1>1, <1>2 DEF TypeOK
<1>7. ASSUME NEW to \in {"thread", "exec"}, pc' = [pc EXCEPT ![c] = to]
      PROVE  Locks' /\ startq' \in [Servers -> Seq(Callers)]
  <2>1. pc'[c] = to /\ \A d \in Callers \ {c} : pc'[d] = pc[d]  BY <1>1, <1>7 DEF TypeOK
  <2> QED  BY <1>1, <1>2, <1>4, <1>5, <2>1, Releases
<1>8. CASE pc' = [pc EXCEPT ![c] = "thread"]
           /\ OpenThread(c, s, [Unregister(srv[s], c) EXCEPT !.started = TRUE])
  <2>1. PICK u : u = Unregister(srv[s], c)  OBVIOUS
  <2>2. PICK r : r = [u EXCEPT !.started = TRUE]  OBVIOUS
  <2>3. /\ u \in Server /\ u.pending = {p \in srv[s].pending : p.by # c} /\ u.turns = srv[s].turns
        /\ u.next = srv[s].next /\ u.proc = srv[s].proc
    <3>1. srv[s] \in Server /\ thread[c] \subseteq {c}  BY <1>1, <1>2, AppTypes DEF PlacesOf
    <3>2. u \in Server /\ u = [srv[s] EXCEPT !.pending = {p \in srv[s].pending : p.by # c}]
      BY <2>1, <3>1, Fields
    <3> QED  BY <3>1, <3>2 DEF Server
  <2>4. /\ r \in Server /\ r.pending = u.pending /\ r.turns = u.turns /\ r.next = u.next
        /\ r.proc = u.proc /\ r.started = TRUE
    BY <2>2, <2>3 DEF Server
  <2>5. /\ srv' = [srv EXCEPT ![s] = Register(r, c)] /\ fut' = [fut EXCEPT ![c] = "wait"]
        /\ wire' = [wire EXCEPT ![s] = Written(s, r, c, "thread", c)]
    BY <1>8, <2>1, <2>2 DEF OpenThread
  <2>6. Asking(c, s, r) /\ Requests'
    <3>1. c \notin Threads  BY <1>1 DEF Threads
    <3>2. \A x \in r.turns : x.thread = x.by
      BY <2>3, <2>4 DEF AppInv, Requests, RequestsOf
    <3>3. r.pending \subseteq srv[s].pending /\ r.next = srv[s].next /\ r \in Server
      BY <2>3, <2>4
    <3> QED  BY ONLY AppInv, c \in Callers, <2>5, <3>1, <3>2, <3>3, Asks
  <2>7. \A d \in Callers \ {c} : /\ \A p \in srv[s].pending : p.by = d => p \in r.pending
                                 /\ \A x \in srv[s].turns : x.by = d => x \in r.turns
    BY <2>3, <2>4
  <2>8. /\ UNCHANGED <<then, mine, thread, single, slock, budget>> /\ pc[c] = "init"
        /\ pc' = [pc EXCEPT ![c] = "thread"] /\ fut' = [fut EXCEPT ![c] = "wait"] /\ mine[c] = s
        /\ r \in Server /\ r.started /\ r.proc = srv[s].proc
    BY <1>1, <1>3, <1>8, <2>3, <2>4, <2>5
  <2>9. Locks' /\ startq' \in [Servers -> Seq(Callers)]  BY <1>7, <1>8
  <2>10. MayAsk(c, s, r, "thread")  BY ONLY <1>5, <1>6, <2>6, <2>7, <2>8, <2>9 DEF MayAsk
  <2> QED  BY ONLY AppInv, c \in Callers, s \in Servers, <2>10, AppAsks
<1>9. CASE /\ pc' = [pc EXCEPT ![c] = "exec"] /\ srv' = [srv EXCEPT ![s] = Unregister(@, c)]
           /\ fut' = [fut EXCEPT ![c] = "none"] /\ UNCHANGED wire
  <2>1. PICK r : Less(c, s, r) /\ r.turns = srv[s].turns  BY <1>9, Unregisters
  <2>2. Locks' /\ startq' \in [Servers -> Seq(Callers)]  BY <1>7, <1>9
  <2>3. then' = [then EXCEPT ![c] = "none"]  BY <1>1, <1>2 DEF TypeOK
  <2> QED  BY <1>1, <1>3, <1>6, <1>9, <2>1, <2>2, <2>3, AppLeaves
<1> QED  BY <1>3, <1>8, <1>9 DEF Initialized

LEMMA AppCancelled ==
  ASSUME AppInv, NEW c \in Callers, Cancelled(c)
  PROVE  AppInv'
<1>1. /\ UNCHANGED <<mine, thread, single, wire, live>> /\ TypeOK
      /\ pc[c] \notin {"idle", "done", "answered"} /\ budget.cancels > 0
      /\ budget' = [budget EXCEPT !.cancels = @ - 1]
      /\ pc' = [pc EXCEPT ![c] = "done"] /\ then' = [then EXCEPT ![c] = "none"]
      /\ slock' = RemoveFirst(slock, c)
      /\ startq' = [s \in Servers |-> RemoveFirst(startq[s], c)]
  BY DEF Cancelled, AppInv
<1>2. /\ pc'[c] = "done" /\ then'[c] = "none"
      /\ \A d \in Callers \ {c} : pc'[d] = pc[d] /\ then'[d] = then[d] /\ mine'[d] = mine[d]
  BY <1>1 DEF TypeOK
<1>3. ~Closing(c)' /\ ~Respawns(c)' /\ pc'[c] \notin Inside  BY <1>2 DEF Closing, Respawns, Inside
<1>4. SingleLock /\ (\A s \in Servers : StartLock(s)) /\ PlacesOf(c)
  BY DEF AppInv, Locks, Places
<1>5. Others(slock', slock, c)  BY <1>1, <1>4, OneLeaves DEF SingleLock
<1>6. \A s \in Servers : Others(startq'[s], startq[s], c)
  BY <1>1, <1>4, OneLeaves DEF StartLock
<1>7. Locks'
  <2>1. SingleLock'  BY <1>2, <1>3, <1>4, <1>5, SingleLeaves
  <2>2. \A s \in Servers : StartLock(s)'  BY <1>2, <1>3, <1>4, <1>6, StartLeaves
  <2> QED  BY <2>1, <2>2 DEF Locks, Servers
<1>8. slock' \in Seq(Callers) /\ startq' \in [Servers -> Seq(Callers)]
  <2>1. \A s \in Servers : RemoveFirst(startq[s], c) \in Seq(Callers)
    BY <1>1, <1>6 DEF Others, Queue
  <2> QED  BY <1>1, <1>5, <2>1 DEF Others, Queue
<1>9. budget' \in [deaths : 0 .. MaxDeaths, errors : 0 .. MaxErrors, cancels : 0 .. MaxCancels]
  <2>1. budget.cancels \in 0 .. MaxCancels /\ budget.cancels - 1 \in 0 .. MaxCancels
    BY <1>1, AppServerAssumption DEF TypeOK
  <2> QED  BY <1>1, <2>1 DEF TypeOK
<1>10. CASE mine[c] # NoServer
  <2>1. PICK s \in Servers : s = mine[c]  BY <1>1, <1>10, AppTypes
  <2>2. Leave(c)  BY <1>10 DEF Cancelled
  <2>3. PICK r : Less(c, s, r)  BY <2>1, <2>2, Pops DEF Leave
  <2>4. /\ fut' = [fut EXCEPT ![c] = "none"] /\ turn' \in [Callers -> Future]
        /\ turn'[c] = "none" /\ \A d \in Callers \ {c} : turn'[d] = turn[d]
    BY <1>1, <2>2 DEF Leave, TypeOK, Future
  <2>5. /\ UNCHANGED <<mine, thread, single, wire, live>> /\ mine[c] = s
        /\ pc' = [pc EXCEPT ![c] = "done"] /\ then' = [then EXCEPT ![c] = "none"]
    BY <1>1, <2>1
  <2> QED  BY ONLY AppInv, c \in Callers, s \in Servers, <1>7, <1>8, <1>9, <2>3, <2>4, <2>5, AppLeaves
<1>11. CASE mine[c] = NoServer
  <2>1. UNCHANGED <<srv, fut, turn>>  BY <1>11 DEF Cancelled
  <2>2. pc[c] = "single" /\ fut[c] = "none" /\ turn[c] = "none"
    BY <1>1, <1>4, <1>11 DEF PlacesOf
  <2>3. TypeOK'
    <3>1. pc' \in [Callers -> {"idle", "single", "closing", "starting", "reader", "exit", "boot",
                               "init", "thread", "ack", "turn", "exec", "done", "answered"}]
          /\ then' \in [Callers -> {"none", "close", "boot", "fail"}]
      BY <1>1 DEF TypeOK
    <3>2. UNCHANGED <<mine, thread, single, wire, live>> /\ TypeOK  BY <1>1
    <3> QED  BY ONLY <1>8, <1>9, <2>1, <3>1, <3>2 DEF TypeOK, Servers
  <2>4. Places'
    <3>1. PlacesOf(c)'  BY <1>1, <1>2, <1>4, <2>1, <2>2 DEF PlacesOf, Inside
    <3>2. \A d \in Callers \ {c} : PlacesOf(d)'
      BY <1>1, <1>2, <2>1, AppTypes, OthersPlaces
    <3> QED  BY <3>1, <3>2 DEF Places
  <2>5. Numbers'
    <3>1. Makers \subseteq Makers' /\ Inits \subseteq Inits' /\ Threads \subseteq Threads'
          /\ Turns \subseteq Turns'
      BY <1>2 DEF Makers, Inits, Threads, Turns, Closing
    <3>2. single' = single /\ \A x \in Servers : srv'[x].next = srv[x].next
      BY <1>1, <2>1
    <3> QED  BY ONLY AppInv, c \in Callers, <1>1, <2>3, <3>1, <3>2, NumbersStay DEF AppInv
  <2>6. Requests' /\ Waits'
    <3>1. UNCHANGED <<wait, server>>  BY <1>1, <2>1 DEF wait, server
    <3> QED  BY <1>2, <1>3, <2>2, <3>1, Walks
  <2>7. OnlySingle'  BY <1>1, <2>1 DEF AppInv, OnlySingle, Servers
  <2> QED  BY <1>7, <2>3, <2>4, <2>5, <2>6, <2>7 DEF AppInv
<1> QED  BY <1>10, <1>11

-----------------------------------------------------------------------------
(* The process and the read loop.                                          *)

(* A future is completed at most once, and only while somebody waits.      *)
Completes(f, g) == \A d \in Callers : g[d] = f[d] \/ (f[d] = "wait" /\ g[d] \in {"ok", "err"})

(* What every step of the process and of the read loop has in common.      *)
LEMMA AppElsewhere ==
  ASSUME AppInv, TypeOK', UNCHANGED <<call, locks>>,
         \A d \in Callers : thread'[d] = thread[d] \/ thread'[d] = {d},
         Completes(fut, fut'), Completes(turn, turn'),
         \A s \in Servers :
           /\ srv'[s].pending = srv[s].pending /\ srv'[s].turns = srv[s].turns
           /\ srv'[s].started = srv[s].started /\ srv'[s].next = srv[s].next
           /\ wire'[s] \subseteq wire[s] /\ (Alive(s)' => Alive(s))
           /\ srv'[s].proc \in {"up", "deaf"} => srv[s].proc \in {"up", "deaf"}
  PROVE  AppInv'
<1>1. UNCHANGED <<pc, then, mine, single, slock, startq>> /\ TypeOK  BY DEF call, locks, AppInv
<1>2. \A d \in Callers : PlacesOf(d) /\ WaitsOf(d) /\ (pc[d] \in {"init", "thread", "ack", "turn"}
                                                        => mine[d] \in Servers)
  BY <1>1, AppTypes DEF AppInv, Places, PlacesOf, Waits
<1>3. Places'
  <2>1. ASSUME NEW d \in Callers PROVE PlacesOf(d)'
    <3>1. (fut'[d] # "none" => fut[d] # "none") /\ (turn'[d] # "none" => turn[d] # "none")
      BY DEF Completes
    <3>2. PlacesOf(d) /\ (thread'[d] = thread[d] \/ thread'[d] = {d})  BY <1>2
    <3> QED  BY <1>1, <3>1, <3>2 DEF PlacesOf
  <2> QED  BY <2>1 DEF Places
<1>4. Locks'
  <2>1. \A d \in Callers : Closing(d)' <=> Closing(d)  BY <1>1 DEF Closing
  <2> QED  BY <1>1, <2>1, LocksStay DEF AppInv
<1>5. Numbers'
  <2>1. Makers' = Makers /\ Inits' = Inits /\ Threads' = Threads /\ Turns' = Turns
    BY <1>1 DEF Makers, Inits, Threads, Turns, Closing
  <2>2. PICK c \in Callers : TRUE  BY AppServerAssumption
  <2> QED  BY <1>1, <2>1, <2>2, NumbersStay DEF AppInv
<1>6. Requests'  BY RequestsStay DEF AppInv
<1>7. ASSUME NEW d \in Callers PROVE WaitsOf(d)'
  <2>1. /\ WaitsOf(d) /\ PlacesOf(d)
        /\ (pc[d] \in {"init", "thread", "ack", "turn"} => mine[d] \in Servers)
        /\ fut'[d] = fut[d] \/ (fut[d] = "wait" /\ fut'[d] \in {"ok", "err"})
        /\ turn'[d] = turn[d] \/ (turn[d] = "wait" /\ turn'[d] \in {"ok", "err"})
    BY <1>2 DEF Completes
  <2>2. fut'[d] = "wait" => \E p \in srv'[mine'[d]].pending : p.by = d
    BY <1>1, <2>1 DEF WaitsOf, PlacesOf
  <2>3. turn'[d] = "wait" => \E t \in srv'[mine'[d]].turns : t.by = d
    BY <1>1, <2>1 DEF WaitsOf, PlacesOf
  <2>4. pc[d] = "thread" => /\ Alive(mine[d])' => Alive(mine[d])
                            /\ srv'[mine'[d]].started = srv[mine[d]].started
    BY <1>1, <2>1 DEF Alive
  <2>5. pc'[d] = "thread" /\ Alive(mine[d])' /\ ~srv'[mine'[d]].started => fut'[d] \notin {"wait", "ok"}
    BY <1>1, <2>1, <2>4 DEF WaitsOf
  <2>6. ASSUME NEW e \in Callers, Respawns(e)', mine'[e] = mine'[d] PROVE QuietOf(d)'
    <3>1. QuietOf(d)  BY <1>1, <2>1, <2>6 DEF WaitsOf, Respawns
    <3> QED  BY <1>1, <2>1, <2>4, <3>1 DEF QuietOf
  <2> QED  BY <2>2, <2>3, <2>5, <2>6 DEF WaitsOf
<1>8. OnlySingle'  BY <1>1 DEF AppInv, OnlySingle, Servers
<1> QED  BY <1>3, <1>4, <1>5, <1>6, <1>7, <1>8 DEF AppInv, Waits

LEMMA FailedCompletes ==
  ASSUME NEW f \in [Callers -> Future], NEW W
  PROVE  Failed(f, W) \in [Callers -> Future] /\ Completes(f, Failed(f, W))
BY DEF Failed, Future, Completes

LEMMA AppResponse ==
  ASSUME AppInv, NEW s \in Servers, NEW q \in wire[s], NEW ok \in BOOLEAN, Response(s, q, ok)
  PROVE  AppInv'
<1>1. UNCHANGED <<call, locks, turn, srv, budget>> /\ TypeOK
      /\ UNCHANGED <<pc, then, mine, single, slock, startq>>
      /\ wire' = [wire EXCEPT ![s] = @ \ {q}]
      /\ fut' = [c \in Callers |-> IF c \notin Waiters(s, q) THEN fut[c]
                                   ELSE IF ok THEN "ok" ELSE "err"]
      /\ thread' = [c \in Callers |-> IF c \in Waiters(s, q) /\ ok /\ pc[c] = "thread"
                                      THEN {q.by} ELSE thread[c]]
  BY DEF Response, call, locks, AppInv
<1>2. ASSUME NEW d \in Callers, d \in Waiters(s, q) PROVE d = q.by /\ fut[d] = "wait"
  BY <1>2 DEF Waiters, AppInv, Requests, RequestsOf
<1>3. fut' \in [Callers -> Future] /\ Completes(fut, fut')
  BY <1>1, <1>2 DEF Completes, Future, TypeOK
<1>4. thread' \in [Callers -> SUBSET Callers]
      /\ \A d \in Callers : thread'[d] = thread[d] \/ thread'[d] = {d}
  BY <1>1, <1>2 DEF TypeOK
<1>5. wire' \in [Servers -> SUBSET Request] /\ \A x \in Servers : wire'[x] \subseteq wire[x]
  BY <1>1 DEF TypeOK
<1>6. live' \in [Servers -> SUBSET Callers]  BY <1>1 DEF Response, TypeOK
<1>7. TypeOK'
  <2>1. UNCHANGED <<pc, then, mine, single, slock, startq, turn, srv, budget>> /\ TypeOK  BY <1>1
  <2> QED  BY ONLY <1>3, <1>4, <1>5, <1>6, <2>1 DEF TypeOK, Servers
<1>8. Completes(turn, turn') /\ \A x \in Servers : srv'[x] = srv[x] /\ (Alive(x)' => Alive(x))
  BY <1>1 DEF Completes, Alive
<1> QED  BY ONLY AppInv, <1>1, <1>3, <1>4, <1>5, <1>7, <1>8, AppElsewhere

LEMMA AppCompleted ==
  ASSUME AppInv, NEW s \in Servers, NEW t \in Callers, Completed(s, t)
  PROVE  AppInv'
<1>1. UNCHANGED <<call, locks, fut, thread, srv, wire, budget>> /\ TypeOK
      /\ UNCHANGED <<pc, then, mine, single, slock, startq>>
      /\ live' = [live EXCEPT ![s] = @ \ {t}]
      /\ turn' = [c \in Callers |->
                    IF turn[c] = "wait" /\ [thread |-> t, by |-> c] \in srv[s].turns THEN "ok"
                    ELSE turn[c]]
  BY DEF Completed, call, locks, AppInv
<1>2. turn' \in [Callers -> Future] /\ Completes(turn, turn')
  BY <1>1 DEF Completes, Future, TypeOK
<1>3. live' \in [Servers -> SUBSET Callers]  BY <1>1 DEF TypeOK
<1>4. TypeOK'  BY ONLY <1>1, <1>2, <1>3 DEF TypeOK, Servers
<1>5. Completes(fut, fut') /\ \A x \in Servers : srv'[x] = srv[x] /\ (Alive(x)' => Alive(x))
  BY <1>1 DEF Completes, Alive
<1> QED  BY ONLY AppInv, <1>1, <1>2, <1>4, <1>5, AppElsewhere

LEMMA AppErrorSent ==
  ASSUME AppInv, NEW s \in Servers, ErrorSent(s)
  PROVE  AppInv'
<1>1. UNCHANGED <<call, locks, fut, thread, srv, wire, live>> /\ TypeOK
      /\ UNCHANGED <<pc, then, mine, single, slock, startq>>
      /\ budget' = [budget EXCEPT !.errors = @ - 1] /\ budget.errors > 0
      /\ turn' = Failed(turn, {t.by : t \in srv[s].turns})
  BY DEF ErrorSent, call, locks, server, AppInv
<1>2. turn' \in [Callers -> Future] /\ Completes(turn, turn')
  BY <1>1, FailedCompletes DEF TypeOK
<1>3. budget' \in [deaths : 0 .. MaxDeaths, errors : 0 .. MaxErrors, cancels : 0 .. MaxCancels]
  <2>1. budget.errors \in 0 .. MaxErrors /\ budget.errors - 1 \in 0 .. MaxErrors
    BY <1>1, AppServerAssumption DEF TypeOK
  <2> QED  BY <1>1, <2>1 DEF TypeOK
<1>4. TypeOK'  BY ONLY <1>1, <1>2, <1>3 DEF TypeOK, Servers
<1>5. Completes(fut, fut') /\ \A x \in Servers : srv'[x] = srv[x] /\ (Alive(x)' => Alive(x))
  BY <1>1 DEF Completes, Alive
<1> QED  BY ONLY AppInv, <1>1, <1>2, <1>4, <1>5, AppElsewhere

(* The record of the server changes in its process or in its reader.       *)
LEMMA AppChanges ==
  ASSUME AppInv, NEW s \in Servers, NEW r \in Server, srv' = [srv EXCEPT ![s] = r],
         r.pending = srv[s].pending, r.turns = srv[s].turns, r.started = srv[s].started,
         r.next = srv[s].next,
         r.proc = srv[s].proc \/ r.proc = "dead" \/ (r.proc = "deaf" /\ srv[s].proc = "up"),
         UNCHANGED <<call, thread, locks, wire, live>>,
         budget' \in [deaths : 0 .. MaxDeaths, errors : 0 .. MaxErrors, cancels : 0 .. MaxCancels],
         fut' \in [Callers -> Future], turn' \in [Callers -> Future],
         Completes(fut, fut'), Completes(turn, turn')
  PROVE  AppInv'
<1>1. UNCHANGED <<pc, then, mine, single, slock, startq, thread, wire, live>> /\ TypeOK
  BY DEF call, locks, AppInv
<1>2. srv' \in [Servers -> Server] /\ srv'[s] = r /\ \A x \in Servers \ {s} : srv'[x] = srv[x]
  BY <1>1 DEF TypeOK
<1>3. TypeOK'  BY <1>1, <1>2 DEF TypeOK, Servers
<1>4. \A x \in Servers :
        /\ srv'[x].pending = srv[x].pending /\ srv'[x].turns = srv[x].turns
        /\ srv'[x].started = srv[x].started /\ srv'[x].next = srv[x].next
        /\ wire'[x] \subseteq wire[x] /\ (Alive(x)' => Alive(x))
        /\ srv'[x].proc \in {"up", "deaf"} => srv[x].proc \in {"up", "deaf"}
  BY <1>1, <1>2 DEF Alive
<1> QED  BY <1>1, <1>3, <1>4, AppElsewhere

LEMMA AppProcess ==
  ASSUME AppInv, NEW s \in Servers, Dies(s) \/ Reaped(s) \/ ReaderEnds(s)
  PROVE  AppInv'
<1>1. TypeOK /\ srv[s] \in Server /\ srv \in [Servers -> Server]
      /\ Completes(fut, fut) /\ Completes(turn, turn)
      /\ fut \in [Callers -> Future] /\ turn \in [Callers -> Future]
      /\ budget \in [deaths : 0 .. MaxDeaths, errors : 0 .. MaxErrors, cancels : 0 .. MaxCancels]
  BY DEF AppInv, TypeOK, Completes
<1>2. CASE Dies(s)
  <2>1. PICK r : r = [srv[s] EXCEPT !.proc = "deaf"]  OBVIOUS
  <2>2. /\ r \in Server /\ r.pending = srv[s].pending /\ r.turns = srv[s].turns
        /\ r.started = srv[s].started /\ r.next = srv[s].next /\ r.proc = "deaf"
    BY <1>1, <2>1 DEF Server
  <2>3. srv' = [srv EXCEPT ![s] = r] /\ srv[s].proc = "up"  BY <1>1, <1>2, <2>1 DEF Dies
  <2>4. budget' \in [deaths : 0 .. MaxDeaths, errors : 0 .. MaxErrors, cancels : 0 .. MaxCancels]
    <3>1. budget.deaths \in 0 .. MaxDeaths /\ budget.deaths - 1 \in 0 .. MaxDeaths
      BY <1>1, <1>2, AppServerAssumption DEF Dies
    <3> QED  BY <1>1, <1>2, <3>1 DEF Dies
  <2>5. UNCHANGED <<call, fut, turn, thread, locks, wire, live>>  BY <1>2 DEF Dies, wait
  <2> QED  BY <1>1, <2>2, <2>3, <2>4, <2>5, AppChanges
<1>3. CASE Reaped(s)
  <2>1. PICK r : r = [srv[s] EXCEPT !.proc = "dead"]  OBVIOUS
  <2>2. /\ r \in Server /\ r.pending = srv[s].pending /\ r.turns = srv[s].turns
        /\ r.started = srv[s].started /\ r.next = srv[s].next /\ r.proc = "dead"
    BY <1>1, <2>1 DEF Server
  <2>3. srv' = [srv EXCEPT ![s] = r]  BY <1>1, <1>3, <2>1 DEF Reaped
  <2>4. UNCHANGED <<call, fut, turn, thread, locks, wire, live, budget>>  BY <1>3 DEF Reaped, wait
  <2> QED  BY <1>1, <2>2, <2>3, <2>4, AppChanges
<1>4. CASE ReaderEnds(s)
  <2>1. PICK r : r = [srv[s] EXCEPT !.reader = "no"]  OBVIOUS
  <2>2. /\ r \in Server /\ r.pending = srv[s].pending /\ r.turns = srv[s].turns
        /\ r.started = srv[s].started /\ r.next = srv[s].next /\ r.proc = srv[s].proc
    BY <1>1, <2>1 DEF Server
  <2>3. srv' = [srv EXCEPT ![s] = r]  BY <1>1, <1>4, <2>1 DEF ReaderEnds
  <2>4. UNCHANGED <<call, thread, locks, wire, live, budget>>  BY <1>4 DEF ReaderEnds
  <2>5. /\ fut' \in [Callers -> Future] /\ Completes(fut, fut')
        /\ turn' \in [Callers -> Future] /\ Completes(turn, turn')
    BY <1>1, <1>4, FailedCompletes DEF ReaderEnds, FailAll
  <2> QED  BY <1>1, <2>2, <2>3, <2>4, <2>5, AppChanges
<1> QED  BY <1>2, <1>3, <1>4

-----------------------------------------------------------------------------
(* The invariant.                                                          *)

LEMMA AppStep == AppInv /\ [Next]_vars => AppInv'
<1> SUFFICES ASSUME AppInv, [Next]_vars PROVE AppInv'  OBVIOUS
<1>1. CASE UNCHANGED vars
  <2>1. /\ UNCHANGED <<pc, then, mine, fut, thread, turn, single, slock, startq>>
        /\ UNCHANGED <<srv, wire, live, budget>>
        /\ UNCHANGED <<call, locks, wait, server>>
    BY <1>1 DEF vars, call, wait, locks, server
  <2>2. TypeOK'  BY <2>1 DEF AppInv, TypeOK, Servers
  <2>3. Completes(fut, fut') /\ Completes(turn, turn') /\ \A s \in Servers : Alive(s)' => Alive(s)
    BY <2>1 DEF Completes, Alive
  <2> QED  BY ONLY AppInv, <2>1, <2>2, <2>3, AppElsewhere
<1>2. ASSUME NEW c \in Callers, Ask(c) \/ Step(c) \/ Cancelled(c) PROVE AppInv'
  <2>1. CASE Ask(c)  BY <2>1, AppAsk
  <2>2. CASE FirstServer(c)  BY <2>2, AppFirstServer
  <2>3. CASE SameServer(c)  BY <2>3, AppSameServer
  <2>4. CASE OtherServer(c)  BY <2>4, AppOtherServer
  <2>5. CASE CloseBegins(c) \/ Respawn(c) \/ InitFails(c)  BY <2>5, AppTearDowns
  <2>6. CASE ReaderStops(c)  BY <2>6, AppReaderStops
  <2>7. CASE ServerExits(c)  BY <2>7, AppExitClose, AppExitOthers
  <2>8. CASE AlreadyStarted(c)  BY <2>8, AppAlreadyStarted
  <2>9. CASE Boot(c)  BY <2>9, AppBoot
  <2>10. CASE SpawnFails(c)  BY <2>10, AppSpawnFails
  <2>11. CASE Initialized(c)  BY <2>11, AppInitialized
  <2>12. CASE StartTurn(c)  BY <2>12, AppStartTurn
  <2>13. CASE Acked(c)  BY <2>13, AppAcked
  <2>14. CASE Answered(c)  BY <2>14, AppAnswered
  <2>15. CASE GivesUp(c)  BY <2>15, AppGivesUp
  <2>16. CASE Executes(c)  BY <2>16, AppExecutes
  <2>17. CASE Cancelled(c)  BY <2>17, AppCancelled
  <2> QED
    BY <1>2, <2>1, <2>2, <2>3, <2>4, <2>5, <2>6, <2>7, <2>8, <2>9, <2>10, <2>11, <2>12, <2>13,
       <2>14, <2>15, <2>16, <2>17 DEF Step
<1>3. ASSUME NEW s \in Servers, Process(s) PROVE AppInv'
  <2>1. CASE \E q \in wire[s], ok \in BOOLEAN : Response(s, q, ok)  BY <2>1, AppResponse
  <2>2. CASE \E t \in Callers : Completed(s, t)  BY <2>2, AppCompleted
  <2>3. CASE ErrorSent(s)  BY <2>3, AppErrorSent
  <2>4. CASE Dies(s) \/ Reaped(s) \/ ReaderEnds(s)  BY <2>4, AppProcess
  <2> QED  BY <1>3, <2>1, <2>2, <2>3, <2>4 DEF Process
<1> QED  BY <1>1, <1>2, <1>3 DEF Next

LEMMA AppAlways == Spec => []AppInv
<1>1. Init => AppInv  BY AppInit
<1>2. AppInv /\ [Next]_vars => AppInv'  BY AppStep
<1> QED  BY <1>1, <1>2, PTL DEF Spec

(* Every state is well-typed: ids and objects never run out, because a     *)
(* caller makes one object and three requests at most (_request,           *)
(* get_singleton).                                                         *)
THEOREM TypeCorrect == Spec => []TypeOK
<1>1. AppInv => TypeOK  BY DEF AppInv
<1> QED  BY <1>1, AppAlways, PTL

(* There is one app-server process per bridge: no second one runs that     *)
(* nobody has told to end, because only the singleton object has such a    *)
(* process and whoever replaces it has closed it under both locks          *)
(* (get_singleton, ensure_started).                                        *)
THEOREM ServerIsSingle == Spec => []OneProcess
<1>1. AppInv => OneProcess
  <2> SUFFICES ASSUME AppInv PROVE OneProcess  OBVIOUS
  <2>1. {s \in Servers : srv[s].proc \in {"up", "deaf"}} \subseteq {single}
    BY DEF AppInv, OnlySingle
  <2>2. IsFiniteSet({single}) /\ Cardinality({single}) = 1  BY FS_Singleton
  <2>3. Cardinality({s \in Servers : srv[s].proc \in {"up", "deaf"}}) <= Cardinality({single})
    BY <2>1, <2>2, FS_Subset
  <2> QED  BY <2>2, <2>3 DEF OneProcess
<1> QED  BY <1>1, AppAlways, PTL

(* Whoever waits for a request or a turn is registered with the server of  *)
(* its own, so that no waiter is left to its timeout by a tear-down, a     *)
(* respawn or the end of the read loop (_teardown_locked, _spawn).         *)
THEOREM WaitersStayKnown == Spec => []WaitersAreKnown
<1>1. AppInv => WaitersAreKnown  BY DEF AppInv, Waits, WaitsOf, WaitersAreKnown
<1> QED  BY <1>1, AppAlways, PTL

-----------------------------------------------------------------------------
(* The client implements the protocol of Calls.                            *)

Trying == {"single", "closing", "starting", "reader", "exit", "boot", "init", "thread", "ack", "turn"}

(* How the place of caller c may change in a step.                         *)
Goes(c) ==
  /\ \A d \in Callers \ {c} : pc'[d] = pc[d]
  /\ UNCHANGED thread
  /\ \/ pc[c] \in Trying \cup {"idle"} /\ pc'[c] \in Trying
     \/ pc[c] \in Trying /\ pc'[c] = "exec"
     \/ pc[c] = "turn" /\ pc'[c] = "answered"
     \/ pc[c] \in Trying \cup {"exec"} /\ pc'[c] = "done"

LEMMA CallerGoes ==
  ASSUME AppInv, NEW c \in Callers, Ask(c) \/ Step(c) \/ Cancelled(c)
  PROVE  Goes(c)
<1>1. TypeOK  BY DEF AppInv
<1>2. ASSUME Ask(c) \/ FirstServer(c) \/ SameServer(c) \/ OtherServer(c) \/ CloseBegins(c)
             \/ ReaderStops(c) \/ AlreadyStarted(c) \/ Respawn(c) \/ Boot(c) \/ SpawnFails(c)
             \/ InitFails(c) \/ StartTurn(c) \/ Acked(c) \/ Answered(c) \/ GivesUp(c) \/ Executes(c)
      PROVE  Goes(c)
  <2>1. UNCHANGED thread
    BY <1>2 DEF Ask, FirstServer, SameServer, OtherServer, CloseBegins, ReaderStops, AlreadyStarted,
                Respawn, Boot, SpawnFails, InitFails, StartTurn, Acked, Answered, GivesUp, Executes,
                wait
  <2>2. PICK from, to :
          /\ At(c, from, to)
          /\ \/ from \in Trying \cup {"idle"} /\ to \in Trying
             \/ from \in Trying /\ to = "exec"
             \/ from = "turn" /\ to = "answered"
             \/ from = "exec" /\ to = "done"
    BY <1>2 DEF Ask, FirstServer, SameServer, OtherServer, CloseBegins, ReaderStops, AlreadyStarted,
                Respawn, Boot, SpawnFails, InitFails, StartTurn, Acked, Answered, GivesUp, Executes,
                Trying
  <2> QED  BY <1>1, <2>1, <2>2, AtMoves DEF Goes
<1>3. ASSUME ServerExits(c) \/ Initialized(c) \/ Cancelled(c) PROVE Goes(c)
  <2>1. PICK to : /\ pc' = [pc EXCEPT ![c] = to] /\ UNCHANGED thread
                  /\ \/ pc[c] \in {"exit", "init"} /\ to \in {"starting", "boot", "thread", "exec"}
                     \/ pc[c] \notin {"idle", "done", "answered"} /\ to = "done"
    BY <1>3 DEF ServerExits, Initialized, Cancelled, wait
  <2>2. pc'[c] = to /\ \A d \in Callers \ {c} : pc'[d] = pc[d]  BY <1>1, <2>1 DEF TypeOK
  <2>3. pc[c] \notin {"idle", "done", "answered"} => pc[c] \in Trying \cup {"exec"}
    BY <1>1 DEF TypeOK, Trying
  <2> QED  BY <2>1, <2>2, <2>3 DEF Goes, Trying
<1> QED  BY <1>2, <1>3 DEF Step

LEMMA GoesMaps ==
  ASSUME AppInv, NEW c \in Callers, Goes(c)
  PROVE  [Abstract!Next]_(Abstract!cvars)
<1>1. PICK st, rp : /\ st = [d \in Callers |-> Status(d)]
                    /\ rp = [d \in Callers |-> IF pc[d] = "answered" THEN thread[d] ELSE {}]
  OBVIOUS
<1>2. PICK su, rq : /\ su = [d \in Callers |-> Status(d)']
                    /\ rq = [d \in Callers |-> IF pc'[d] = "answered" THEN thread'[d] ELSE {}]
  OBVIOUS
<1>3. \A d \in Callers \ {c} : su[d] = st[d] /\ rq[d] = rp[d]
  BY <1>1, <1>2 DEF Goes, Status
<1>4. /\ DOMAIN st = Callers /\ st \in [Callers -> {st[d] : d \in Callers}]
      /\ DOMAIN su = Callers /\ su \in [Callers -> {su[d] : d \in Callers}]
      /\ DOMAIN rp = Callers /\ rp \in [Callers -> {rp[d] : d \in Callers}]
      /\ DOMAIN rq = Callers /\ rq \in [Callers -> {rq[d] : d \in Callers}]
  BY <1>1, <1>2
<1>5. su = [st EXCEPT ![c] = su[c]] /\ rq = [rp EXCEPT ![c] = rq[c]]  BY <1>3, <1>4
<1>6. \/ st[c] = "trying" /\ su[c] = "trying" /\ rp[c] = rq[c]
      \/ st[c] = "idle" /\ su[c] = "trying" /\ rp[c] = rq[c]
      \/ st[c] = "trying" /\ su[c] = "exec" /\ rp[c] = rq[c]
      \/ st[c] = "trying" /\ su[c] = "done" /\ rq[c] = {c}
      \/ st[c] \in {"trying", "exec"} /\ su[c] = "done" /\ rp[c] = rq[c]
  BY <1>1, <1>2 DEF Goes, Trying, Status, AppInv, Places, PlacesOf
<1>7. \/ su = st /\ rq = rp
      \/ st[c] = "idle" /\ su = [st EXCEPT ![c] = "trying"] /\ rq = rp
      \/ st[c] = "trying" /\ su = [st EXCEPT ![c] = "exec"] /\ rq = rp
      \/ st[c] = "trying" /\ su = [st EXCEPT ![c] = "done"] /\ rq = [rp EXCEPT ![c] = {c}]
      \/ st[c] \in {"trying", "exec"} /\ su = [st EXCEPT ![c] = "done"] /\ rq = rp
  BY <1>4, <1>5, <1>6
<1> QED
  BY <1>1, <1>2, <1>7 DEF Abstract!Next, Abstract!cvars, Abstract!Try, Abstract!Answer,
     Abstract!FallBack, Abstract!Execute, Abstract!Cancel, Abstract!Move, Abstract!Begun

(* A step of the process moves nobody, and gives a thread to a caller that *)
(* asked for one.                                                          *)
LEMMA ProcessMaps ==
  ASSUME AppInv, NEW s \in Servers, Process(s)
  PROVE  UNCHANGED Abstract!cvars
<1>1. UNCHANGED pc /\ \A d \in Callers : pc[d] = "answered" => thread'[d] = thread[d]
  BY DEF Process, Response, Completed, ErrorSent, Dies, Reaped, ReaderEnds, call, wait
<1>2. [d \in Callers |-> Status(d)'] = [d \in Callers |-> Status(d)]  BY <1>1 DEF Status
<1>3. [d \in Callers |-> IF pc'[d] = "answered" THEN thread'[d] ELSE {}] =
      [d \in Callers |-> IF pc[d] = "answered" THEN thread[d] ELSE {}]
  BY <1>1
<1> QED  BY <1>2, <1>3 DEF Abstract!cvars

(* The client implements Calls, but for its progress: a task is answered   *)
(* by its own turn or given up and executed afresh, once, whatever is lost *)
(* late or torn down on the way (run_task, run_turn, _request).            *)
THEOREM AnswersStayOwn == Spec => AnswersAreOwn
<1>1. Init => Abstract!Init
  <2> SUFFICES ASSUME Init PROVE Abstract!Init  OBVIOUS
  <2>1. \A c \in Callers : pc[c] = "idle"  BY DEF Init
  <2> QED  BY <2>1 DEF Abstract!Init, Status
<1>2. AppInv /\ [Next]_vars => [Abstract!Next]_(Abstract!cvars)
  <2> SUFFICES ASSUME AppInv, [Next]_vars PROVE [Abstract!Next]_(Abstract!cvars)  OBVIOUS
  <2>1. CASE UNCHANGED vars
    BY <2>1 DEF vars, call, wait, Abstract!cvars, Status
  <2>2. ASSUME NEW c \in Callers, Ask(c) \/ Step(c) \/ Cancelled(c)
        PROVE  [Abstract!Next]_(Abstract!cvars)
    BY <2>2, CallerGoes, GoesMaps
  <2>3. ASSUME NEW s \in Servers, Process(s) PROVE [Abstract!Next]_(Abstract!cvars)
    BY <2>3, ProcessMaps
  <2> QED  BY <2>1, <2>2, <2>3 DEF Next
<1> QED  BY <1>1, <1>2, AppAlways, PTL DEF Spec, AnswersAreOwn, Abstract!Protocol
=============================================================================
