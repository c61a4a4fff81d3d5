------------------------ MODULE SqlBackedStoreProofs ------------------------
(***************************************************************************)
(* What the tables of one server promise whose saves do not overlap.       *)
(***************************************************************************)
EXTENDS SqlBackedStore, FiniteSetTheorems, SequenceTheorems, TLAPS

Server == CHOOSE i \in Instances : TRUE
Slot == CHOOSE s \in Slots : TRUE

\* One process on the database, whose save is over before the next begins.
\* (On SQLite it always is: Free.)
OneSaveAtATime == Instances = {Server} /\ Slots = {Slot}

mem == memory[Server]
work == save[Server][Slot]

Lists == {list \in Seq(Nat) : Len(list) <= MAX_HISTORY}
TaskStates == [offset : Nat, history : Lists]
TaskRows == [task : Tasks, offset : Nat]
HistoryRows == [task : Tasks, seq : Nat, offset : Nat]
Row(t, list, n) == [task |-> t, seq |-> n, offset |-> list[n]]
Part(R, t) == {r \in R : r.task = t}
First(t, list, k) == {Row(t, list, n) : n \in 1 .. k}
Rest(t, list, k) == {Row(t, list, n) : n \in k + 1 .. Len(list)}
RowsOfTasks == {RowOf(Server, t) : t \in DOMAIN mem}

Stages == {"delete tasks", "insert tasks", "checkpoints", "insert checkpoints"}
Processes == [pc : Stages,
              all : SUBSET Tasks, todo : SUBSET Tasks, rows : SUBSET HistoryRows,
              awaited : BOOLEAN]

Typed ==
  /\ transactional \in BOOLEAN
  /\ phase \in [Instances -> {"up", "closing", "stopped", "crashed"}]
  /\ pending \in [Instances -> BOOLEAN] /\ failed \in [Instances -> BOOLEAN]
  /\ \E D \in SUBSET Tasks : memory \in [Instances -> [D -> TaskStates]]
  /\ save \in [Instances -> [Slots -> {NoSave} \cup Processes]]
  /\ phase[Server] \in {"stopped", "crashed"} => work.pc = "idle"
  /\ work.pc # "idle" => work.todo \subseteq DOMAIN mem
  /\ tasks \subseteq TaskRows /\ \A q, r \in tasks : q.task = r.task => q = r
  /\ checkpoints \subseteq HistoryRows

\* The rows of a task are its list, or, while Postgres inserts them, the
\* beginning of it; the rest is still to be inserted.
Listed ==
  \A t \in Tasks : \E list \in Lists : \E k \in 0 .. Len(list) :
    /\ Part(checkpoints, t) = First(t, list, k)
    /\ IF work.pc = "insert checkpoints" THEN Part(work.rows, t) = Rest(t, list, k) ELSE k = Len(list)

\* On SQLite: while the server runs, nothing in the tables is ahead of the
\* memory, and between the two transactions the first table is the memory's.
Behind ==
  transactional /\ phase[Server] \in {"up", "closing"} =>
    /\ Stored \subseteq DOMAIN mem
    /\ \A r \in checkpoints : r.task \in DOMAIN mem /\ r.offset <= mem[r.task].offset
    /\ \A t \in DOMAIN mem : \A n \in 1 .. Len(mem[t].history) : mem[t].history[n] <= mem[t].offset
    /\ work.pc # "idle" => work.pc = "checkpoints" /\ tasks = RowsOfTasks

\* While no change is noted, what the save in progress has written and what
\* it is going to write is the memory.
Written ==
  phase[Server] = "up" /\ ~pending[Server] =>
    /\ work.pc = "delete tasks" => work.todo = DOMAIN mem
    /\ work.pc = "insert tasks" =>
         work.todo \subseteq DOMAIN mem /\ tasks = {RowOf(Server, t) : t \in DOMAIN mem \ work.todo}
    /\ work.pc \in {"checkpoints", "insert checkpoints"} => tasks = RowsOfTasks
    /\ work.pc = "insert checkpoints" => checkpoints \cup work.rows = RowsOfHistory(Server)
    /\ work.pc = "idle" /\ ~failed[Server] => mem = Loaded

Inv == Typed /\ Listed /\ CheckpointsNotAheadOfTasks /\ Behind /\ Written

-----------------------------------------------------------------------------
\* ----- one server, one save -----------------------------------------------
LEMMA OnlyServer ==
  ASSUME OneSaveAtATime
  PROVE  /\ Server \in Instances /\ Slot \in Slots
         /\ \A i \in Instances : i = Server
         /\ \A s \in Slots : s = Slot
         /\ Running(Server, Slot) <=> work.pc # "idle"
BY DEF OneSaveAtATime, Running, work

\* The types of the server's memory.
LEMMA MemTyped ==
  ASSUME OneSaveAtATime, Typed
  PROVE  /\ DOMAIN mem \subseteq Tasks
         /\ mem \in [DOMAIN mem -> TaskStates]
         /\ \A t \in DOMAIN mem : /\ mem[t] \in TaskStates /\ mem[t].offset \in Nat
                                  /\ mem[t].history \in Seq(Nat) /\ Len(mem[t].history) <= MAX_HISTORY
                                  /\ mem[t] = [offset |-> mem[t].offset, history |-> mem[t].history]
         /\ work \in {NoSave} \cup Processes
<1>1. Server \in Instances /\ Slot \in Slots
  BY OnlyServer
<1>2. PICK D \in SUBSET Tasks : mem \in [D -> TaskStates]
  BY <1>1 DEF Typed, mem
<1>3. DOMAIN mem = D
  BY <1>2
<1>4. \A t \in D : /\ mem[t] \in TaskStates /\ mem[t].offset \in Nat
                   /\ mem[t].history \in Seq(Nat) /\ Len(mem[t].history) <= MAX_HISTORY
                   /\ mem[t] = [offset |-> mem[t].offset, history |-> mem[t].history]
  BY <1>2 DEF TaskStates, Lists
<1>5. work \in {NoSave} \cup Processes
  BY <1>1 DEF Typed, work
<1>6. QED
  BY <1>2, <1>3, <1>4, <1>5

\* An assignment to the memory of the only server.
LEMMA SetMemory ==
  ASSUME OneSaveAtATime, Typed, NEW D \in SUBSET Tasks, NEW m \in [D -> TaskStates],
         memory' = [memory EXCEPT ![Server] = m]
  PROVE  mem' = m /\ \E E \in SUBSET Tasks : memory' \in [Instances -> [E -> TaskStates]]
<1>1. Server \in Instances /\ \A i \in Instances : i = Server
  BY OnlyServer
<1>2. memory' = [i \in Instances |-> m]
  BY <1>1 DEF Typed
<1>3. QED
  BY <1>1, <1>2 DEF mem

\* An assignment to its only save.
LEMMA SetSave ==
  ASSUME OneSaveAtATime, Typed, NEW r \in {NoSave} \cup Processes,
         save' = [save EXCEPT ![Server][Slot] = r]
  PROVE  work' = r /\ save' \in [Instances -> [Slots -> {NoSave} \cup Processes]]
<1>1. Server \in Instances /\ Slot \in Slots
  BY OnlyServer
<1>2. save' = [save EXCEPT ![Server] = [save[Server] EXCEPT ![Slot] = r]]
  OBVIOUS
<1>3. save[Server] \in [Slots -> {NoSave} \cup Processes]
  BY <1>1 DEF Typed
<1> DEFINE f == [save[Server] EXCEPT ![Slot] = r]
<1>4. f \in [Slots -> {NoSave} \cup Processes] /\ f[Slot] = r
  BY <1>1, <1>3
<1> HIDE DEF f
<1>5. save' = [save EXCEPT ![Server] = f]
  BY <1>2 DEF f
<1>6. save' \in [Instances -> [Slots -> {NoSave} \cup Processes]] /\ save'[Server] = f
  BY <1>1, <1>4, <1>5 DEF Typed
<1>7. QED
  BY <1>4, <1>6 DEF work

\* A history is a sequence inside the limit.
LEMMA OfLists ==
  ASSUME NEW list \in Lists
  PROVE  /\ list \in Seq(Nat) /\ Len(list) \in Nat /\ Len(list) <= MAX_HISTORY
         /\ Len(list) \in 0 .. Len(list) /\ 0 \in 0 .. Len(list)
<1>1. list \in Seq(Nat) /\ Len(list) \in Nat /\ Len(list) <= MAX_HISTORY
  BY DEF Lists
<1>2. QED
  BY <1>1

\* The cut keeps what it keeps, and a short list whole.
LEMMA ListKept ==
  ASSUME NEW list \in Seq(Nat)
  PROVE  /\ KeepLatest(list) \in Lists
         /\ Len(list) <= MAX_HISTORY => KeepLatest(list) = list
         /\ \A i \in 1 .. Len(KeepLatest(list)) : \E j \in 1 .. Len(list) : KeepLatest(list)[i] = list[j]
<1>1. Len(list) \in Nat /\ MAX_HISTORY \in Nat \ {0}
  BY BoundsAssumption
<1>2. CASE Len(list) <= MAX_HISTORY
  BY <1>1, <1>2 DEF KeepLatest, Lists
<1>3. CASE ~(Len(list) <= MAX_HISTORY)
  <2> DEFINE first == Len(list) - MAX_HISTORY + 1
             cut == SubSeq(list, first, Len(list))
  <2>1. first \in 1 .. Len(list) /\ Len(list) - first + 1 = MAX_HISTORY
    BY <1>1, <1>3
  <2> HIDE DEF first
  <2>2. /\ cut \in Seq(Nat) /\ Len(cut) = MAX_HISTORY
        /\ \A i \in 1 .. MAX_HISTORY : cut[i] = list[first + i - 1]
    BY <1>1, <2>1
  <2>3. \A i \in 1 .. MAX_HISTORY : first + i - 1 \in 1 .. Len(list)
    BY <1>1, <2>1
  <2>4. KeepLatest(list) = cut
    BY <1>3 DEF KeepLatest, first
  <2> HIDE DEF cut
  <2>5. QED
    BY <1>1, <1>3, <2>2, <2>3, <2>4, SMTT(30) DEF Lists
<1>4. QED
  BY <1>2, <1>3

-----------------------------------------------------------------------------
\* ----- what a new process reads -------------------------------------------

\* The first rows of a list are as many as they should be.
LEMMA FirstRows ==
  ASSUME NEW t, NEW list \in Seq(Nat), NEW k \in 0 .. Len(list)
  PROVE  IsFiniteSet(First(t, list, k)) /\ Cardinality(First(t, list, k)) = k
<1> DEFINE R == First(t, list, k)
           f == [n \in 1 .. k |-> Row(t, list, n)]
<1>1. k \in Nat
  OBVIOUS
<1>2. IsFiniteSet(1 .. k) /\ Cardinality(1 .. k) = k
  <2>1. \A n \in Nat : IsFiniteSet(1 .. n) /\ Cardinality(1 .. n) = n
    BY FS_Interval
  <2>2. QED
    BY <1>1, <2>1
<1>3. f \in Surjection(1 .. k, R)
  BY DEF Surjection, First
<1>4. f \in Injection(1 .. k, R)
  <2>1. \A m, n \in 1 .. k : Row(t, list, m) = Row(t, list, n) => m = n
    BY DEF Row
  <2>2. f \in [1 .. k -> R]
    BY DEF First
  <2>3. QED
    BY <2>1, <2>2 DEF Injection, IsInjective
<1> HIDE DEF R, f
<1>5. IsFiniteSet(R) /\ Cardinality(R) = Cardinality(1 .. k)
  BY <1>2, <1>3, <1>4, FS_Surjection
<1>6. QED
  BY <1>2, <1>5 DEF R

\* The rows of a list are read back as the list.
LEMMA RowsLoaded ==
  ASSUME NEW t, NEW list \in Lists, Part(checkpoints, t) = First(t, list, Len(list))
  PROVE  LoadedHistory(t) = list
<1> DEFINE R == {r \in checkpoints : r.task = t}
           Place(r) == Cardinality({q \in R : q.seq <= r.seq})
<1>1. list \in Seq(Nat) /\ Len(list) \in Nat /\ Len(list) <= MAX_HISTORY
  BY DEF Lists
<1>2. R = First(t, list, Len(list))
  BY DEF Part
<1>3. Cardinality(R) = Len(list)
  <2>1. Len(list) \in 0 .. Len(list)
    BY <1>1
  <2> HIDE DEF R
  <2>2. QED
    BY <1>1, <1>2, <2>1, FirstRows
<1>4. ASSUME NEW n \in 1 .. Len(list) PROVE Place(Row(t, list, n)) = n
  <2>1. {q \in R : q.seq <= n} = First(t, list, n)
    <3>1. \A m \in 1 .. Len(list) : Row(t, list, m).seq = m
      BY DEF Row
    <3> HIDE DEF R
    <3>2. \A m \in 1 .. Len(list) : m \in 1 .. n <=> m <= n
      BY <1>1
    <3>3. \A m \in 1 .. n : m \in 1 .. Len(list)
      BY <1>1
    <3>4. {q \in R : q.seq <= n} \subseteq First(t, list, n)
      BY <1>2, <3>1, <3>2 DEF First
    <3>5. First(t, list, n) \subseteq {q \in R : q.seq <= n}
      <4>1. \A m \in 1 .. n : m <= n /\ Row(t, list, m) \in R /\ Row(t, list, m).seq = m
        BY <1>2, <3>1, <3>2, <3>3 DEF First
      <4>2. QED
        BY <4>1 DEF First
    <3>6. QED
      BY <3>4, <3>5
  <2>2. n \in 0 .. Len(list) /\ Row(t, list, n).seq = n
    BY <1>1 DEF Row
  <2>3. Place(Row(t, list, n)) = Cardinality(First(t, list, n))
    BY <2>1, <2>2
  <2> HIDE DEF Place
  <2>4. Cardinality(First(t, list, n)) = n
    BY <1>1, <2>2, FirstRows
  <2>5. QED
    BY <2>3, <2>4
<1> HIDE DEF R, Place
<1>5. \A n \in 1 .. Len(list) : (CHOOSE r \in R : Place(r) = n) = Row(t, list, n)
  <2>1. SUFFICES ASSUME NEW n \in 1 .. Len(list) PROVE (CHOOSE r \in R : Place(r) = n) = Row(t, list, n)
    OBVIOUS
  <2>2. Row(t, list, n) \in R /\ Place(Row(t, list, n)) = n
    BY <1>2, <1>4 DEF First
  <2>3. \A r \in R : Place(r) = n => r = Row(t, list, n)
    BY <1>2, <1>4 DEF First
  <2>4. QED
    BY <2>2, <2>3
<1>6. \A n \in 1 .. Len(list) : Row(t, list, n).offset = list[n]
  BY DEF Row
<1>7. LoadedHistory(t) = KeepLatest([n \in 1 .. Cardinality(R) |-> (CHOOSE r \in R : Place(r) = n).offset])
  BY DEF LoadedHistory, R, Place
<1>8. [n \in 1 .. Cardinality(R) |-> (CHOOSE r \in R : Place(r) = n).offset] = [n \in 1 .. Len(list) |-> list[n]]
  BY <1>3, <1>5, <1>6
<1>9. [n \in 1 .. Len(list) |-> list[n]] = list
  BY <1>1
<1>10. LoadedHistory(t) = KeepLatest(list)
  BY <1>7, <1>8, <1>9
<1>11. QED
  BY <1>1, <1>10, ListKept
-----------------------------------------------------------------------------
\* ----- what a save writes -------------------------------------------------

\* The rows of table tasks a save makes: one of each task of the memory.
LEMMA TasksWritten ==
  ASSUME OneSaveAtATime, Typed
  PROVE  /\ RowsOfTasks \subseteq TaskRows
         /\ \A q, r \in RowsOfTasks : q.task = r.task => q = r
         /\ \A t \in DOMAIN mem : \E r \in RowsOfTasks : r.task = t /\ r.offset = mem[t].offset
         /\ \A r \in RowsOfTasks : r.task \in DOMAIN mem /\ r.offset = mem[r.task].offset
<1>1. \A t \in DOMAIN mem : t \in Tasks /\ mem[t].offset \in Nat
  BY MemTyped
<1>2. \A t \in DOMAIN mem : /\ RowOf(Server, t) = [task |-> t, offset |-> mem[t].offset]
                            /\ RowOf(Server, t) \in TaskRows
                            /\ RowOf(Server, t).task = t /\ RowOf(Server, t).offset = mem[t].offset
  BY <1>1 DEF RowOf, mem, TaskRows
<1>3. \A r \in RowsOfTasks : \E t \in DOMAIN mem : r = RowOf(Server, t)
  BY DEF RowsOfTasks
<1>4. \A t \in DOMAIN mem : RowOf(Server, t) \in RowsOfTasks
  BY DEF RowsOfTasks
<1>5. QED
  BY <1>2, <1>3, <1>4

\* The rows of table checkpoints a save makes are the lists of the memory.
LEMMA HistoryWritten ==
  ASSUME OneSaveAtATime, Typed
  PROVE  /\ \A r \in RowsOfHistory(Server) :
              /\ r.task \in DOMAIN mem /\ r.seq \in 1 .. Len(mem[r.task].history)
              /\ r = Row(r.task, mem[r.task].history, r.seq)
              /\ r \in HistoryRows
         /\ \A t \in DOMAIN mem :
              Part(RowsOfHistory(Server), t) = First(t, mem[t].history, Len(mem[t].history))
         /\ \A t \in Tasks : \E list \in Lists :
              Part(RowsOfHistory(Server), t) = First(t, list, Len(list))
<1>1. \A t \in DOMAIN mem : /\ t \in Tasks /\ mem[t].history \in Seq(Nat)
                            /\ mem[t].history \in Lists
                            /\ DOMAIN mem[t].history = 1 .. Len(mem[t].history)
  BY MemTyped DEF Lists
<1>2. \A r : r \in RowsOfHistory(Server) <=>
        \E t \in DOMAIN mem : \E n \in 1 .. Len(mem[t].history) : r = Row(t, mem[t].history, n)
  BY <1>1 DEF RowsOfHistory, mem, Row
<1>3. \A t, list, n : Row(t, list, n).task = t /\ Row(t, list, n).seq = n /\ Row(t, list, n).offset = list[n]
  BY DEF Row
<1>4. ASSUME NEW r \in RowsOfHistory(Server)
      PROVE  /\ r.task \in DOMAIN mem /\ r.seq \in 1 .. Len(mem[r.task].history)
             /\ r = Row(r.task, mem[r.task].history, r.seq)
             /\ r \in HistoryRows
  <2>1. PICK t \in DOMAIN mem : \E n \in 1 .. Len(mem[t].history) : r = Row(t, mem[t].history, n)
    BY <1>2
  <2>2. PICK n \in 1 .. Len(mem[t].history) : r = Row(t, mem[t].history, n)
    BY <2>1
  <2>3. r.task = t /\ r.seq = n
    BY <1>3, <2>2
  <2>4. Len(mem[t].history) \in Nat /\ mem[t].history \in Seq(Nat) /\ t \in Tasks
    BY <1>1
  <2>5. mem[t].history[n] \in Nat /\ n \in Nat
    BY <2>4
  <2>6. r \in HistoryRows
    BY <2>2, <2>4, <2>5 DEF Row, HistoryRows
  <2>7. QED
    BY <2>2, <2>3, <2>6
<1>5. ASSUME NEW t \in DOMAIN mem
      PROVE  Part(RowsOfHistory(Server), t) = First(t, mem[t].history, Len(mem[t].history))
  <2>1. \A r : r \in Part(RowsOfHistory(Server), t) => r \in First(t, mem[t].history, Len(mem[t].history))
    BY <1>4 DEF Part, First
  <2>2. \A r : r \in First(t, mem[t].history, Len(mem[t].history)) => r \in Part(RowsOfHistory(Server), t)
    BY <1>2, <1>3 DEF Part, First
  <2>3. QED
    BY <2>1, <2>2
<1>6. ASSUME NEW t \in Tasks
      PROVE  \E list \in Lists : Part(RowsOfHistory(Server), t) = First(t, list, Len(list))
  <2>1. CASE t \in DOMAIN mem
    BY <1>1, <1>5, <2>1
  <2>2. CASE t \notin DOMAIN mem
    <3>1. <<>> \in Lists /\ Len(<<>>) = 0
      BY BoundsAssumption DEF Lists
    <3>2. Part(RowsOfHistory(Server), t) = {}
      BY <1>4, <2>2 DEF Part
    <3>3. First(t, <<>>, 0) = {}
      BY DEF First
    <3>4. QED
      BY <3>1, <3>2, <3>3
  <2>3. QED
    BY <2>1, <2>2
<1>7. QED
  BY <1>4, <1>5, <1>6

\* A task read back: its row's offset and the list of its checkpoints.
LEMMA TaskLoaded ==
  ASSUME Typed, NEW q \in tasks, NEW list \in Lists, Part(checkpoints, q.task) = First(q.task, list, Len(list))
  PROVE  LoadedTask(q.task) = [offset |-> q.offset, history |-> list]
<1>1. LoadedHistory(q.task) = list
  BY RowsLoaded
<1>2. (CHOOSE r \in tasks : r.task = q.task) = q
  <2>1. \A r \in tasks : r.task = q.task => r = q
    BY DEF Typed
  <2>2. QED
    BY <2>1
<1>3. QED
  BY <1>1, <1>2 DEF LoadedTask

\* Tables that hold the memory are read back as the memory.
LEMMA AllLoaded ==
  ASSUME OneSaveAtATime, Typed, tasks = RowsOfTasks, checkpoints = RowsOfHistory(Server)
  PROVE  Loaded = mem
<1>1. Stored = DOMAIN mem
  BY TasksWritten DEF Stored
<1>2. ASSUME NEW t \in DOMAIN mem PROVE LoadedTask(t) = mem[t]
  <2>1. PICK q \in tasks : q.task = t /\ q.offset = mem[t].offset
    BY TasksWritten
  <2>2. mem[t].history \in Lists /\ mem[t] = [offset |-> mem[t].offset, history |-> mem[t].history]
    BY MemTyped DEF Lists
  <2>3. Part(checkpoints, t) = First(t, mem[t].history, Len(mem[t].history))
    BY HistoryWritten
  <2>4. QED
    BY <2>1, <2>2, <2>3, TaskLoaded
<1>3. mem = [t \in DOMAIN mem |-> mem[t]]
  BY MemTyped
<1>4. QED
  BY <1>1, <1>2, <1>3 DEF Loaded
-----------------------------------------------------------------------------
\* ----- the lists in the table ---------------------------------------------

\* The table alone holds the beginning of a list of each task.
LEMMA ListsInTable ==
  ASSUME Listed, NEW t \in Tasks
  PROVE  \E list \in Lists : Part(checkpoints, t) = First(t, list, Len(list))
<1>0. PICK list \in Lists : \E k \in 0 .. Len(list) : Part(checkpoints, t) = First(t, list, k)
  BY DEF Listed
<1>1. PICK k \in 0 .. Len(list) : Part(checkpoints, t) = First(t, list, k)
  BY <1>0
<1> DEFINE start == [n \in 1 .. k |-> list[n]]
<1>2. list \in Seq(Nat) /\ Len(list) \in Nat /\ Len(list) <= MAX_HISTORY /\ MAX_HISTORY \in Nat
  BY BoundsAssumption DEF Lists
<1>3. k \in Nat /\ k <= Len(list) /\ \A n \in 1 .. k : n \in 1 .. Len(list)
  BY <1>2
<1>4. start \in Seq(Nat) /\ Len(start) = k
  <2>1. \A n \in 1 .. k : list[n] \in Nat
    BY <1>2, <1>3
  <2>2. QED
    BY <1>3, <2>1
<1>5. \A n \in 1 .. k : start[n] = list[n]
  OBVIOUS
<1> HIDE DEF start
<1>6. First(t, start, Len(start)) = First(t, list, k)
  <2>1. \A n \in 1 .. k : Row(t, start, n) = Row(t, list, n)
    BY <1>5 DEF Row
  <2>2. First(t, start, k) = First(t, list, k)
    BY <2>1 DEF First
  <2>3. QED
    BY <1>4, <2>2
<1>7. start \in Lists
  BY <1>2, <1>3, <1>4 DEF Lists
<1>8. QED
  BY <1>1, <1>6, <1>7

\* A table left alone by a step that ends, or does not begin, an insertion.
LEMMA TableKept ==
  ASSUME Listed, checkpoints' = checkpoints, work'.pc # "insert checkpoints"
  PROVE  Listed'
<1>1. \A list \in Lists : Len(list) \in 0 .. Len(list)
  BY OfLists
<1>2. \A t \in Tasks : \E list \in Lists : Part(checkpoints, t) = First(t, list, Len(list))
  BY ListsInTable
<1>3. \A t : Part(checkpoints, t)' = Part(checkpoints, t)
  BY DEF Part
<1>4. QED
  BY <1>1, <1>2, <1>3 DEF Listed

\* A table filled in one step.
LEMMA TableReplaced ==
  ASSUME OneSaveAtATime, Typed, checkpoints' = RowsOfHistory(Server), work'.pc # "insert checkpoints"
  PROVE  Listed'
<1>1. \A list \in Lists : Len(list) \in 0 .. Len(list)
  BY OfLists
<1>2. \A t \in Tasks : \E list \in Lists : Part(RowsOfHistory(Server), t) = First(t, list, Len(list))
  BY HistoryWritten
<1>3. \A t : Part(checkpoints, t)' = Part(RowsOfHistory(Server), t)
  BY DEF Part
<1>4. QED
  BY <1>1, <1>2, <1>3 DEF Listed

\* Before the first row is inserted all are left.
LEMMA NoRows ==
  ASSUME NEW t, NEW list
  PROVE  First(t, list, 0) = {} /\ Rest(t, list, 0) = First(t, list, Len(list))
<1>1. 0 + 1 = 1 /\ \A n : n \notin 1 .. 0
  OBVIOUS
<1>2. QED
  BY <1>1 DEF First, Rest

\* A table emptied, its rows about to be inserted.
LEMMA TableEmptied ==
  ASSUME OneSaveAtATime, Typed, checkpoints' = {},
         work'.pc = "insert checkpoints", work'.rows = RowsOfHistory(Server)
  PROVE  Listed'
<1>1. \A list \in Lists : 0 \in 0 .. Len(list)
  BY OfLists
<1>2. \A t \in Tasks : \E list \in Lists : Part(RowsOfHistory(Server), t) = First(t, list, Len(list))
  BY HistoryWritten
<1>3. \A t, list : First(t, list, 0) = {} /\ Rest(t, list, 0) = First(t, list, Len(list))
  BY NoRows
<1>4. \A t : Part(checkpoints, t)' = {} /\ Part(work.rows, t)' = Part(RowsOfHistory(Server), t)
  BY DEF Part
<1>5. QED
  BY <1>1, <1>2, <1>3, <1>4 DEF Listed

\* The row inserted next is the first that is left of its list.
LEMMA NextRow ==
  ASSUME NEW t, NEW list \in Seq(Nat), NEW k \in 0 .. Len(list), NEW r \in Rest(t, list, k),
         \A q \in Rest(t, list, k) : r.seq <= q.seq
  PROVE  /\ k + 1 \in 0 .. Len(list)
         /\ First(t, list, k) \cup {r} = First(t, list, k + 1)
         /\ Rest(t, list, k) \ {r} = Rest(t, list, k + 1)
<1>1. PICK n \in k + 1 .. Len(list) : r = Row(t, list, n)
  BY DEF Rest
<1>2. k \in Nat /\ Len(list) \in Nat /\ n \in Nat /\ k + 1 <= n /\ n <= Len(list)
  OBVIOUS
<1>3. \A i, j : Row(t, list, i) = Row(t, list, j) => i = j
  BY DEF Row
<1>4. n = k + 1
  <2>1. k + 1 \in k + 1 .. Len(list)
    BY <1>2
  <2>2. Row(t, list, k + 1) \in Rest(t, list, k)
    BY <2>1 DEF Rest
  <2>3. r.seq = n /\ Row(t, list, k + 1).seq = k + 1
    BY <1>1 DEF Row
  <2>4. n <= k + 1
    BY <2>2, <2>3
  <2>5. QED
    BY <1>2, <2>4
<1>5. k + 1 \in 0 .. Len(list)
  BY <1>2
<1>6. \A i : i \in 1 .. k + 1 <=> i \in 1 .. k \/ i = k + 1
  BY <1>2
<1>7. First(t, list, k) \cup {r} = First(t, list, k + 1)
  BY <1>1, <1>4, <1>6 DEF First
<1>8. \A i : i \in k + 1 + 1 .. Len(list) <=> i \in k + 1 .. Len(list) /\ i # k + 1
  BY <1>2
<1>9. Rest(t, list, k) \ {r} = Rest(t, list, k + 1)
  BY <1>1, <1>3, <1>4, <1>8 DEF Rest
<1>10. QED
  BY <1>5, <1>7, <1>9

\* When no row is left all are inserted.
LEMMA NothingLeft ==
  ASSUME NEW t, NEW list \in Seq(Nat), NEW k \in 0 .. Len(list), Rest(t, list, k) = {}
  PROVE  k = Len(list)
<1>1. k \in Nat /\ Len(list) \in Nat /\ k <= Len(list)
  OBVIOUS
<1>2. \A n \in k + 1 .. Len(list) : Row(t, list, n) \in Rest(t, list, k)
  BY DEF Rest
<1>3. ~(k + 1 \in k + 1 .. Len(list))
  BY <1>2
<1>4. QED
  BY <1>1, <1>3

\* One row moved from those that are left to the table.
LEMMA ListsGrow ==
  ASSUME Listed, work.pc = "insert checkpoints", NEW r \in work.rows, r.task \in Tasks,
         \A q \in work.rows : q.task = r.task => r.seq <= q.seq, NEW t \in Tasks
  PROVE  \E list \in Lists : \E k \in 0 .. Len(list) :
           /\ Part(checkpoints \cup {r}, t) = First(t, list, k)
           /\ Part(work.rows \ {r}, t) = Rest(t, list, k)
<1>1. PICK list \in Lists : \E k \in 0 .. Len(list) :
        Part(checkpoints, t) = First(t, list, k) /\ Part(work.rows, t) = Rest(t, list, k)
  BY DEF Listed
<1>2. PICK k \in 0 .. Len(list) :
        Part(checkpoints, t) = First(t, list, k) /\ Part(work.rows, t) = Rest(t, list, k)
  BY <1>1
<1>3. CASE r.task = t
  <2>1. r \in Rest(t, list, k) /\ \A q \in Rest(t, list, k) : r.seq <= q.seq
    BY <1>2, <1>3 DEF Part
  <2>2. list \in Seq(Nat)
    BY OfLists
  <2>3. /\ k + 1 \in 0 .. Len(list)
        /\ First(t, list, k) \cup {r} = First(t, list, k + 1)
        /\ Rest(t, list, k) \ {r} = Rest(t, list, k + 1)
    BY <2>1, <2>2, NextRow
  <2>4. /\ Part(checkpoints \cup {r}, t) = Part(checkpoints, t) \cup {r}
        /\ Part(work.rows \ {r}, t) = Part(work.rows, t) \ {r}
    BY <1>3 DEF Part
  <2>5. /\ Part(checkpoints \cup {r}, t) = First(t, list, k + 1)
        /\ Part(work.rows \ {r}, t) = Rest(t, list, k + 1)
    BY <1>2, <2>3, <2>4
  <2>6. QED
    BY <2>3, <2>5
<1>4. CASE r.task # t
  <2>1. /\ Part(checkpoints \cup {r}, t) = Part(checkpoints, t)
        /\ Part(work.rows \ {r}, t) = Part(work.rows, t)
    BY <1>4 DEF Part
  <2>2. QED
    BY <1>2, <2>1
<1>5. QED
  BY <1>3, <1>4

\* One more row of a history, the next one, keeps the tables a list.
LEMMA RowInserted ==
  ASSUME Listed, work.pc = "insert checkpoints", NEW r \in work.rows, r.task \in Tasks,
         \A q \in work.rows : q.task = r.task => r.seq <= q.seq,
         checkpoints' = checkpoints \cup {r},
         \/ work'.pc = "insert checkpoints" /\ work'.rows = work.rows \ {r}
         \/ work'.pc # "insert checkpoints" /\ work.rows = {r}
  PROVE  Listed'
<1>1. \A t \in Tasks : \E list \in Lists : \E k \in 0 .. Len(list) :
        /\ Part(checkpoints \cup {r}, t) = First(t, list, k)
        /\ Part(work.rows \ {r}, t) = Rest(t, list, k)
  BY ListsGrow
<1>2. \A t : Part(checkpoints, t)' = Part(checkpoints \cup {r}, t)
  BY DEF Part
<1>3. CASE work'.pc = "insert checkpoints" /\ work'.rows = work.rows \ {r}
  <2>1. \A t : Part(work.rows, t)' = Part(work.rows \ {r}, t)
    BY <1>3 DEF Part
  <2>2. QED
    BY <1>1, <1>2, <1>3, <2>1 DEF Listed
<1>4. CASE work'.pc # "insert checkpoints" /\ work.rows = {r}
  <2>1. \A t : Part(work.rows \ {r}, t) = {}
    BY <1>4 DEF Part
  <2>2. ASSUME NEW t \in Tasks
        PROVE  \E list \in Lists : \E k \in 0 .. Len(list) :
                 Part(checkpoints \cup {r}, t) = First(t, list, k) /\ k = Len(list)
    <3>1. PICK list \in Lists : \E k \in 0 .. Len(list) :
            /\ Part(checkpoints \cup {r}, t) = First(t, list, k)
            /\ Part(work.rows \ {r}, t) = Rest(t, list, k)
      BY <1>1
    <3>2. PICK k \in 0 .. Len(list) :
            Part(checkpoints \cup {r}, t) = First(t, list, k) /\ Rest(t, list, k) = {}
      BY <2>1, <3>1
    <3>3. k = Len(list)
      BY <3>2, OfLists, NothingLeft
    <3>4. QED
      BY <3>2, <3>3
  <2>4. QED
    BY <1>2, <1>4, <2>2 DEF Listed
<1>5. QED
  BY <1>3, <1>4
-----------------------------------------------------------------------------
\* ----- what the definitions read ------------------------------------------

\* What is defined from the memory stays with it.
LEMMA MemoryKept ==
  ASSUME memory' = memory
  PROVE  mem' = mem /\ RowsOfTasks' = RowsOfTasks /\ RowsOfHistory(Server)' = RowsOfHistory(Server)
BY DEF mem, RowsOfTasks, RowOf, RowsOfHistory

\* What is defined from the tables stays with them.
LEMMA TablesKept ==
  ASSUME UNCHANGED tables
  PROVE  /\ tasks' = tasks /\ checkpoints' = checkpoints
         /\ Loaded' = Loaded /\ Stored' = Stored
BY DEF tables, Loaded, LoadedTask, LoadedHistory, Stored

\* Assignments to the server's phase and flags.
LEMMA OfTheServer ==
  ASSUME OneSaveAtATime, Typed
  PROVE  /\ \A p : phase' = [phase EXCEPT ![Server] = p] => phase'[Server] = p
         /\ \A b \in BOOLEAN : pending' = [pending EXCEPT ![Server] = b] =>
              pending'[Server] = b /\ pending' \in [Instances -> BOOLEAN]
         /\ \A b \in BOOLEAN : failed' = [failed EXCEPT ![Server] = b] =>
              failed'[Server] = b /\ failed' \in [Instances -> BOOLEAN]
         /\ pending[Server] \in BOOLEAN /\ failed[Server] \in BOOLEAN
         /\ phase[Server] \in {"up", "closing", "stopped", "crashed"}
<1>1. Server \in Instances
  BY OnlyServer
<1>2. phase \in [Instances -> {"up", "closing", "stopped", "crashed"}]
  BY DEF Typed
<1>3. pending \in [Instances -> BOOLEAN] /\ failed \in [Instances -> BOOLEAN]
  BY DEF Typed
<1>4. QED
  BY <1>1, <1>2, <1>3

\* A server that is free is up, and on SQLite no save is under way.
LEMMA Idle ==
  ASSUME OneSaveAtATime, Typed
  PROVE  /\ Free(Server) => phase[Server] = "up" /\ (transactional => work.pc = "idle")
         /\ NoSave \in {NoSave} \cup Processes /\ NoSave.pc = "idle"
BY OnlyServer DEF Free, NoSave

-----------------------------------------------------------------------------
\* ----- the memory grows ---------------------------------------------------

\* A change of the memory that only goes forward, and schedules a save, keeps the
\* invariant.
LEMMA MemoryGrows ==
  ASSUME OneSaveAtATime, Inv, Free(Server), scheduleSave(Server),
         NEW D \in SUBSET Tasks, NEW m \in [D -> TaskStates],
         memory' = [memory EXCEPT ![Server] = m],
         DOMAIN mem \subseteq D,
         \A t \in DOMAIN mem : mem[t].offset <= m[t].offset,
         transactional => \A t \in D : \A n \in 1 .. Len(m[t].history) : m[t].history[n] <= m[t].offset,
         UNCHANGED <<transactional, phase, save, tables, failed>>
  PROVE  Inv'
<1>1. mem' = m /\ \E E \in SUBSET Tasks : memory' \in [Instances -> [E -> TaskStates]]
  BY SetMemory DEF Inv
<1>2. pending'[Server] = TRUE /\ pending' \in [Instances -> BOOLEAN]
  BY OfTheServer DEF Inv, scheduleSave
<1>3. /\ transactional' = transactional /\ phase' = phase /\ save' = save /\ failed' = failed
      /\ tasks' = tasks /\ checkpoints' = checkpoints /\ work' = work
  BY DEF tables, work
<1>4. DOMAIN mem' = D /\ DOMAIN mem \subseteq DOMAIN mem'
  BY <1>1
<1>5. Typed'
  BY <1>1, <1>2, <1>3, <1>4 DEF Inv, Typed
<1>6. Listed'
  BY <1>3 DEF Inv, Listed, Part
<1>7. CheckpointsNotAheadOfTasks'
  BY <1>3 DEF Inv, CheckpointsNotAheadOfTasks
<1>8. Behind'
  <2>1. SUFFICES ASSUME transactional, phase[Server] \in {"up", "closing"} PROVE Behind'
    BY <1>3 DEF Behind
  <2>2. Stored' \subseteq DOMAIN mem'
    BY <1>3, <1>4, <2>1 DEF Inv, Behind, Stored
  <2>3. \A r \in checkpoints : r.task \in D /\ r.offset <= m[r.task].offset
    <3>1. SUFFICES ASSUME NEW r \in checkpoints PROVE r.task \in D /\ r.offset <= m[r.task].offset
      OBVIOUS
    <3>2. /\ r.task \in DOMAIN mem /\ r.offset <= mem[r.task].offset
          /\ mem[r.task].offset <= m[r.task].offset
      BY <2>1 DEF Inv, Behind
    <3>3. r.offset \in Nat
      BY DEF Inv, Typed, HistoryRows
    <3>4. mem[r.task].offset \in Nat /\ m[r.task].offset \in Nat
      BY <3>2, MemTyped DEF Inv, TaskStates
    <3>5. QED
      BY <3>2, <3>3, <3>4
  <2>4. work.pc = "idle"
    BY <2>1, Idle DEF Inv
  <2>5. QED
    BY <1>1, <1>3, <1>4, <2>1, <2>2, <2>3, <2>4 DEF Behind
<1>9. Written'
  BY <1>2 DEF Written
<1>10. QED
  BY <1>5, <1>6, <1>7, <1>8, <1>9 DEF Inv

\* A new task keeps the invariant.
LEMMA CreateTaskStep ==
  ASSUME OneSaveAtATime, Inv, NEW t \in Tasks, createTask(Server, t)
  PROVE  Inv'
<1> DEFINE D == DOMAIN mem \cup {t}
           m == [u \in D |-> IF u = t THEN NewTask ELSE mem[u]]
<1>1. /\ DOMAIN mem \subseteq Tasks /\ Server \in Instances
      /\ \A u \in DOMAIN mem : mem[u] \in TaskStates /\ mem[u].offset \in Nat
  BY MemTyped, OnlyServer DEF Inv
<1>2. t \notin DOMAIN mem
  BY <1>1 DEF createTask, Known, mem
<1>3. NewTask \in TaskStates /\ NewTask.offset = 0 /\ Len(NewTask.history) = 0
  <2>1. <<>> \in Lists /\ Len(<<>>) = 0
    BY BoundsAssumption DEF Lists
  <2>2. \A list \in Lists : [offset |-> 0, history |-> list] \in TaskStates
    BY DEF TaskStates
  <2>3. QED
    BY <2>1, <2>2 DEF NewTask
<1>4. m \in [D -> TaskStates] /\ D \in SUBSET Tasks
  BY <1>1, <1>3
<1>5. memory' = [memory EXCEPT ![Server] = m]
  BY DEF createTask, mem
<1>6. \A u \in DOMAIN mem : mem[u].offset <= m[u].offset
  BY <1>1, <1>2
<1>7. transactional => \A u \in D : \A n \in 1 .. Len(m[u].history) : m[u].history[n] <= m[u].offset
  <2>1. SUFFICES ASSUME transactional, NEW u \in D, NEW n \in 1 .. Len(m[u].history)
                 PROVE  m[u].history[n] <= m[u].offset
    OBVIOUS
  <2>2. phase[Server] = "up"
    BY DEF createTask, Free
  <2>3. u # t
    BY <1>3
  <2>4. u \in DOMAIN mem /\ m[u] = mem[u]
    BY <2>3
  <2>5. QED
    BY <2>1, <2>2, <2>4 DEF Inv, Behind
<1>8. /\ Free(Server) /\ scheduleSave(Server) /\ DOMAIN mem \subseteq D
      /\ UNCHANGED <<transactional, phase, save, tables, failed>>
  BY DEF createTask
<1> HIDE DEF D, m
<1>9. QED
  BY <1>4, <1>5, <1>6, <1>7, <1>8, MemoryGrows

\* A move keeps the invariant.
LEMMA TransitionStep ==
  ASSUME OneSaveAtATime, Inv, NEW t \in Tasks, transition(Server, t)
  PROVE  Inv'
<1>1. /\ DOMAIN mem \in SUBSET Tasks /\ Server \in Instances /\ mem \in [DOMAIN mem -> TaskStates]
      /\ \A u \in DOMAIN mem : mem[u].offset \in Nat
  BY MemTyped, OnlyServer DEF Inv
<1>2. memory' = [memory EXCEPT ![Server] = mem]
  BY <1>1 DEF transition, mem, Inv, Typed
<1>3. \A u \in DOMAIN mem : mem[u].offset <= mem[u].offset
  BY <1>1
<1>4. Free(Server) /\ scheduleSave(Server) /\ UNCHANGED <<transactional, phase, save, tables, failed>>
  BY DEF transition
<1>5. transactional =>
        \A u \in DOMAIN mem : \A n \in 1 .. Len(mem[u].history) : mem[u].history[n] <= mem[u].offset
  BY <1>4 DEF Free, Inv, Behind
<1>6. QED
  BY <1>1, <1>2, <1>3, <1>4, <1>5, MemoryGrows

\* A bound on a list is one on the list with one more element inside it.
LEMMA Appended ==
  ASSUME NEW list \in Seq(Nat), NEW n \in Nat, \A k \in 1 .. Len(list) : list[k] <= n
  PROVE  \A j \in 1 .. Len(Append(list, n)) : Append(list, n)[j] <= n
<1>1. Len(list) \in Nat /\ Len(Append(list, n)) = Len(list) + 1 /\ Append(list, n)[Len(list) + 1] = n
  OBVIOUS
<1>2. \A k \in 1 .. Len(list) : Append(list, n)[k] = list[k]
  OBVIOUS
<1>3. \A j \in 1 .. Len(list) + 1 : j \in 1 .. Len(list) \/ j = Len(list) + 1
  BY <1>1
<1>4. QED
  BY <1>1, <1>2, <1>3

\* A checkpoint keeps the invariant.
LEMMA SaveCheckpointStep ==
  ASSUME OneSaveAtATime, Inv, NEW t \in Tasks, saveCheckpoint(Server, t)
  PROVE  Inv'
<1> DEFINE n == mem[t].offset + 1
           list == KeepLatest(Append(mem[t].history, n))
           r == [offset |-> n, history |-> list]
           m == [mem EXCEPT ![t] = r]
<1>1. /\ DOMAIN mem \in SUBSET Tasks /\ Server \in Instances /\ mem \in [DOMAIN mem -> TaskStates]
      /\ \A u \in DOMAIN mem : mem[u].offset \in Nat /\ mem[u].history \in Seq(Nat)
  BY MemTyped, OnlyServer DEF Inv
<1>2. t \in DOMAIN mem
  BY DEF saveCheckpoint, mem
<1>3. n \in Nat /\ mem[t].offset \in Nat /\ mem[t].offset <= n /\ mem[t].history \in Seq(Nat)
  BY <1>1, <1>2
<1>4. Append(mem[t].history, n) \in Seq(Nat)
  BY <1>3
<1>5. list \in Lists
  BY <1>4, ListKept
<1>6. r \in TaskStates
  BY <1>3, <1>5 DEF TaskStates
<1>7. r.offset = n /\ r.history = list
  OBVIOUS
<1>8. m \in [DOMAIN mem -> TaskStates] /\ m[t] = r /\ \A u \in DOMAIN mem : u # t => m[u] = mem[u]
  <2> HIDE DEF r
  <2>1. QED
    BY <1>1, <1>2, <1>6
<1>9. memory' = [memory EXCEPT ![Server] = m]
  BY DEF saveCheckpoint, mem
<1>10. \A u \in DOMAIN mem : mem[u].offset <= m[u].offset
  <2> HIDE DEF m, r, list
  <2>1. QED
    BY <1>1, <1>3, <1>7, <1>8
<1>11. Free(Server) /\ scheduleSave(Server) /\ UNCHANGED <<transactional, phase, save, tables, failed>>
  BY DEF saveCheckpoint
<1>12. transactional => \A u \in DOMAIN mem : \A i \in 1 .. Len(m[u].history) : m[u].history[i] <= m[u].offset
  <2>1. SUFFICES ASSUME transactional, NEW u \in DOMAIN mem, NEW i \in 1 .. Len(m[u].history)
                 PROVE  m[u].history[i] <= m[u].offset
    OBVIOUS
  <2>2. \A v \in DOMAIN mem : \A j \in 1 .. Len(mem[v].history) : mem[v].history[j] <= mem[v].offset
    BY <2>1, <1>11 DEF Free, Inv, Behind
  <2> HIDE DEF m
  <2>3. CASE u # t
    BY <1>8, <2>2, <2>3
  <2>4. CASE u = t
    <3>1. m[u].history = list /\ m[u].offset = n /\ i \in 1 .. Len(list)
      BY <1>7, <1>8, <2>4
    <3>2. PICK j \in 1 .. Len(Append(mem[t].history, n)) : list[i] = Append(mem[t].history, n)[j]
      BY <1>4, <3>1, ListKept
    <3>3. \A k \in 1 .. Len(mem[t].history) : mem[t].history[k] <= n
      <4>1. \A k \in 1 .. Len(mem[t].history) : mem[t].history[k] \in Nat /\ mem[t].history[k] <= mem[t].offset
        BY <1>2, <1>3, <2>2, SMTT(30)
      <4> HIDE DEF n
      <4>2. QED
        BY <1>3, <4>1, SMTT(30)
    <3> HIDE DEF n
    <3>4. Append(mem[t].history, n)[j] <= n
      BY <1>3, <3>2, <3>3, Appended
    <3>5. QED
      BY <3>1, <3>2, <3>4
  <2>5. QED
    BY <2>3, <2>4
<1> HIDE DEF m
<1>13. QED
  BY <1>1, <1>8, <1>9, <1>10, <1>11, <1>12, MemoryGrows
-----------------------------------------------------------------------------
\* ----- a save begins ------------------------------------------------------

\* How a save begins: on SQLite with the tasks replaced, else with its first
\* statement to come.
LEMMA Begins ==
  ASSUME OneSaveAtATime, Inv, Free(Server), NEW wait \in BOOLEAN, Begin(Server, Slot, wait)
  PROVE  /\ work.pc = "idle"
         /\ work' \in Processes /\ save' \in [Instances -> [Slots -> {NoSave} \cup Processes]]
         /\ work'.todo = DOMAIN mem
         /\ work'.pc = IF transactional THEN "checkpoints" ELSE "delete tasks"
         /\ tasks' = IF transactional THEN RowsOfTasks ELSE tasks
         /\ failed' \in [Instances -> BOOLEAN]
<1>1. /\ work.pc = "idle" /\ DOMAIN mem \in SUBSET Tasks
      /\ failed' \in [Instances -> BOOLEAN]
  BY OnlyServer, MemTyped, OfTheServer DEF Begin, Inv
<1>2. \A pc \in {"delete tasks", "checkpoints"} :
        LET r == Begun(Server, pc, wait) IN r \in Processes /\ r.pc = pc /\ r.todo = DOMAIN mem
  BY <1>1 DEF Begun, Processes, Stages, mem
<1> DEFINE first == IF transactional THEN "checkpoints" ELSE "delete tasks"
           r == Begun(Server, first, wait)
<1>3. save' = [save EXCEPT ![Server][Slot] = r] /\ tasks' = IF transactional THEN RowsOfTasks ELSE tasks
  BY DEF Begin, RowsOfTasks, mem
<1>4. first \in {"delete tasks", "checkpoints"}
  OBVIOUS
<1> HIDE DEF first
<1>5. r \in Processes /\ r.pc = first /\ r.todo = DOMAIN mem
  BY <1>2, <1>4
<1> HIDE DEF r
<1>6. work' = r /\ save' \in [Instances -> [Slots -> {NoSave} \cup Processes]]
  BY <1>3, <1>5, SetSave DEF Inv
<1>7. QED
  BY <1>1, <1>3, <1>5, <1>6 DEF first

\* The beginning of a save keeps the invariant.
LEMMA BeginKeeps ==
  ASSUME OneSaveAtATime, Inv, Free(Server), NEW wait \in BOOLEAN, Begin(Server, Slot, wait),
         phase' \in [Instances -> {"up", "closing", "stopped", "crashed"}],
         phase'[Server] \in {"up", "closing"}, pending' \in [Instances -> BOOLEAN],
         UNCHANGED <<transactional, memory, checkpoints>>
  PROVE  Inv'
<1>1. /\ work.pc = "idle"
      /\ work' \in Processes /\ save' \in [Instances -> [Slots -> {NoSave} \cup Processes]]
      /\ work'.todo = DOMAIN mem
      /\ work'.pc = IF transactional THEN "checkpoints" ELSE "delete tasks"
      /\ tasks' = IF transactional THEN RowsOfTasks ELSE tasks
      /\ failed' \in [Instances -> BOOLEAN]
  BY Begins
<1>2. /\ transactional' = transactional /\ checkpoints' = checkpoints /\ phase[Server] = "up"
      /\ memory' = memory /\ mem' = mem /\ RowsOfTasks' = RowsOfTasks
      /\ RowsOfHistory(Server)' = RowsOfHistory(Server)
  BY MemoryKept, Idle DEF Inv
<1>3. /\ RowsOfTasks \subseteq TaskRows
      /\ \A q, r \in RowsOfTasks : q.task = r.task => q = r
      /\ \A t \in DOMAIN mem : \E r \in RowsOfTasks : r.task = t /\ r.offset = mem[t].offset
      /\ \A r \in RowsOfTasks : r.task \in DOMAIN mem
  BY TasksWritten DEF Inv
<1>4. Typed'
  <2>1. tasks' \subseteq TaskRows /\ \A q, r \in tasks' : q.task = r.task => q = r
    BY <1>1, <1>3 DEF Inv, Typed
  <2>2. QED
    BY <1>1, <1>2, <2>1 DEF Inv, Typed
<1>5. work'.pc # "insert checkpoints"
  BY <1>1
<1>6. Listed'
  BY <1>2, <1>5, TableKept DEF Inv
<1>7. CheckpointsNotAheadOfTasks'
  <2>1. CASE transactional
    <3>1. \A r \in checkpoints : r.task \in DOMAIN mem /\ r.offset <= mem[r.task].offset
      BY <1>2, <2>1 DEF Inv, Behind
    <3>2. QED
      BY <1>1, <1>2, <1>3, <2>1, <3>1 DEF CheckpointsNotAheadOfTasks
  <2>2. CASE ~transactional
    BY <1>2, <2>2 DEF CheckpointsNotAheadOfTasks
  <2>3. QED
    BY <2>1, <2>2
<1>8. Behind'
  <2>1. SUFFICES ASSUME transactional PROVE Behind'
    BY <1>2 DEF Behind
  <2>2. tasks' = RowsOfTasks /\ work'.pc = "checkpoints"
    BY <1>1, <2>1
  <2>3. Stored' \subseteq DOMAIN mem
    BY <1>3, <2>2 DEF Stored
  <2>4. /\ \A r \in checkpoints : r.task \in DOMAIN mem /\ r.offset <= mem[r.task].offset
        /\ \A t \in DOMAIN mem : \A n \in 1 .. Len(mem[t].history) : mem[t].history[n] <= mem[t].offset
    BY <1>2, <2>1 DEF Inv, Behind
  <2>5. QED
    BY <1>2, <2>2, <2>3, <2>4 DEF Behind
<1>9. Written'
  <2>1. CASE transactional
    BY <1>1, <1>2, <2>1 DEF Written
  <2>2. CASE ~transactional
    BY <1>1, <1>2, <2>2 DEF Written
  <2>3. QED
    BY <2>1, <2>2
<1>10. QED
  BY <1>4, <1>6, <1>7, <1>8, <1>9 DEF Inv

\* The timer that fires keeps the invariant.
LEMMA TimerFiresStep ==
  ASSUME OneSaveAtATime, Inv, TimerFires(Server, Slot)
  PROVE  Inv'
<1>1. /\ Free(Server) /\ Begin(Server, Slot, FALSE)
      /\ pending' = [pending EXCEPT ![Server] = FALSE]
      /\ UNCHANGED <<transactional, phase, memory, checkpoints>>
  BY DEF TimerFires
<1>2. pending' \in [Instances -> BOOLEAN]
  BY <1>1, OfTheServer DEF Inv
<1>3. /\ phase' \in [Instances -> {"up", "closing", "stopped", "crashed"}]
      /\ phase'[Server] \in {"up", "closing"}
  BY <1>1, Idle DEF Inv, Typed
<1>4. FALSE \in BOOLEAN
  OBVIOUS
<1>5. QED
  BY <1>1, <1>2, <1>3, <1>4, BeginKeeps

\* The stop that starts keeps the invariant.
LEMMA ShutdownStep ==
  ASSUME OneSaveAtATime, Inv, Shutdown(Server)
  PROVE  Inv'
<1>1. /\ Free(Server) /\ phase' = [phase EXCEPT ![Server] = "closing"] /\ phase[Server] = "up"
      /\ UNCHANGED <<transactional, memory, checkpoints>> /\ pending' = pending
  BY DEF Shutdown, Free
<1>2. /\ phase' \in [Instances -> {"up", "closing", "stopped", "crashed"}]
      /\ phase'[Server] = "closing" /\ pending' \in [Instances -> BOOLEAN]
  <2>1. phase'[Server] = "closing"
    BY <1>1, OfTheServer DEF Inv
  <2>2. QED
    BY <1>1, <2>1 DEF Inv, Typed
<1>3. CASE \E s \in Slots : Begin(Server, s, TRUE)
  <2>1. Begin(Server, Slot, TRUE) /\ TRUE \in BOOLEAN
    BY <1>3, OnlyServer
  <2>2. QED
    BY <1>1, <1>2, <2>1, BeginKeeps
<1>4. CASE UNCHANGED <<tasks, save>> /\ failed' \in {failed, [failed EXCEPT ![Server] = TRUE]}
  <2>1. /\ tasks' = tasks /\ work' = work /\ save' = save /\ memory' = memory
        /\ checkpoints' = checkpoints /\ transactional' = transactional
        /\ mem' = mem /\ RowsOfTasks' = RowsOfTasks /\ Stored' = Stored
    BY <1>1, <1>4, MemoryKept DEF work, Stored
  <2>2. Typed'
    <3>1. failed' \in [Instances -> BOOLEAN]
      BY <1>4 DEF Inv, Typed
    <3>2. QED
      BY <1>2, <2>1, <3>1 DEF Inv, Typed
  <2>3. Listed'
    BY <2>1 DEF Inv, Listed, Part
  <2>4. CheckpointsNotAheadOfTasks'
    BY <2>1 DEF Inv, CheckpointsNotAheadOfTasks
  <2>5. Behind'
    BY <1>1, <1>2, <2>1 DEF Inv, Behind
  <2>6. Written'
    BY <1>2 DEF Written
  <2>7. QED
    BY <2>2, <2>3, <2>4, <2>5, <2>6 DEF Inv
<1>5. QED
  BY <1>3, <1>4 DEF Shutdown

-----------------------------------------------------------------------------
\* ----- the save goes on ---------------------------------------------------

\* What changes of a save in progress.
Progress(pc, todo, rows) == [work EXCEPT !.pc = pc, !.todo = todo, !.rows = rows]

\* A save under way, and the next stages it may have.
LEMMA InProgress ==
  ASSUME OneSaveAtATime, Inv, work.pc # "idle"
  PROVE  /\ work \in Processes /\ phase[Server] \in {"up", "closing"}
         /\ transactional => work.pc = "checkpoints"
         /\ \A pc \in Stages :
              \A todo \in SUBSET Tasks : \A rows \in SUBSET HistoryRows :
                /\ Progress(pc, todo, rows) \in Processes
                /\ Progress(pc, todo, rows).pc = pc
                /\ Progress(pc, todo, rows).todo = todo /\ Progress(pc, todo, rows).rows = rows
<1>1. work \in Processes
  BY MemTyped DEF Inv, NoSave
<1>2. phase[Server] \in {"up", "closing"}
  BY OfTheServer DEF Inv, Typed
<1>3. transactional => work.pc = "checkpoints"
  BY <1>2 DEF Inv, Behind
<1>4. \A pc \in Stages :
        \A todo \in SUBSET Tasks : \A rows \in SUBSET HistoryRows :
          /\ Progress(pc, todo, rows) \in Processes
          /\ Progress(pc, todo, rows).pc = pc
          /\ Progress(pc, todo, rows).todo = todo /\ Progress(pc, todo, rows).rows = rows
  BY <1>1 DEF Processes, Progress
<1>5. QED
  BY <1>1, <1>2, <1>3, <1>4

\* Deleting the tasks keeps the invariant.
LEMMA DeleteTasksStep ==
  ASSUME OneSaveAtATime, Inv, DeleteTasks(Server, Slot)
  PROVE  Inv'
<1> DEFINE next == IF work.todo = {} THEN "checkpoints" ELSE "insert tasks"
           r == Progress(next, work.todo, work.rows)
<1>1. /\ work.pc = "delete tasks" /\ tasks' = {} /\ save' = [save EXCEPT ![Server][Slot].pc = next]
      /\ UNCHANGED <<transactional, phase, memory, pending, checkpoints, failed>>
  BY DEF DeleteTasks, work
<1>2. /\ work \in Processes /\ phase[Server] \in {"up", "closing"} /\ ~transactional
      /\ work.todo \in SUBSET Tasks /\ work.rows \in SUBSET HistoryRows
  BY <1>1, InProgress DEF Processes
<1>3. r \in Processes /\ r.pc = next /\ r.todo = work.todo /\ r.rows = work.rows
  <2>1. next \in Stages
    BY DEF Stages
  <2>2. work.pc # "idle"
    BY <1>1
  <2> HIDE DEF next
  <2>3. QED
    BY <1>2, <2>1, <2>2, InProgress
<1>4. save' = [save EXCEPT ![Server][Slot] = r]
  <2>1. r = [work EXCEPT !.pc = next]
    BY <1>2 DEF Processes, Progress
  <2>2. save' = [save EXCEPT ![Server][Slot] = [save[Server][Slot] EXCEPT !.pc = next]]
    BY <1>1
  <2> HIDE DEF r, next
  <2>3. QED
    BY <2>1, <2>2 DEF work
<1> HIDE DEF r
<1>5. work' = r /\ save' \in [Instances -> [Slots -> {NoSave} \cup Processes]]
  BY <1>3, <1>4, SetSave DEF Inv
<1>6. /\ transactional' = transactional /\ phase' = phase /\ memory' = memory /\ pending' = pending
      /\ checkpoints' = checkpoints /\ failed' = failed /\ mem' = mem /\ RowsOfTasks' = RowsOfTasks
  BY <1>1, MemoryKept
<1>7. Typed'
  <2>1. \A q, s \in tasks' : q.task = s.task => q = s
    BY <1>1
  <2>2. work'.pc # "idle" => work'.todo \subseteq DOMAIN mem'
    BY <1>1, <1>3, <1>5, <1>6 DEF Inv, Typed
  <2>3. phase'[Server] \in {"stopped", "crashed"} => work'.pc = "idle"
    BY <1>2, <1>6
  <2>4. QED
    BY <1>1, <1>5, <1>6, <2>1, <2>2, <2>3, ZenonT(60) DEF Inv, Typed
<1>8. work'.pc = next /\ next # "insert checkpoints"
  BY <1>3, <1>5
<1>9. Listed'
  BY <1>6, <1>8, TableKept DEF Inv
<1>10. CheckpointsNotAheadOfTasks' /\ Behind'
  BY <1>2, <1>6 DEF CheckpointsNotAheadOfTasks, Behind
<1>11. Written'
  <2>1. SUFFICES ASSUME phase[Server] = "up", ~pending[Server] PROVE Written'
    BY <1>6 DEF Written
  <2>2. work.todo = DOMAIN mem
    BY <1>1, <2>1 DEF Inv, Written
  <2>3. CASE work.todo = {}
    <3>1. work'.pc = "checkpoints" /\ tasks' = RowsOfTasks
      BY <1>1, <1>8, <2>2, <2>3 DEF RowsOfTasks
    <3>2. QED
      BY <1>6, <3>1 DEF Written
  <2>4. CASE work.todo # {}
    <3>1. /\ work'.pc = "insert tasks" /\ work'.todo = DOMAIN mem
          /\ tasks' = {}
      BY <1>1, <1>3, <1>5, <1>8, <2>2, <2>4
    <3>2. {RowOf(Server, t) : t \in DOMAIN mem \ DOMAIN mem}' = {}
      OBVIOUS
    <3>3. QED
      BY <1>6, <3>1, <3>2 DEF Written
  <2>5. QED
    BY <2>3, <2>4
<1>12. QED
  BY <1>7, <1>9, <1>10, <1>11 DEF Inv

\* Inserting a task keeps the invariant.
LEMMA InsertTaskStep ==
  ASSUME OneSaveAtATime, Inv, NEW t \in Tasks, InsertTask(Server, Slot, t)
  PROVE  Inv'
<1> DEFINE left == work.todo \ {t}
           next == IF work.todo = {t} THEN "checkpoints" ELSE "insert tasks"
           r == Progress(next, left, work.rows)
<1>1. /\ work.pc = "insert tasks" /\ t \in work.todo /\ t \notin Stored
      /\ tasks' = tasks \cup {RowOf(Server, t)}
      /\ save' = [save EXCEPT ![Server][Slot].todo = left, ![Server][Slot].pc = next]
      /\ UNCHANGED <<transactional, phase, memory, pending, checkpoints, failed>>
  BY DEF InsertTask, work
<1>2. /\ work \in Processes /\ phase[Server] \in {"up", "closing"} /\ ~transactional
      /\ work.todo \in SUBSET Tasks /\ work.rows \in SUBSET HistoryRows
  BY <1>1, InProgress DEF Processes
<1>3. r \in Processes /\ r.pc = next /\ r.todo = left
  <2>1. next \in Stages
    BY DEF Stages
  <2>2. work.pc # "idle" /\ left \in SUBSET Tasks
    BY <1>1, <1>2
  <2> HIDE DEF next, left
  <2>3. QED
    BY <1>2, <2>1, <2>2, InProgress
<1>4. save' = [save EXCEPT ![Server][Slot] = r]
  <2> HIDE DEF next, left
  <2>1. r = [work EXCEPT !.pc = next, !.todo = left]
    BY <1>2 DEF Processes, Progress
  <2>2. save' = [save EXCEPT ![Server][Slot] = [save[Server][Slot] EXCEPT !.todo = left, !.pc = next]]
    BY <1>1
  <2>3. [work EXCEPT !.todo = left, !.pc = next] = [work EXCEPT !.pc = next, !.todo = left]
    BY <1>2 DEF Processes
  <2> HIDE DEF r
  <2>4. QED
    BY <2>1, <2>2, <2>3 DEF work
<1> HIDE DEF r
<1>5. work' = r /\ save' \in [Instances -> [Slots -> {NoSave} \cup Processes]]
  BY <1>3, <1>4, SetSave DEF Inv
<1>6. /\ transactional' = transactional /\ phase' = phase /\ memory' = memory /\ pending' = pending
      /\ checkpoints' = checkpoints /\ failed' = failed /\ mem' = mem /\ RowsOfTasks' = RowsOfTasks
  BY <1>1, MemoryKept
<1>7. t \in DOMAIN mem
  BY <1>1 DEF Inv, Typed
<1>8. RowOf(Server, t) \in TaskRows /\ RowOf(Server, t).task = t
  BY <1>7, MemTyped DEF RowOf, mem, TaskRows, Inv
<1>9. Typed'
  <2>1. \A q, s \in tasks' : q.task = s.task => q = s
    <3>1. \A q \in tasks : q.task # t
      BY <1>1 DEF Stored
    <3>2. \A q, s \in tasks : q.task = s.task => q = s
      BY DEF Inv, Typed
    <3>3. tasks' = tasks \cup {RowOf(Server, t)}
      BY <1>1
    <3>4. QED
      BY <1>8, <3>1, <3>2, <3>3
  <2>2. work'.pc # "idle" => work'.todo \subseteq DOMAIN mem'
    BY <1>1, <1>3, <1>5, <1>6 DEF Inv, Typed
  <2>3. phase'[Server] \in {"stopped", "crashed"} => work'.pc = "idle"
    BY <1>2, <1>6
  <2>4. tasks' \subseteq TaskRows
    BY <1>1, <1>8 DEF Inv, Typed
  <2>5. QED
    BY <1>5, <1>6, <2>1, <2>2, <2>3, <2>4 DEF Inv, Typed
<1>10. work'.pc = next /\ next # "insert checkpoints"
  BY <1>3, <1>5
<1>11. Listed'
  BY <1>6, <1>10, TableKept DEF Inv
<1>12. CheckpointsNotAheadOfTasks' /\ Behind'
  BY <1>2, <1>6 DEF CheckpointsNotAheadOfTasks, Behind
<1>13. Written'
  <2>1. SUFFICES ASSUME phase[Server] = "up", ~pending[Server] PROVE Written'
    BY <1>6 DEF Written
  <2>2. work.todo \subseteq DOMAIN mem /\ tasks = {RowOf(Server, u) : u \in DOMAIN mem \ work.todo}
    BY <1>1, <2>1 DEF Inv, Written
  <2>3. tasks' = {RowOf(Server, u) : u \in DOMAIN mem \ left}
    BY <1>1, <1>7, <2>2
  <2>4. CASE work.todo = {t}
    <3>1. work'.pc = "checkpoints" /\ tasks' = RowsOfTasks
      BY <1>10, <2>3, <2>4 DEF RowsOfTasks
    <3>2. QED
      BY <1>6, <3>1 DEF Written
  <2>5. CASE work.todo # {t}
    <3>1. work'.pc = "insert tasks" /\ work'.todo = left /\ left \subseteq DOMAIN mem
      BY <1>3, <1>5, <1>10, <2>2, <2>5
    <3> HIDE DEF left
    <3>2. DOMAIN mem' \ work'.todo = DOMAIN mem \ left
      BY <1>6, <3>1
    <3>3. tasks' = {[task |-> u, offset |-> memory'[Server][u].offset] : u \in DOMAIN mem' \ work'.todo}
      BY <1>6, <2>3, <3>2 DEF RowOf
    <3>4. tasks' = {RowOf(Server, u) : u \in DOMAIN mem \ work.todo}'
      BY <3>3 DEF RowOf
    <3>5. work'.todo \subseteq DOMAIN mem'
      BY <1>6, <3>1
    <3>6. QED
      BY <3>1, <3>4, <3>5 DEF Written
  <2>6. QED
    BY <2>4, <2>5
<1>14. QED
  BY <1>9, <1>11, <1>12, <1>13 DEF Inv

\* A save that is over, or dropped.
LEMMA SaveOver ==
  ASSUME OneSaveAtATime, Inv, save' = [save EXCEPT ![Server][Slot] = NoSave]
  PROVE  work'.pc = "idle" /\ save' \in [Instances -> [Slots -> {NoSave} \cup Processes]]
BY Idle, SetSave DEF Inv

\* What a save has put in the tables is what a new process would read.
LEMMA NothingForgotten ==
  ASSUME OneSaveAtATime, Inv, UNCHANGED <<memory, tasks>>,
         phase[Server] = "up", ~pending[Server], work.pc \in {"checkpoints", "insert checkpoints"},
         checkpoints' = RowsOfHistory(Server), Typed'
  PROVE  mem' = Loaded'
<1>1. tasks = RowsOfTasks
  BY DEF Inv, Written
<1>2. tasks' = RowsOfTasks' /\ checkpoints' = RowsOfHistory(Server)'
  BY <1>1, MemoryKept
<1>3. (OneSaveAtATime /\ Typed /\ tasks = RowsOfTasks /\ checkpoints = RowsOfHistory(Server)
         => Loaded = mem)'
  BY AllLoaded, PTL
<1>4. OneSaveAtATime'
  BY DEF OneSaveAtATime
<1>5. QED
  BY <1>2, <1>3, <1>4

\* Replacing the checkpoints, or deleting them, keeps the invariant.
LEMMA ReplaceCheckpointsStep ==
  ASSUME OneSaveAtATime, Inv, ReplaceCheckpoints(Server, Slot)
  PROVE  Inv'
<1> DEFINE R == RowsOfHistory(Server)
           next == "insert checkpoints"
           r == Progress(next, work.todo, R)
<1>1. /\ work.pc = "checkpoints"
      /\ UNCHANGED <<transactional, phase, memory, pending, tasks, failed>>
      /\ \/ checkpoints' = R /\ save' = [save EXCEPT ![Server][Slot] = NoSave]
         \/ ~transactional /\ checkpoints' = {}
            /\ save' = [save EXCEPT ![Server][Slot].pc = "insert checkpoints", ![Server][Slot].rows = R]
  BY DEF ReplaceCheckpoints, Ended, work
<1>2. /\ work \in Processes /\ phase[Server] \in {"up", "closing"}
      /\ work.todo \in SUBSET Tasks /\ work.pc # "idle"
  BY <1>1, InProgress DEF Processes
<1>3. /\ transactional' = transactional /\ phase' = phase /\ memory' = memory /\ pending' = pending
      /\ tasks' = tasks /\ failed' = failed /\ mem' = mem /\ RowsOfTasks' = RowsOfTasks
      /\ RowsOfHistory(Server)' = R /\ Stored' = Stored
  BY <1>1, MemoryKept DEF Stored
<1>4. /\ R \subseteq HistoryRows
      /\ \A q \in R : q.task \in DOMAIN mem /\ q.seq \in 1 .. Len(mem[q.task].history)
                      /\ q = Row(q.task, mem[q.task].history, q.seq)
  BY HistoryWritten DEF Inv
<1>5. Inv /\ Typed /\ Listed
  BY DEF Inv
<1>6. CASE checkpoints' = R /\ save' = [save EXCEPT ![Server][Slot] = NoSave]
  <2>1. work'.pc = "idle" /\ save' \in [Instances -> [Slots -> {NoSave} \cup Processes]]
    BY <1>6, SaveOver
  <2>2. Typed'
    <3>1. checkpoints' \subseteq HistoryRows
      BY <1>4, <1>6
    <3>2. work'.pc # "idle" => work'.todo \subseteq DOMAIN mem'
      BY <2>1
    <3>3. QED
      BY <1>3, <2>1, <3>1, <3>2 DEF Inv, Typed
  <2>3. work'.pc # "insert checkpoints"
    BY <2>1
  <2>4. Listed'
    BY <1>5, <1>6, <2>3, TableReplaced
  <2>5. transactional => \A q \in R : q.task \in DOMAIN mem /\ q.offset <= mem[q.task].offset
    <3>1. SUFFICES ASSUME transactional, NEW q \in R PROVE q.task \in DOMAIN mem /\ q.offset <= mem[q.task].offset
      OBVIOUS
    <3>2. \A u \in DOMAIN mem : \A n \in 1 .. Len(mem[u].history) : mem[u].history[n] <= mem[u].offset
      BY <1>2, <3>1 DEF Inv, Behind
    <3>3. q.offset = mem[q.task].history[q.seq]
      BY <1>4 DEF Row
    <3>4. QED
      BY <1>4, <3>2, <3>3
  <2>6. CheckpointsNotAheadOfTasks'
    <3>1. SUFFICES ASSUME transactional, NEW q \in R
                   PROVE  \E u \in tasks : u.task = q.task /\ q.offset <= u.offset
      BY <1>3, <1>6 DEF CheckpointsNotAheadOfTasks
    <3>2. tasks = RowsOfTasks
      BY <1>2, <3>1 DEF Inv, Behind
    <3>3. \A t \in DOMAIN mem : \E u \in RowsOfTasks : u.task = t /\ u.offset = mem[t].offset
      BY TasksWritten DEF Inv
    <3>4. q.task \in DOMAIN mem /\ q.offset <= mem[q.task].offset
      BY <2>5, <3>1
    <3> HIDE DEF R
    <3>5. QED
      BY <3>2, <3>3, <3>4
  <2>7. Behind'
    BY <1>2, <1>3, <1>6, <2>1, <2>5 DEF Inv, Behind
  <2>8. Written'
    <3>1. SUFFICES ASSUME phase[Server] = "up", ~pending[Server] PROVE Written'
      BY <1>3 DEF Written
    <3>2. mem' = Loaded'
      BY <1>1, <1>3, <1>5, <1>6, <2>2, <3>1, NothingForgotten
    <3>3. QED
      BY <2>1, <3>2 DEF Written
  <2>9. QED
    BY <2>2, <2>4, <2>6, <2>7, <2>8 DEF Inv
<1>7. CASE /\ ~transactional /\ checkpoints' = {}
           /\ save' = [save EXCEPT ![Server][Slot].pc = "insert checkpoints", ![Server][Slot].rows = R]
  <2>1. r \in Processes /\ r.pc = next /\ r.todo = work.todo /\ r.rows = R
    <3>1. next \in Stages /\ R \in SUBSET HistoryRows
      BY <1>4 DEF Stages
    <3> HIDE DEF R, next
    <3>2. QED
      BY <1>2, <3>1, InProgress
  <2>2. save' = [save EXCEPT ![Server][Slot] = r]
    <3> HIDE DEF R
    <3>1. r = [work EXCEPT !.pc = "insert checkpoints", !.rows = R]
      BY <1>2 DEF Processes, Progress
    <3>2. save' = [save EXCEPT ![Server][Slot] =
                     [save[Server][Slot] EXCEPT !.pc = "insert checkpoints", !.rows = R]]
      BY <1>7
    <3> HIDE DEF r
    <3>3. QED
      BY <3>1, <3>2 DEF work
  <2> HIDE DEF r
  <2>3. work' = r /\ save' \in [Instances -> [Slots -> {NoSave} \cup Processes]]
    BY <2>1, <2>2, SetSave DEF Inv
  <2>4. Typed'
    <3>1. checkpoints' \subseteq HistoryRows
      BY <1>7
    <3>2. work'.pc # "idle" => work'.todo \subseteq DOMAIN mem'
      BY <1>2, <1>3, <2>1, <2>3 DEF Inv, Typed
    <3>3. phase'[Server] \in {"stopped", "crashed"} => work'.pc = "idle"
      BY <1>2, <1>3
    <3>4. QED
      BY <1>3, <2>3, <3>1, <3>2, <3>3 DEF Inv, Typed
  <2>5. work'.pc = "insert checkpoints" /\ work'.rows = R
    BY <2>1, <2>3
  <2>6. Listed'
    BY <1>5, <1>7, <2>5, TableEmptied
  <2>7. CheckpointsNotAheadOfTasks' /\ Behind'
    BY <1>3, <1>7 DEF CheckpointsNotAheadOfTasks, Behind
  <2>8. Written'
    <3>1. SUFFICES ASSUME phase[Server] = "up", ~pending[Server] PROVE Written'
      BY <1>3 DEF Written
    <3>2. tasks = RowsOfTasks
      BY <1>1, <3>1 DEF Inv, Written
    <3>3. checkpoints' \cup work'.rows = RowsOfHistory(Server)'
      BY <1>3, <1>7, <2>5
    <3>4. QED
      BY <1>3, <2>5, <3>2, <3>3 DEF Written
  <2>9. QED
    BY <2>4, <2>6, <2>7, <2>8 DEF Inv
<1>8. QED
  BY <1>1, <1>6, <1>7

\* Inserting a checkpoint keeps the invariant.
LEMMA InsertCheckpointStep ==
  ASSUME OneSaveAtATime, Inv, NEW r \in CheckpointRows, InsertCheckpoint(Server, Slot, r)
  PROVE  Inv'
<1> DEFINE left == work.rows \ {r}
           stage == "insert checkpoints"
           w == Progress(stage, work.todo, left)
<1>1. /\ work.pc = "insert checkpoints" /\ r \in work.rows
      /\ \A q \in work.rows : q.task = r.task => r.seq <= q.seq
      /\ checkpoints' = checkpoints \cup {r}
      /\ UNCHANGED <<transactional, phase, memory, pending, tasks, failed>>
      /\ \/ work.rows = {r} /\ save' = [save EXCEPT ![Server][Slot] = NoSave]
         \/ save' = [save EXCEPT ![Server][Slot].rows = left]
  BY DEF InsertCheckpoint, Ended, work
<1>2. /\ work \in Processes /\ phase[Server] \in {"up", "closing"}
      /\ work.todo \in SUBSET Tasks /\ work.rows \in SUBSET HistoryRows
      /\ work.pc # "idle" /\ ~transactional
  BY <1>1, InProgress DEF Processes
<1>3. /\ transactional' = transactional /\ phase' = phase /\ memory' = memory /\ pending' = pending
      /\ tasks' = tasks /\ failed' = failed /\ mem' = mem /\ RowsOfTasks' = RowsOfTasks
      /\ RowsOfHistory(Server)' = RowsOfHistory(Server)
  BY <1>1, MemoryKept
<1>4. r \in HistoryRows /\ r.task \in Tasks
  BY <1>1, <1>2 DEF HistoryRows
<1>5. checkpoints' \subseteq HistoryRows
  BY <1>1, <1>4 DEF Inv, Typed
<1>6. CheckpointsNotAheadOfTasks' /\ Behind'
  BY <1>2, <1>3 DEF CheckpointsNotAheadOfTasks, Behind
<1>7. Inv /\ Typed /\ Listed
  BY DEF Inv
<1>8. CASE work.rows = {r} /\ save' = [save EXCEPT ![Server][Slot] = NoSave]
  <2>1. work'.pc = "idle" /\ save' \in [Instances -> [Slots -> {NoSave} \cup Processes]]
    BY <1>8, SaveOver
  <2>2. Typed'
    <3>1. work'.pc # "idle" => work'.todo \subseteq DOMAIN mem'
      BY <2>1
    <3>2. QED
      BY <1>3, <1>5, <2>1, <3>1 DEF Inv, Typed
  <2>3. work'.pc # "insert checkpoints"
    BY <2>1
  <2>4. Listed'
    BY <1>1, <1>4, <1>7, <1>8, <2>3, RowInserted
  <2>5. Written'
    <3>1. SUFFICES ASSUME phase[Server] = "up", ~pending[Server] PROVE Written'
      BY <1>3 DEF Written
    <3>2. checkpoints \cup work.rows = RowsOfHistory(Server)
      BY <1>1, <3>1 DEF Inv, Written
    <3>3. checkpoints' = RowsOfHistory(Server)
      BY <1>1, <1>8, <3>2
    <3>4. mem' = Loaded'
      BY <1>1, <1>3, <1>7, <2>2, <3>1, <3>3, NothingForgotten
    <3>5. QED
      BY <2>1, <3>4 DEF Written
  <2>6. QED
    BY <1>6, <2>2, <2>4, <2>5 DEF Inv
<1>9. CASE save' = [save EXCEPT ![Server][Slot].rows = left]
  <2>1. w \in Processes /\ w.pc = stage /\ w.todo = work.todo /\ w.rows = left
    <3>1. stage \in Stages /\ left \in SUBSET HistoryRows
      BY <1>2 DEF Stages
    <3> HIDE DEF left, stage
    <3>2. QED
      BY <1>2, <3>1, InProgress
  <2>2. save' = [save EXCEPT ![Server][Slot] = w]
    <3>1. stage = work.pc
      BY <1>1
    <3> HIDE DEF left, stage
    <3>2. w = [work EXCEPT !.rows = left]
      BY <1>2, <3>1 DEF Processes, Progress
    <3>3. save' = [save EXCEPT ![Server][Slot] = [save[Server][Slot] EXCEPT !.rows = left]]
      BY <1>9
    <3> HIDE DEF w
    <3>4. QED
      BY <3>2, <3>3 DEF work
  <2> HIDE DEF w
  <2>3. work' = w /\ save' \in [Instances -> [Slots -> {NoSave} \cup Processes]]
    BY <2>1, <2>2, SetSave DEF Inv
  <2>4. work'.pc = "insert checkpoints" /\ work'.rows = left /\ work'.todo = work.todo
    BY <2>1, <2>3
  <2>5. Typed'
    <3>1. work'.pc # "idle" => work'.todo \subseteq DOMAIN mem'
      BY <1>2, <1>3, <2>4 DEF Inv, Typed
    <3>2. phase'[Server] \in {"stopped", "crashed"} => work'.pc = "idle"
      BY <1>2, <1>3
    <3>3. QED
      BY <1>3, <1>5, <2>3, <3>1, <3>2 DEF Inv, Typed
  <2>6. Listed'
    BY <1>1, <1>4, <1>7, <2>4, RowInserted
  <2>7. Written'
    <3>1. SUFFICES ASSUME phase[Server] = "up", ~pending[Server] PROVE Written'
      BY <1>3 DEF Written
    <3>2. tasks = RowsOfTasks /\ checkpoints \cup work.rows = RowsOfHistory(Server)
      BY <1>1, <3>1 DEF Inv, Written
    <3>3. checkpoints' \cup work'.rows = RowsOfHistory(Server)'
      BY <1>1, <1>3, <2>4, <3>2
    <3>4. QED
      BY <1>3, <2>4, <3>2, <3>3 DEF Written
  <2>8. QED
    BY <1>6, <2>5, <2>6, <2>7 DEF Inv
<1>10. QED
  BY <1>1, <1>8, <1>9
-----------------------------------------------------------------------------
\* ----- failures, stopping and starting ------------------------------------

\* A failed statement keeps the invariant.
LEMMA FailStep ==
  ASSUME OneSaveAtATime, Inv, Fail(Server, Slot)
  PROVE  Inv'
<1>1. /\ save' = [save EXCEPT ![Server][Slot] = NoSave] /\ failed' = [failed EXCEPT ![Server] = TRUE]
      /\ UNCHANGED <<transactional, phase, memory, pending, tables>>
  BY DEF Fail
<1>2. work'.pc = "idle" /\ save' \in [Instances -> [Slots -> {NoSave} \cup Processes]]
  BY <1>1, SaveOver
<1>3. failed'[Server] = TRUE /\ failed' \in [Instances -> BOOLEAN]
  BY <1>1, OfTheServer DEF Inv
<1>4. /\ transactional' = transactional /\ phase' = phase /\ memory' = memory /\ pending' = pending
      /\ tasks' = tasks /\ checkpoints' = checkpoints /\ mem' = mem /\ Stored' = Stored
  BY <1>1, MemoryKept, TablesKept
<1>5. Typed'
  BY <1>2, <1>3, <1>4 DEF Inv, Typed
<1>6. work'.pc # "insert checkpoints"
  BY <1>2
<1>7. Listed'
  BY <1>4, <1>6, TableKept DEF Inv
<1>8. CheckpointsNotAheadOfTasks'
  BY <1>4 DEF Inv, CheckpointsNotAheadOfTasks
<1>9. Behind'
  BY <1>2, <1>4 DEF Inv, Behind
<1>10. Written'
  BY <1>2, <1>3 DEF Written
<1>11. QED
  BY <1>5, <1>7, <1>8, <1>9, <1>10 DEF Inv

\* A save that fails to begin keeps the invariant.
LEMMA FailToBeginStep ==
  ASSUME OneSaveAtATime, Inv, FailToBegin(Server)
  PROVE  Inv'
<1>1. /\ transactional /\ Free(Server)
      /\ pending' = [pending EXCEPT ![Server] = FALSE] /\ failed' = [failed EXCEPT ![Server] = TRUE]
      /\ UNCHANGED <<transactional, phase, memory, save, tables>>
  BY DEF FailToBegin
<1>2. /\ failed'[Server] = TRUE /\ failed' \in [Instances -> BOOLEAN]
      /\ pending' \in [Instances -> BOOLEAN]
  BY <1>1, OfTheServer DEF Inv
<1>3. /\ transactional' = transactional /\ phase' = phase /\ memory' = memory /\ save' = save
      /\ tasks' = tasks /\ checkpoints' = checkpoints /\ mem' = mem /\ Stored' = Stored
      /\ RowsOfTasks' = RowsOfTasks /\ work' = work
  BY <1>1, MemoryKept, TablesKept DEF work
<1>4. work.pc = "idle"
  BY <1>1, Idle DEF Inv
<1>5. Typed'
  BY <1>2, <1>3 DEF Inv, Typed
<1>6. Listed'
  BY <1>3 DEF Inv, Listed, Part
<1>7. CheckpointsNotAheadOfTasks'
  BY <1>3 DEF Inv, CheckpointsNotAheadOfTasks
<1>8. Behind'
  BY <1>3 DEF Inv, Behind
<1>9. Written'
  BY <1>2, <1>3, <1>4 DEF Written
<1>10. QED
  BY <1>5, <1>6, <1>7, <1>8, <1>9 DEF Inv

\* The process is gone, stopped or crashed; its memory no longer matters.
LEMMA ProcessEnds ==
  ASSUME OneSaveAtATime, Inv, NEW p \in {"stopped", "crashed"},
         phase' = [phase EXCEPT ![Server] = p], save' = NothingRuns(Server),
         pending' \in [Instances -> BOOLEAN], failed' = failed,
         \E D \in SUBSET Tasks : memory' \in [Instances -> [D -> TaskStates]],
         UNCHANGED <<transactional, tables>>
  PROVE  Inv'
<1>1. Server \in Instances /\ Slot \in Slots
  BY OnlyServer
<1>2. phase'[Server] = p /\ phase' \in [Instances -> {"up", "closing", "stopped", "crashed"}]
  BY <1>1 DEF Inv, Typed
<1>3. work' = NoSave /\ save' \in [Instances -> [Slots -> {NoSave} \cup Processes]]
  <2> DEFINE none == [s \in Slots |-> NoSave]
  <2>1. none \in [Slots -> {NoSave} \cup Processes] /\ none[Slot] = NoSave
    BY <1>1
  <2>2. save' = [save EXCEPT ![Server] = none]
    BY DEF NothingRuns
  <2> HIDE DEF none
  <2>3. save'[Server] = none /\ save' \in [Instances -> [Slots -> {NoSave} \cup Processes]]
    BY <1>1, <2>1, <2>2 DEF Inv, Typed
  <2>4. QED
    BY <2>1, <2>3 DEF work
<1>4. work'.pc = "idle"
  BY <1>3, Idle DEF Inv
<1>5. transactional' = transactional /\ tasks' = tasks /\ checkpoints' = checkpoints
  BY TablesKept
<1>6. Typed'
  BY <1>2, <1>3, <1>4, <1>5 DEF Inv, Typed
<1>7. work'.pc # "insert checkpoints"
  BY <1>4
<1>8. Listed'
  BY <1>5, <1>7, TableKept DEF Inv
<1>9. CheckpointsNotAheadOfTasks'
  BY <1>5 DEF Inv, CheckpointsNotAheadOfTasks
<1>10. Behind' /\ Written'
  BY <1>2 DEF Behind, Written
<1>11. QED
  BY <1>6, <1>8, <1>9, <1>10 DEF Inv

\* The exit keeps the invariant.
LEMMA ExitStep ==
  ASSUME OneSaveAtATime, Inv, Exit(Server)
  PROVE  Inv'
<1>1. /\ phase' = [phase EXCEPT ![Server] = "stopped"] /\ save' = NothingRuns(Server)
      /\ UNCHANGED <<transactional, tables>> /\ pending' = pending /\ failed' = failed
      /\ memory' = memory
  BY DEF Exit
<1>2. /\ pending' \in [Instances -> BOOLEAN]
      /\ \E D \in SUBSET Tasks : memory' \in [Instances -> [D -> TaskStates]]
  BY <1>1 DEF Inv, Typed
<1>3. QED
  BY <1>1, <1>2, ProcessEnds

\* A crash keeps the invariant: the tables are what counts then.
LEMMA CrashStep ==
  ASSUME OneSaveAtATime, Inv, Crash(Server)
  PROVE  Inv'
<1>1. /\ phase' = [phase EXCEPT ![Server] = "crashed"] /\ save' = NothingRuns(Server)
      /\ UNCHANGED <<transactional, tables>> /\ failed' = failed
      /\ pending' = [pending EXCEPT ![Server] = FALSE] /\ memory' = [memory EXCEPT ![Server] = <<>>]
  BY DEF Crash
<1>2. pending' \in [Instances -> BOOLEAN]
  BY <1>1, OfTheServer DEF Inv
<1>3. <<>> \in [{} -> TaskStates]
  OBVIOUS
<1>4. \A m \in [{} -> TaskStates] : memory' = [memory EXCEPT ![Server] = m] =>
        \E D \in SUBSET Tasks : memory' \in [Instances -> [D -> TaskStates]]
  BY SetMemory DEF Inv
<1>5. \E D \in SUBSET Tasks : memory' \in [Instances -> [D -> TaskStates]]
  BY <1>1, <1>3, <1>4
<1>6. QED
  BY <1>1, <1>2, <1>5, ProcessEnds

\* What a process started now would have read.
LEMMA WhatIsLoaded ==
  ASSUME Typed, Listed
  PROVE  /\ Stored \in SUBSET Tasks /\ Loaded \in [Stored -> TaskStates]
         /\ \A q \in tasks : /\ Loaded[q.task].offset = q.offset
                             /\ Part(checkpoints, q.task) =
                                  First(q.task, Loaded[q.task].history, Len(Loaded[q.task].history))
<1>1. \A q \in tasks : q.task \in Tasks /\ q.offset \in Nat /\ q.task \in Stored
  BY DEF Typed, TaskRows, Stored
<1>2. ASSUME NEW q \in tasks
      PROVE  /\ LoadedTask(q.task) \in TaskStates /\ LoadedTask(q.task).offset = q.offset
             /\ Part(checkpoints, q.task) =
                  First(q.task, LoadedTask(q.task).history, Len(LoadedTask(q.task).history))
  <2>1. PICK list \in Lists : Part(checkpoints, q.task) = First(q.task, list, Len(list))
    BY <1>1, ListsInTable
  <2>2. LoadedTask(q.task) = [offset |-> q.offset, history |-> list]
    BY <2>1, TaskLoaded
  <2>3. [offset |-> q.offset, history |-> list] \in TaskStates
    BY <1>1 DEF TaskStates
  <2>4. QED
    BY <2>1, <2>2, <2>3
<1>3. \A t \in Stored : \E q \in tasks : q.task = t
  BY DEF Stored
<1>4. \A t \in Stored : Loaded[t] = LoadedTask(t)
  BY DEF Loaded
<1>5. Loaded \in [Stored -> TaskStates]
  BY <1>2, <1>3 DEF Loaded
<1>6. QED
  BY <1>1, <1>2, <1>3, <1>4, <1>5

\* A start keeps the invariant: it loads what the tables hold.
LEMMA StartStep ==
  ASSUME OneSaveAtATime, Inv, Start(Server)
  PROVE  Inv'
<1>1. /\ phase[Server] \in {"stopped", "crashed"} /\ phase' = [phase EXCEPT ![Server] = "up"]
      /\ memory' = [memory EXCEPT ![Server] = Loaded]
      /\ pending' = [pending EXCEPT ![Server] = FALSE] /\ failed' = [failed EXCEPT ![Server] = FALSE]
      /\ UNCHANGED <<transactional, save, tables>>
  BY DEF Start
<1>2. /\ Stored \in SUBSET Tasks /\ Loaded \in [Stored -> TaskStates]
      /\ \A q \in tasks : /\ Loaded[q.task].offset = q.offset
                          /\ Part(checkpoints, q.task) =
                               First(q.task, Loaded[q.task].history, Len(Loaded[q.task].history))
  BY WhatIsLoaded DEF Inv
<1>3. mem' = Loaded /\ \E D \in SUBSET Tasks : memory' \in [Instances -> [D -> TaskStates]]
  <2> HIDE DEF Loaded
  <2>1. QED
    BY <1>1, <1>2, SetMemory DEF Inv
<1>4. /\ transactional' = transactional /\ save' = save /\ work' = work
      /\ tasks' = tasks /\ checkpoints' = checkpoints /\ Stored' = Stored /\ Loaded' = Loaded
  BY <1>1, TablesKept DEF work
<1>5. /\ phase' \in [Instances -> {"up", "closing", "stopped", "crashed"}] /\ phase'[Server] = "up"
      /\ pending' \in [Instances -> BOOLEAN] /\ failed' \in [Instances -> BOOLEAN]
  <2>1. phase'[Server] = "up" /\ pending' \in [Instances -> BOOLEAN] /\ failed' \in [Instances -> BOOLEAN]
    BY <1>1, OfTheServer DEF Inv
  <2>2. phase' \in [Instances -> {"up", "closing", "stopped", "crashed"}]
    BY <1>1 DEF Inv, Typed
  <2>3. QED
    BY <2>1, <2>2
<1>6. work.pc = "idle"
  BY <1>1 DEF Inv, Typed
<1>7. Typed'
  BY <1>3, <1>4, <1>5, <1>6 DEF Inv, Typed
<1>8. Listed'
  BY <1>4 DEF Inv, Listed, Part
<1>9. CheckpointsNotAheadOfTasks'
  BY <1>4 DEF Inv, CheckpointsNotAheadOfTasks
<1>10. Behind'
  <2>1. SUFFICES ASSUME transactional PROVE Behind'
    BY <1>4 DEF Behind
  <2>2. \A r \in checkpoints : \E q \in tasks : q.task = r.task /\ r.offset <= q.offset
    BY <2>1 DEF Inv, CheckpointsNotAheadOfTasks
  <2>3. \A r \in checkpoints : r.task \in Stored /\ r.offset <= Loaded[r.task].offset
    BY <1>2, <2>2 DEF Stored
  <2>4. ASSUME NEW t \in Stored, NEW n \in 1 .. Len(Loaded[t].history)
        PROVE  Loaded[t].history[n] <= Loaded[t].offset
    <3>1. PICK q \in tasks : q.task = t
      BY DEF Stored
    <3>2. Row(t, Loaded[t].history, n) \in Part(checkpoints, t)
      BY <1>2, <3>1 DEF First
    <3>3. /\ Row(t, Loaded[t].history, n) \in checkpoints
          /\ Row(t, Loaded[t].history, n).task = t
          /\ Row(t, Loaded[t].history, n).offset = Loaded[t].history[n]
      BY <3>2 DEF Part, Row
    <3>4. QED
      BY <2>3, <3>3
  <2>5. DOMAIN Loaded = Stored
    BY <1>2
  <2>6. QED
    BY <1>3, <1>4, <1>6, <2>3, <2>4, <2>5 DEF Behind
<1>11. Written'
  BY <1>3, <1>4, <1>6 DEF Written
<1>12. QED
  BY <1>7, <1>8, <1>9, <1>10, <1>11 DEF Inv

-----------------------------------------------------------------------------
\* ----- the theorems -------------------------------------------------------

\* The invariant holds at first.
LEMMA InvInit ==
  ASSUME OneSaveAtATime, Init
  PROVE  Inv
<1>1. /\ phase[Server] = "up" /\ pending[Server] = FALSE /\ mem = <<>> /\ work = NoSave
      /\ work.pc = "idle" /\ tasks = {} /\ checkpoints = {}
  BY OnlyServer DEF Init, mem, work, NoSave
<1>2. <<>> \in [{} -> TaskStates] /\ DOMAIN <<>> = {}
  OBVIOUS
<1>3. Typed
  <2>1. \A m \in [{} -> TaskStates] : memory = [i \in Instances |-> m] =>
          memory \in [Instances -> [{} -> TaskStates]]
    OBVIOUS
  <2>2. memory \in [Instances -> [{} -> TaskStates]] /\ {} \in SUBSET Tasks
    BY <1>2, <2>1 DEF Init
  <2>3. save \in [Instances -> [Slots -> {NoSave} \cup Processes]]
    BY DEF Init
  <2>4. /\ pending \in [Instances -> BOOLEAN] /\ failed \in [Instances -> BOOLEAN]
        /\ phase \in [Instances -> {"up", "closing", "stopped", "crashed"}] /\ transactional \in BOOLEAN
    BY DEF Init
  <2>5. QED
    BY <1>1, <2>2, <2>3, <2>4 DEF Typed
<1>4. Listed
  <2>1. <<>> \in Lists /\ Len(<<>>) = 0
    BY BoundsAssumption DEF Lists
  <2>2. \A t : Part(checkpoints, t) = {} /\ First(t, <<>>, 0) = {}
    BY <1>1, NoRows DEF Part
  <2>3. \A t : \E list \in Lists : Len(list) \in 0 .. Len(list) /\ Part(checkpoints, t) = First(t, list, Len(list))
    BY <2>1, <2>2, OfLists
  <2>4. QED
    BY <1>1, <2>3 DEF Listed
<1>5. CheckpointsNotAheadOfTasks
  BY <1>1 DEF CheckpointsNotAheadOfTasks
<1>6. Stored = {}
  BY <1>1 DEF Stored
<1>7. Behind
  <2>1. DOMAIN mem = {}
    BY <1>1, <1>2
  <2>2. QED
    BY <1>1, <1>6, <2>1 DEF Behind
<1>8. Written
  <2>1. mem \in [{} -> TaskStates]
    BY <1>1, <1>2
  <2>2. mem = [t \in {} |-> LoadedTask(t)]
    BY <2>1
  <2>3. mem = Loaded
    BY <1>6, <2>2 DEF Loaded
  <2>4. QED
    BY <1>1, <2>3 DEF Written
<1>9. QED
  BY <1>3, <1>4, <1>5, <1>7, <1>8 DEF Inv

\* Every step keeps the invariant.
LEMMA InvStep ==
  ASSUME OneSaveAtATime, Inv, [Next]_vars
  PROVE  Inv'
<1>1. Server \in Instances /\ \A i \in Instances : i = Server
  BY OnlyServer
<1>2. \A s \in Slots : s = Slot
  BY OnlyServer
<1>3. CASE Next
  <2>1. PICK i \in Instances :
          \/ \E t \in Tasks : createTask(i, t) \/ transition(i, t) \/ saveCheckpoint(i, t)
          \/ \E s \in Slots : TimerFires(i, s) \/ SaveStep(i, s) \/ Fail(i, s)
          \/ FailToBegin(i)
          \/ Shutdown(i) \/ Exit(i) \/ Crash(i) \/ Start(i)
    BY <1>3 DEF Next
  <2>2. i = Server
    BY <1>1
  <2>3. CASE \E t \in Tasks : createTask(i, t) \/ transition(i, t) \/ saveCheckpoint(i, t)
    BY <2>2, <2>3, CreateTaskStep, TransitionStep, SaveCheckpointStep
  <2>4. CASE \E s \in Slots : TimerFires(i, s) \/ SaveStep(i, s) \/ Fail(i, s)
    <3>1. TimerFires(Server, Slot) \/ SaveStep(Server, Slot) \/ Fail(Server, Slot)
      BY <1>2, <2>2, <2>4
    <3>2. ASSUME SaveStep(Server, Slot) PROVE Inv'
      BY <3>2, DeleteTasksStep, InsertTaskStep, ReplaceCheckpointsStep, InsertCheckpointStep DEF SaveStep
    <3>3. QED
      BY <3>1, <3>2, TimerFiresStep, FailStep
  <2>5. CASE FailToBegin(i) \/ Shutdown(i) \/ Exit(i) \/ Crash(i) \/ Start(i)
    BY <2>2, <2>5, FailToBeginStep, ShutdownStep, ExitStep, CrashStep, StartStep
  <2>6. QED
    BY <2>1, <2>3, <2>4, <2>5
<1>4. CASE UNCHANGED vars
  <2>1. /\ transactional' = transactional /\ phase' = phase /\ memory' = memory /\ pending' = pending
        /\ save' = save /\ UNCHANGED tables /\ failed' = failed
    BY <1>4 DEF vars
  <2>2. /\ mem' = mem /\ RowsOfTasks' = RowsOfTasks /\ RowsOfHistory(Server)' = RowsOfHistory(Server)
        /\ work' = work /\ tasks' = tasks /\ checkpoints' = checkpoints
        /\ Loaded' = Loaded /\ Stored' = Stored
    BY <2>1, MemoryKept, TablesKept DEF work
  <2>3. Typed'
    BY <2>1, <2>2 DEF Inv, Typed
  <2>4. Listed'
    BY <2>2 DEF Inv, Listed, Part
  <2>5. CheckpointsNotAheadOfTasks' /\ Behind'
    BY <2>1, <2>2 DEF Inv, Behind, CheckpointsNotAheadOfTasks
  <2>6. Written'
    <3>1. {RowOf(Server, t) : t \in DOMAIN mem \ work.todo}' = {RowOf(Server, t) : t \in DOMAIN mem \ work.todo}
      BY <2>1, <2>2 DEF RowOf
    <3>2. QED
      BY <2>1, <2>2, <3>1 DEF Inv, Written
  <2>7. QED
    BY <2>3, <2>4, <2>5, <2>6 DEF Inv
<1>5. QED
  BY <1>3, <1>4

\* For one process on the database whose saves do not overlap, on SQLite and
\* on Postgres: the rows of a task are its list of checkpoints or the
\* beginning of it, the tables are never ahead of the memory on SQLite, and
\* what a save has written and is going to write is the memory, whatever
\* failed, stopped or crashed.
THEOREM InvCorrect ==
  ASSUME OneSaveAtATime
  PROVE  Spec => []Inv
<1>1. Init => Inv
  BY InvInit
<1>2. Inv /\ [Next]_vars => Inv'
  BY InvStep
<1>3. QED
  BY <1>1, <1>2, PTL DEF Spec

\* On SQLite a process started now finds no checkpoint beyond the offset its
\* task was saved with: the two transactions of a save, and the failures
\* between them, leave the tables in that order.
THEOREM OrderCorrect ==
  ASSUME OneSaveAtATime
  PROVE  Spec => []CheckpointsNotAheadOfTasks
<1>1. Inv => CheckpointsNotAheadOfTasks
  BY DEF Inv
<1>2. QED
  BY <1>1, InvCorrect, PTL

\* When no change is noted, and no save runs or has failed, the tables hold
\* the memory of the process: the debounced save forgets nothing that changes
\* while it runs.
THEOREM NothingForgottenCorrect ==
  ASSUME OneSaveAtATime
  PROVE  Spec => []NoChangeForgotten
<1>1. Inv => NoChangeForgotten
  <2>1. SUFFICES ASSUME Inv, phase[Server] = "up", ~pending[Server], ~failed[Server], ~Running(Server, Slot)
                 PROVE  memory[Server] = Loaded
    BY OnlyServer DEF NoChangeForgotten
  <2>2. QED
    BY <2>1, OnlyServer DEF Inv, Written, mem
<1>2. QED
  BY <1>1, InvCorrect, PTL

-----------------------------------------------------------------------------
\* ----- the table as a register --------------------------------------------

\* The tasks the memory stands for: its own, or what a new process would read.
Alive == IF phase[Server] \in {"stopped", "crashed"} THEN Stored ELSE DOMAIN mem

\* A step of SQLite: a task is created, the table becomes the memory, nothing
\* changes, or the memory goes back to the table.
LEMMA StepOfTable ==
  ASSUME OneSaveAtATime, Inv, transactional, Next
  PROVE  \/ Stored' = Stored /\ \E t : t \notin Alive /\ Alive' = Alive \cup {t}
         \/ Stored' = Alive /\ Alive' = Alive
         \/ Stored' = Stored /\ Alive' = Alive
         \/ Stored' = Stored /\ Alive' = Stored
<1> DEFINE Goal == \/ Stored' = Stored /\ \E t : t \notin Alive /\ Alive' = Alive \cup {t}
                   \/ Stored' = Alive /\ Alive' = Alive
                   \/ Stored' = Stored /\ Alive' = Alive
                   \/ Stored' = Stored /\ Alive' = Stored
<1>1. Server \in Instances /\ \A i \in Instances : i = Server
  BY OnlyServer
<1>2. \A s \in Slots : s = Slot
  BY OnlyServer
<1>3. phase[Server] \in {"up", "closing"} => Alive = DOMAIN mem
  BY DEF Alive
<1>4. Free(Server) => phase[Server] = "up"
  BY DEF Free
<1>5. ASSUME phase' = phase, mem' = mem, UNCHANGED tables PROVE Goal
  BY <1>5, TablesKept DEF Alive
<1>6. ASSUME Free(Server), NEW wait \in BOOLEAN, Begin(Server, Slot, wait), mem' = mem,
             phase'[Server] \in {"up", "closing"}
      PROVE  Goal
  <2>1. tasks' = RowsOfTasks
    BY <1>6, Begins
  <2>2. Stored' = DOMAIN mem
    <3>1. /\ \A t \in DOMAIN mem : \E r \in RowsOfTasks : r.task = t
          /\ \A r \in RowsOfTasks : r.task \in DOMAIN mem
      BY TasksWritten DEF Inv
    <3>2. Stored' = {r.task : r \in RowsOfTasks}
      BY <2>1 DEF Stored
    <3>3. QED
      BY <3>1, <3>2
  <2>3. Alive = DOMAIN mem /\ Alive' = DOMAIN mem
    BY <1>3, <1>4, <1>6 DEF Alive
  <2>4. QED
    BY <2>2, <2>3
<1>7. ASSUME NEW t \in Tasks, createTask(Server, t) PROVE Goal
  <2>1. /\ t \notin DOMAIN mem /\ Free(Server) /\ phase' = phase /\ UNCHANGED tables
        /\ memory' = [memory EXCEPT ![Server] = [u \in DOMAIN mem \cup {t} |-> IF u = t THEN NewTask ELSE mem[u]]]
    BY <1>1, <1>7 DEF createTask, Known, mem
  <2>2. DOMAIN mem' = DOMAIN mem \cup {t}
    BY <1>1, <2>1 DEF mem, Inv, Typed
  <2>3. Alive = DOMAIN mem /\ Alive' = DOMAIN mem \cup {t}
    BY <1>4, <2>1, <2>2 DEF Alive
  <2>4. QED
    BY <2>1, <2>3, TablesKept
<1>8. ASSUME NEW t \in Tasks, saveCheckpoint(Server, t) PROVE Goal
  <2> DEFINE r == [offset |-> memory[Server][t].offset + 1,
                   history |-> KeepLatest(Append(memory[Server][t].history, memory[Server][t].offset + 1))]
  <2>1. /\ Free(Server) /\ phase' = phase /\ UNCHANGED tables
        /\ memory' = [memory EXCEPT ![Server][t] = r]
    BY <1>8 DEF saveCheckpoint
  <2> HIDE DEF r
  <2>2. DOMAIN mem' = DOMAIN mem
    BY <1>1, <2>1 DEF mem, Inv, Typed
  <2>3. Alive = DOMAIN mem /\ Alive' = DOMAIN mem
    BY <1>4, <2>1, <2>2 DEF Alive
  <2>4. QED
    BY <2>1, <2>3, TablesKept
<1>9. ASSUME Shutdown(Server) PROVE Goal
  <2>1. /\ Free(Server) /\ phase'[Server] = "closing" /\ mem' = mem /\ checkpoints' = checkpoints
        /\ \/ \E s \in Slots : Begin(Server, s, TRUE)
           \/ tasks' = tasks
    BY <1>9, OfTheServer, MemoryKept DEF Shutdown, Inv
  <2>2. CASE \E s \in Slots : Begin(Server, s, TRUE)
    BY <1>2, <1>6, <2>1, <2>2
  <2>3. CASE tasks' = tasks
    <3>1. Stored' = Stored
      BY <2>3 DEF Stored
    <3>2. Alive = DOMAIN mem /\ Alive' = DOMAIN mem
      BY <1>3, <1>4, <2>1 DEF Alive
    <3>3. QED
      BY <3>1, <3>2
  <2>4. QED
    BY <2>1, <2>2, <2>3
<1>10. ASSUME UNCHANGED tables, phase'[Server] \in {"stopped", "crashed"} PROVE Goal
  BY <1>10, TablesKept DEF Alive
<1>11. ASSUME Start(Server) PROVE Goal
  <2>1. /\ phase[Server] \in {"stopped", "crashed"} /\ phase'[Server] = "up" /\ UNCHANGED tables
        /\ memory' = [memory EXCEPT ![Server] = Loaded]
    BY <1>11, OfTheServer DEF Start, Inv
  <2>2. DOMAIN mem' = Stored
    <3>1. Stored \in SUBSET Tasks /\ Loaded \in [Stored -> TaskStates]
      BY WhatIsLoaded DEF Inv
    <3> HIDE DEF Loaded
    <3>2. mem' = Loaded
      BY <2>1, <3>1, SetMemory DEF Inv
    <3>3. QED
      BY <3>1, <3>2
  <2>3. Alive = Stored /\ Alive' = Stored
    BY <2>1, <2>2 DEF Alive
  <2>4. QED
    BY <2>1, <2>3, TablesKept
<1>12. ASSUME ReplaceCheckpoints(Server, Slot) PROVE Goal
  <2>1. phase' = phase /\ mem' = mem /\ Stored' = Stored
    BY <1>12, MemoryKept DEF ReplaceCheckpoints, Stored
  <2>2. QED
    BY <2>1 DEF Alive
<1>13. ~DeleteTasks(Server, Slot) /\ (\A t \in Tasks : ~InsertTask(Server, Slot, t))
       /\ (\A r \in CheckpointRows : ~InsertCheckpoint(Server, Slot, r))
  <2>1. work.pc # "idle" => work.pc = "checkpoints"
    BY InProgress
  <2>2. QED
    BY <2>1 DEF DeleteTasks, InsertTask, InsertCheckpoint, work
<1>14. ASSUME TimerFires(Server, Slot) PROVE Goal
  <2>1. Free(Server) /\ Begin(Server, Slot, FALSE) /\ mem' = mem /\ phase'[Server] = "up"
    BY <1>4, <1>14, MemoryKept DEF TimerFires
  <2>2. QED
    BY <1>6, <2>1
<1>15. ASSUME Exit(Server) \/ Crash(Server) PROVE Goal
  <2>1. UNCHANGED tables /\ phase'[Server] \in {"stopped", "crashed"}
    BY <1>15, OfTheServer DEF Exit, Crash, Inv
  <2>2. QED
    BY <1>10, <2>1
<1>16. ASSUME Fail(Server, Slot) \/ FailToBegin(Server) \/ \E t \in Tasks : transition(Server, t) PROVE Goal
  <2>1. phase' = phase /\ mem' = mem /\ UNCHANGED tables
    BY <1>16, MemoryKept DEF Fail, FailToBegin, transition
  <2>2. QED
    BY <1>5, <2>1
<1> HIDE DEF Goal
<1>17. Goal
  <2>1. PICK i \in Instances :
          \/ \E t \in Tasks : createTask(i, t) \/ transition(i, t) \/ saveCheckpoint(i, t)
          \/ \E s \in Slots : TimerFires(i, s) \/ SaveStep(i, s) \/ Fail(i, s)
          \/ FailToBegin(i)
          \/ Shutdown(i) \/ Exit(i) \/ Crash(i) \/ Start(i)
    BY DEF Next
  <2>2. i = Server
    BY <1>1
  <2>3. CASE \E t \in Tasks : createTask(i, t) \/ transition(i, t) \/ saveCheckpoint(i, t)
    BY <1>7, <1>8, <1>16, <2>2, <2>3
  <2>4. CASE \E s \in Slots : TimerFires(i, s) \/ SaveStep(i, s) \/ Fail(i, s)
    <3>1. TimerFires(Server, Slot) \/ SaveStep(Server, Slot) \/ Fail(Server, Slot)
      BY <1>2, <2>2, <2>4
    <3>2. SaveStep(Server, Slot) => ReplaceCheckpoints(Server, Slot)
      BY <1>13 DEF SaveStep
    <3>3. QED
      BY <1>12, <1>14, <1>16, <3>1, <3>2
  <2>5. CASE FailToBegin(i) \/ Shutdown(i) \/ Exit(i) \/ Crash(i) \/ Start(i)
    BY <1>9, <1>11, <1>15, <1>16, <2>2, <2>5
  <2>6. QED
    BY <2>1, <2>3, <2>4, <2>5
<1>18. QED
  BY <1>17 DEF Goal

Counted == transactional => IsFiniteSet(Alive) /\ IsFiniteSet(Stored)

\* At first there are no tasks.
LEMMA CountedInit ==
  ASSUME OneSaveAtATime, Init
  PROVE  Counted
<1>1. Stored = {}
  BY DEF Init, Stored
<1>2. mem = <<>> /\ phase[Server] = "up" /\ DOMAIN <<>> = {}
  BY OnlyServer DEF Init, mem
<1>3. Alive = {}
  BY <1>2 DEF Alive
<1>4. QED
  BY <1>1, <1>3, FS_EmptySet DEF Counted

\* A step leaves finitely many tasks in the memory and in the tables.
LEMMA CountedStep ==
  ASSUME OneSaveAtATime, Inv, Counted, [Next]_vars
  PROVE  Counted' /\ transactional' = transactional
<1>1. transactional' = transactional
  <2> DEFINE Same == transactional' = transactional
  <2>1. \A i \in Instances : \A t \in Tasks : createTask(i, t) \/ transition(i, t) \/ saveCheckpoint(i, t) => Same
    BY DEF createTask, transition, saveCheckpoint
  <2>2. \A i \in Instances : \A s \in Slots : TimerFires(i, s) \/ Fail(i, s) => Same
    BY DEF TimerFires, Fail
  <2>3. \A i \in Instances : \A s \in Slots : SaveStep(i, s) => Same
    <3>1. SUFFICES ASSUME NEW i \in Instances, NEW s \in Slots, SaveStep(i, s) PROVE Same
      OBVIOUS
    <3>2. DeleteTasks(i, s) => Same
      BY DEF DeleteTasks
    <3>3. \A t \in Tasks : InsertTask(i, s, t) => Same
      BY DEF InsertTask
    <3>4. ReplaceCheckpoints(i, s) => Same
      BY DEF ReplaceCheckpoints
    <3>5. \A r \in CheckpointRows : InsertCheckpoint(i, s, r) => Same
      BY DEF InsertCheckpoint
    <3> HIDE DEF Same
    <3>6. QED
      BY <3>1, <3>2, <3>3, <3>4, <3>5 DEF SaveStep
  <2>4. \A i \in Instances : FailToBegin(i) \/ Shutdown(i) \/ Exit(i) \/ Crash(i) \/ Start(i) => Same
    BY DEF FailToBegin, Shutdown, Exit, Crash, Start
  <2>5. UNCHANGED vars => Same
    BY DEF vars
  <2> HIDE DEF Same
  <2>6. Same
    BY <2>1, <2>2, <2>3, <2>4, <2>5 DEF Next
  <2>7. QED
    BY <2>6 DEF Same
<1>2. SUFFICES ASSUME transactional PROVE IsFiniteSet(Alive') /\ IsFiniteSet(Stored')
  BY <1>1 DEF Counted
<1>3. IsFiniteSet(Alive) /\ IsFiniteSet(Stored)
  BY <1>2 DEF Counted
<1>4. CASE UNCHANGED vars
  <2>1. phase' = phase /\ memory' = memory /\ tasks' = tasks
    BY <1>4 DEF vars, tables
  <2>2. Stored' = Stored /\ mem' = mem
    BY <2>1 DEF Stored, mem
  <2>3. Alive' = Alive
    BY <2>1, <2>2 DEF Alive
  <2>4. QED
    BY <1>3, <2>2, <2>3
<1>5. CASE Next
  <2>1. \A t : IsFiniteSet(Alive \cup {t})
    BY <1>3, FS_AddElement
  <2>2. QED
    BY <1>2, <1>3, <1>5, <2>1, StepOfTable
<1>6. QED
  BY <1>4, <1>5

\* On SQLite the tasks of a single process are the register of
\* SnapshotRegister: creating one counts the memory up, the first transaction
\* of a save publishes it, and a process that ends goes back to the table.
THEOREM RegisterImplemented ==
  ASSUME OneSaveAtATime
  PROVE  Spec => ImplementsRegister
<1> DEFINE live == IF ~transactional THEN 0 ELSE Cardinality(Alive)
           disk == IF ~transactional THEN 0 ELSE Cardinality(Stored)
<1>1. Init /\ Counted => Register!Init
  <2>1. SUFFICES ASSUME Init PROVE live = 0 /\ disk = 0
    BY DEF Register!Init, Alive, mem, Server
  <2>2. Stored = {}
    BY <2>1 DEF Init, Stored
  <2>3. mem = <<>> /\ phase[Server] = "up" /\ DOMAIN <<>> = {}
    BY <2>1, OnlyServer DEF Init, mem
  <2>4. Alive = {}
    BY <2>3 DEF Alive
  <2>5. QED
    BY <2>2, <2>4, FS_EmptySet
<1>2. ASSUME Inv, Counted, [Next]_vars PROVE [Register!Next]_(Register!vars)
  <2>1. transactional' = transactional /\ Counted'
    BY <1>2, CountedStep
  <2>2. ASSUME live' = live, disk' = disk PROVE UNCHANGED Register!vars
    BY <2>2 DEF Register!vars, Alive, mem, Server
  <2>3. ASSUME live' = live + 1, disk' = disk PROVE Register!Change
    BY <2>3 DEF Register!Change, Alive, mem, Server
  <2>4. ASSUME live' = disk, disk' = disk PROVE Register!Crash
    BY <2>4 DEF Register!Crash, Alive, mem, Server
  <2>5. ASSUME live' = live, disk' \in disk + 1 .. live PROVE Register!Publish(disk')
    BY <2>5 DEF Register!Publish, Alive, mem, Server
  <2>6. CASE UNCHANGED vars
    <3>1. Alive' = Alive /\ Stored' = Stored
      BY <2>6 DEF vars, tables, Alive, Stored, mem
    <3>2. QED
      BY <2>1, <2>2, <3>1
  <2>7. CASE Next /\ ~transactional
    BY <2>1, <2>2, <2>7
  <2>8. CASE Next /\ transactional
    <3>1. /\ live = Cardinality(Alive) /\ live' = Cardinality(Alive')
          /\ disk = Cardinality(Stored) /\ disk' = Cardinality(Stored')
      BY <2>1, <2>8
    <3>2. IsFiniteSet(Alive) /\ IsFiniteSet(Stored)
      BY <1>2, <2>8 DEF Counted
    <3>3. live \in Nat /\ disk \in Nat
      BY <3>1, <3>2, FS_CardinalityType
    <3>4. Stored \subseteq Alive
      BY <1>2, <2>8, OfTheServer DEF Alive, Inv, Behind
    <3>5. disk <= live
      BY <3>1, <3>2, <3>4, FS_Subset
    <3> HIDE DEF live, disk
    <3>6. ASSUME NEW t, t \notin Alive, Alive' = Alive \cup {t}, Stored' = Stored PROVE Register!Change
      <4>1. Cardinality(Alive \cup {t}) = Cardinality(Alive) + 1
        BY <3>2, <3>6, FS_AddElement
      <4>2. QED
        BY <2>3, <3>1, <3>6, <4>1
    <3>7. ASSUME Stored' = Alive, Alive' = Alive PROVE [Register!Next]_(Register!vars)
      <4>1. CASE disk = live
        BY <2>2, <3>1, <3>7, <4>1
      <4>2. CASE disk # live
        <5>1. live' = live /\ disk' = live
          BY <3>1, <3>7
        <5>2. disk' \in disk + 1 .. live /\ disk' \in disk .. live
          BY <3>3, <3>5, <4>2, <5>1
        <5>3. Register!Publish(disk')
          BY <2>5, <5>1, <5>2
        <5>4. QED
          BY <5>2, <5>3 DEF Register!Next, live, disk, Alive, mem, Server
      <4>3. QED
        BY <4>1, <4>2
    <3>8. ASSUME Stored' = Stored, Alive' = Alive PROVE UNCHANGED Register!vars
      BY <2>2, <3>1, <3>8
    <3>9. ASSUME Stored' = Stored, Alive' = Stored PROVE Register!Crash
      BY <2>4, <3>1, <3>9
    <3>10. QED
      BY <1>2, <2>8, <3>6, <3>7, <3>8, <3>9, StepOfTable DEF Register!Next
  <2>9. QED
    BY <1>2, <2>6, <2>7, <2>8
<1>3. Init => Counted
  BY CountedInit
<1>4. Inv /\ Counted /\ [Next]_vars => Counted'
  BY CountedStep
<1>5. QED
  BY <1>1, <1>2, <1>3, <1>4, InvCorrect, PTL DEF Spec, ImplementsRegister, Register!Spec

=============================================================================
