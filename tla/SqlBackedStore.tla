--------------------------- MODULE SqlBackedStore ---------------------------
(***************************************************************************)
(* The store of SQLite and Postgres for tasks and checkpoints.  As in      *)
(* JsonStore a change of the memory schedules a debounced save, but the    *)
(* save replaces the rows of two tables, one after the other.  On SQLite   *)
(* each replacement is a transaction and runs without giving up the event  *)
(* loop; on Postgres each statement commits by itself and the process goes *)
(* on between two statements.  Several instances may share the tables.     *)
(*                                                                         *)
(* A checkpoint is the number of its place among those of the task, in the *)
(* order of their offsets; a task's checkpointOffset is the number of the  *)
(* one it was set by, 0 before the first.                                  *)
(***************************************************************************)
EXTENDS Naturals, Sequences, FiniteSets

CONSTANTS
  Instances,      \* server processes on the same database
  Tasks,          \* identifiers createTask may draw
  Slots,          \* bound: saveNow calls of an instance in progress together
  MAX_HISTORY,    \* checkpoints kept by CheckpointSystem
  MaxCheckpoints, \* bound: checkpoints of a task
  MaxCrashes      \* bound: crashes

ASSUME BoundsAssumption ==
  /\ MAX_HISTORY \in Nat \ {0}
  /\ MaxCheckpoints \in Nat /\ MaxCrashes \in Nat

VARIABLES
  transactional, \* SqliteStore (TRUE) or PostgresStore (FALSE); never changes
  phase,       \* of each instance: "up", "closing", "stopped", "crashed"
  memory,      \* of each instance: the tasks it knows
  pending,     \* of each instance: a change is noted and the timer armed
  save,        \* of each instance and slot: the saveNow in progress
  tasks,       \* rows of table tasks
  checkpoints, \* rows of table checkpoints
  saved,       \* tasks that a save which ended had written
  failed,      \* of each instance: its last save did not end
  crashes      \* crashes so far

tables == <<tasks, checkpoints>>
vars == <<transactional, phase, memory, pending, save, tables, saved, failed, crashes>>

Numbers == 0 .. MaxCheckpoints
NewTask == [offset |-> 0, history |-> <<>>]

CheckpointRows == [task : Tasks, seq : 1 .. MAX_HISTORY, offset : Numbers]

NoSave == [pc |-> "idle"]
Running(i, s) == save[i][s].pc # "idle"

Init ==
  /\ transactional \in BOOLEAN
  /\ phase = [i \in Instances |-> "up"]
  /\ memory = [i \in Instances |-> <<>>]
  /\ pending = [i \in Instances |-> FALSE]
  /\ save = [i \in Instances |-> [s \in Slots |-> NoSave]]
  /\ tasks = {} /\ checkpoints = {}
  /\ saved = {} /\ failed = [i \in Instances |-> FALSE] /\ crashes = 0

\* Between its two transactions a save on SQLite does not give up the event
\* loop: nothing else of the instance runs.
Free(i) ==
  /\ phase[i] = "up"
  /\ transactional => \A s \in Slots : ~Running(i, s)

-----------------------------------------------------------------------------
(***************************************************************************)
(* Changes of the memory                                                   *)
(***************************************************************************)

\* scheduleSave(): notes the change and arms the timer if it is not.
scheduleSave(i) == pending' = [pending EXCEPT ![i] = TRUE]

Stored == {r.task : r \in tasks}
Known == UNION {DOMAIN memory[i] : i \in Instances}

createTask(i, t) ==
  /\ Free(i) /\ t \notin Known \cup Stored \cup saved
  /\ memory' = [memory EXCEPT ![i] = [u \in DOMAIN @ \cup {t} |-> IF u = t THEN NewTask ELSE @[u]]]
  /\ scheduleSave(i)
  /\ UNCHANGED <<transactional, phase, save, tables, saved, failed, crashes>>

\* A change of a task that leaves its row's offset alone: a transition.
transition(i, t) ==
  /\ Free(i) /\ t \in DOMAIN memory[i]
  /\ scheduleSave(i)
  /\ UNCHANGED <<transactional, phase, memory, save, tables, saved, failed, crashes>>

KeepLatest(list) ==
  IF Len(list) <= MAX_HISTORY THEN list
  ELSE SubSeq(list, Len(list) - MAX_HISTORY + 1, Len(list))

saveCheckpoint(i, t) ==
  /\ Free(i) /\ t \in DOMAIN memory[i] /\ memory[i][t].offset < MaxCheckpoints
  /\ LET n == memory[i][t].offset + 1 IN
       memory' = [memory EXCEPT ![i][t] =
                    [offset |-> n, history |-> KeepLatest(Append(@.history, n))]]
  /\ scheduleSave(i)
  /\ UNCHANGED <<transactional, phase, save, tables, saved, failed, crashes>>

-----------------------------------------------------------------------------
(***************************************************************************)
(* saveNow: tasks.replaceAll, then checkpoints.replaceAll                  *)
(***************************************************************************)

RowOf(i, t) == [task |-> t, offset |-> memory[i][t].offset]

\* cpSystem.snapshot(): the rows of the lists as they are now.  (A checkpoint
\* pushed to a list while Postgres inserts its rows could be among them.)
RowsOfHistory(i) ==
  UNION {{[task |-> t, seq |-> n, offset |-> memory[i][t].history[n]] :
            n \in DOMAIN memory[i][t].history} : t \in DOMAIN memory[i]}

Begun(i, pc, wait) ==
  [pc |-> pc, all |-> DOMAIN memory[i], todo |-> DOMAIN memory[i], rows |-> {}, awaited |-> wait]

\* A defect: only the rows of the tasks that are new are written.
BeginInserting(i, s, wait) ==
  /\ ~Running(i, s)
  /\ tasks' = tasks \cup {RowOf(i, t) : t \in DOMAIN memory[i] \ Stored}
  /\ save' = [save EXCEPT ![i][s] = Begun(i, "checkpoints", wait)]
  /\ failed' = [failed EXCEPT ![i] = FALSE]

\* saveNow up to its first await.  SQLite has replaced the tasks by then, or
\* could not.
Begin(i, s, wait) ==
  /\ ~Running(i, s)
  /\ \/ ~transactional /\ UNCHANGED tasks
        /\ save' = [save EXCEPT ![i][s] = Begun(i, "delete tasks", wait)]
     \/ transactional /\ tasks' = {RowOf(i, t) : t \in DOMAIN memory[i]}
        /\ save' = [save EXCEPT ![i][s] = Begun(i, "checkpoints", wait)]
  /\ failed' = [failed EXCEPT ![i] = FALSE]

\* A defect: the timer saves nothing when no row of tasks would change.
TimerFiresOnTasks(i, s) ==
  /\ Free(i) /\ pending[i]
  /\ pending' = [pending EXCEPT ![i] = FALSE]
  /\ \/ DOMAIN memory[i] = Stored /\ UNCHANGED <<tasks, save, failed>>
     \/ DOMAIN memory[i] # Stored /\ Begin(i, s, FALSE)
  /\ UNCHANGED <<transactional, phase, memory, checkpoints, saved, crashes>>

TimerFires(i, s) ==
  /\ Free(i) /\ pending[i]
  /\ pending' = [pending EXCEPT ![i] = FALSE]
  /\ Begin(i, s, FALSE)
  /\ UNCHANGED <<transactional, phase, memory, checkpoints, saved, crashes>>

\* Postgres: DELETE FROM tasks.
DeleteTasks(i, s) ==
  /\ save[i][s].pc = "delete tasks"
  /\ tasks' = {}
  /\ save' = [save EXCEPT ![i][s].pc =
                IF save[i][s].todo = {} THEN "checkpoints" ELSE "insert tasks"]
  /\ UNCHANGED <<transactional, phase, memory, pending, checkpoints, saved, failed, crashes>>

\* Postgres: INSERT INTO tasks, the task as it is now; the key may be taken.
InsertTask(i, s, t) ==
  /\ save[i][s].pc = "insert tasks" /\ t \in save[i][s].todo /\ t \notin Stored
  /\ tasks' = tasks \cup {RowOf(i, t)}
  /\ save' = [save EXCEPT ![i][s].todo = @ \ {t},
                          ![i][s].pc = IF save[i][s].todo = {t} THEN "checkpoints" ELSE @]
  /\ UNCHANGED <<transactional, phase, memory, pending, checkpoints, saved, failed, crashes>>

Ended(i, s) ==
  /\ save' = [save EXCEPT ![i][s] = NoSave]
  /\ saved' = saved \cup save[i][s].all

\* The checkpoints are taken from the memory and their table emptied; SQLite
\* also fills it, and the save ends.
ReplaceCheckpoints(i, s) ==
  /\ save[i][s].pc = "checkpoints"
  /\ \/ (transactional \/ RowsOfHistory(i) = {})
        /\ checkpoints' = RowsOfHistory(i) /\ Ended(i, s)
     \/ ~transactional /\ RowsOfHistory(i) # {}
        /\ checkpoints' = {}
        /\ save' = [save EXCEPT ![i][s].pc = "insert checkpoints",
                                ![i][s].rows = RowsOfHistory(i)]
        /\ UNCHANGED saved
  /\ UNCHANGED <<transactional, phase, memory, pending, tasks, failed, crashes>>

SameKey(r, q) == r.task = q.task /\ r.seq = q.seq

\* Postgres: INSERT INTO checkpoints; the last one ends the save.
InsertCheckpoint(i, s, r) ==
  /\ save[i][s].pc = "insert checkpoints" /\ r \in save[i][s].rows
  /\ \A q \in save[i][s].rows : q.task = r.task => r.seq <= q.seq
  /\ \A q \in checkpoints : ~SameKey(r, q)
  /\ checkpoints' = checkpoints \cup {r}
  /\ \/ save[i][s].rows = {r} /\ Ended(i, s)
     \/ save[i][s].rows # {r} /\ save' = [save EXCEPT ![i][s].rows = @ \ {r}] /\ UNCHANGED saved
  /\ UNCHANGED <<transactional, phase, memory, pending, tasks, failed, crashes>>

\* A statement fails (a key is taken, the connection is lost, the disk is
\* full): logged, the rest of the save is dropped and nothing tries again.
Fail(i, s) ==
  /\ Running(i, s)
  /\ save' = [save EXCEPT ![i][s] = NoSave]
  /\ failed' = [failed EXCEPT ![i] = TRUE]
  /\ UNCHANGED <<transactional, phase, memory, pending, tables, saved, crashes>>

\* SQLite could not replace the tasks.
FailToBegin(i) ==
  /\ transactional /\ Free(i) /\ pending[i]
  /\ pending' = [pending EXCEPT ![i] = FALSE]
  /\ failed' = [failed EXCEPT ![i] = TRUE]
  /\ UNCHANGED <<transactional, phase, memory, save, tables, saved, crashes>>

-----------------------------------------------------------------------------
(***************************************************************************)
(* Stopping, crashing, starting                                            *)
(***************************************************************************)

\* shutdown(): the timer is cleared; a noted change is saved and awaited, or
\* SQLite cannot replace the tasks.  A save that is running is not awaited.
Shutdown(i) ==
  /\ Free(i)
  /\ phase' = [phase EXCEPT ![i] = "closing"]
  /\ \/ pending[i] /\ \E s \in Slots : Begin(i, s, TRUE)
     \/ pending[i] /\ transactional /\ failed' = [failed EXCEPT ![i] = TRUE]
        /\ UNCHANGED <<tasks, save>>
     \/ ~pending[i] /\ UNCHANGED <<tasks, save, failed>>
  /\ UNCHANGED <<transactional, memory, pending, checkpoints, saved, crashes>>

NothingRuns(i) == [save EXCEPT ![i] = [s \in Slots |-> NoSave]]

\* The awaited save has ended; the database is closed under any other.
Exit(i) ==
  /\ phase[i] = "closing"
  /\ \A s \in Slots : Running(i, s) => ~save[i][s].awaited
  /\ phase' = [phase EXCEPT ![i] = "stopped"]
  /\ save' = NothingRuns(i)
  /\ UNCHANGED <<transactional, memory, pending, tables, saved, failed, crashes>>

Crash(i) ==
  /\ phase[i] \in {"up", "closing"} /\ crashes < MaxCrashes
  /\ crashes' = crashes + 1
  /\ phase' = [phase EXCEPT ![i] = "crashed"]
  /\ save' = NothingRuns(i)
  /\ memory' = [memory EXCEPT ![i] = <<>>]
  /\ pending' = [pending EXCEPT ![i] = FALSE]
  /\ UNCHANGED <<transactional, tables, saved, failed>>

\* dumpAll and CheckpointSystem.loadSnapshot.
LoadedHistory(t) ==
  LET rows == {r \in checkpoints : r.task = t}
      Place(r) == Cardinality({q \in rows : q.seq <= r.seq})
  IN KeepLatest([n \in 1 .. Cardinality(rows) |-> (CHOOSE r \in rows : Place(r) = n).offset])

LoadedTask(t) ==
  [offset |-> (CHOOSE r \in tasks : r.task = t).offset, history |-> LoadedHistory(t)]

Loaded == [t \in Stored |-> LoadedTask(t)]

\* A defect: the tables are read after requests are served.
StartUnloaded(i) ==
  /\ phase[i] \in {"stopped", "crashed"}
  /\ phase' = [phase EXCEPT ![i] = "up"]
  /\ memory' = [memory EXCEPT ![i] = <<>>]
  /\ pending' = [pending EXCEPT ![i] = FALSE]
  /\ failed' = [failed EXCEPT ![i] = FALSE]
  /\ UNCHANGED <<transactional, save, tables, saved, crashes>>

\* A new process: load() before anything is served.
Start(i) ==
  /\ phase[i] \in {"stopped", "crashed"}
  /\ phase' = [phase EXCEPT ![i] = "up"]
  /\ memory' = [memory EXCEPT ![i] = Loaded]
  /\ pending' = [pending EXCEPT ![i] = FALSE]
  /\ failed' = [failed EXCEPT ![i] = FALSE]
  /\ UNCHANGED <<transactional, save, tables, saved, crashes>>

-----------------------------------------------------------------------------
SaveStep(i, s) ==
  \/ DeleteTasks(i, s)
  \/ \E t \in Tasks : InsertTask(i, s, t)
  \/ ReplaceCheckpoints(i, s)
  \/ \E r \in CheckpointRows : InsertCheckpoint(i, s, r)

Next == \E i \in Instances :
  \/ \E t \in Tasks : createTask(i, t) \/ transition(i, t) \/ saveCheckpoint(i, t)
  \/ \E s \in Slots : TimerFires(i, s) \/ SaveStep(i, s) \/ Fail(i, s)
  \/ FailToBegin(i)
  \/ Shutdown(i) \/ Exit(i) \/ Crash(i) \/ Start(i)

\* The event loop fires an armed timer and the database answers.
Fairness == \A i \in Instances, s \in Slots : WF_vars(TimerFires(i, s)) /\ WF_vars(SaveStep(i, s))

Spec == Init /\ [][Next]_vars /\ Fairness

-----------------------------------------------------------------------------
(***************************************************************************)
(* Properties                                                              *)
(***************************************************************************)

\* On SQLite a process started now would find no checkpoint beyond the
\* offset its task was saved with: both tables come from one moment, or the
\* checkpoints from an earlier one.
CheckpointsNotAheadOfTasks == transactional =>
  \A r \in checkpoints : \E q \in tasks : q.task = r.task /\ r.offset <= q.offset

\* "Production with several instances" (docs/persistence.md, postgres): when
\* all are up and no save is noted, in progress or failed, the tasks an
\* instance works on and has saved are in the table, whatever the others
\* have saved since.
InstancesKeepEachOthersTasks ==
  /\ ~transactional
  /\ \A i \in Instances :
       phase[i] = "up" /\ ~pending[i] /\ ~failed[i] /\ \A s \in Slots : ~Running(i, s)
  => Known \cap saved \subseteq Stored

\* No change is forgotten: when nothing is noted, running or failed, the
\* tables hold the memory of the instance.
NoChangeForgotten == \A i \in Instances :
  phase[i] = "up" /\ ~pending[i] /\ ~failed[i] /\ (\A s \in Slots : ~Running(i, s))
    => memory[i] = Loaded

Register == INSTANCE SnapshotRegister WITH
  live <- LET i == CHOOSE j \in Instances : TRUE IN
          IF ~transactional THEN 0
          ELSE Cardinality(IF phase[i] \in {"stopped", "crashed"} THEN Stored ELSE DOMAIN memory[i]),
  disk <- IF ~transactional THEN 0 ELSE Cardinality(Stored)

\* "Behaves like JsonStore.scheduleSave()" (createStore.ts, SqlBackedStore):
\* for the tasks of a single instance on SQLite the table is the register
\* that the state file of JsonStore is: a task that was saved stays, whoever
\* saved, failed, stopped or crashed since.  On Postgres, whose table is empty
\* in the middle of a save, it is not, and the register is left alone.
ImplementsRegister == Register!Spec

=============================================================================
