-------------------------- MODULE SchemaMigrations --------------------------
(***************************************************************************)
(* The schema of the SQL stores: migrate.ts and the commands that run it,  *)
(* several processes on one database.  Every process runs one command:     *)
(* a server that migrates before it loads, or one of dbCli.ts.             *)
(*                                                                         *)
(* SQLite runs a command's migration inside BEGIN EXCLUSIVE ... COMMIT, so *)
(* that nobody sees its statements before the end.  Postgres holds an      *)
(* advisory lock and commits every statement.  Either is released when the *)
(* process dies.  The repository has one migration, 0001_init.             *)
(***************************************************************************)
CONSTANT Processes

\* The value of a lock that nobody holds is no process.
ASSUME ProcessesAssumption == "none" \notin Processes

Commands == {"serve", "migrate", "migrate:down", "seed"}

VARIABLES
  transactional,  \* SQLite (TRUE) or Postgres (FALSE); never changes
  db,    \* what is committed
  work,  \* what the holder of the lock sees on SQLite: db and its own statements
  lock,  \* the process that holds the exclusive transaction or the advisory lock, or "none"
  cmd,   \* the command of each process
  pc     \* its next statement, or how it ended

vars == <<transactional, db, work, lock, cmd, pc>>

\* The tables of 0001_init.up.sql as a whole, and schema_meta with its rows.
Empty == [meta |-> FALSE, tables |-> FALSE, recorded |-> FALSE, version |-> FALSE]
Complete == [meta |-> TRUE, tables |-> TRUE, recorded |-> TRUE, version |-> TRUE]

Endings == {"done", "failed", "busy", "lost"}

Init ==
  /\ transactional \in BOOLEAN
  /\ db = Empty /\ work = Empty
  /\ lock = "none"
  /\ cmd \in [Processes -> Commands]
  /\ pc = [p \in Processes |-> "begin"]

\* What a statement of the holder reads, and where it writes.
View == IF transactional THEN work ELSE db

\* A defect: SQLite without a transaction.
PutCommitted(new) == work' = new /\ db' = new

Put(new) ==
  /\ work' = new
  /\ db' = IF transactional THEN db ELSE new

Goto(p, s) == pc' = [pc EXCEPT ![p] = s]

Step(p, s) == pc[p] = s /\ UNCHANGED <<transactional, cmd>>

\* A defect: nobody waits for anybody.
BeginUnlocked(p) ==
  /\ Step(p, "begin")
  /\ lock' = p /\ work' = db
  /\ Goto(p, IF cmd[p] = "migrate:down" THEN "list" ELSE "meta")
  /\ UNCHANGED db

\* BEGIN EXCLUSIVE or pg_advisory_lock.
Begin(p) ==
  /\ Step(p, "begin")
  /\ lock = "none"
  /\ lock' = p /\ work' = db
  /\ Goto(p, IF cmd[p] = "migrate:down" THEN "list" ELSE "meta")
  /\ UNCHANGED db

\* A writer of SQLite waits five seconds for the transaction of another.
Busy(p) ==
  /\ pc[p] = "begin" \/ (pc[p] = "use" /\ cmd[p] = "seed")
  /\ transactional /\ lock \notin {p, "none"}
  /\ Goto(p, "busy")
  /\ UNCHANGED <<transactional, db, work, lock, cmd>>

\* A defect: the lock is only released at the end of a command that succeeds.
AbortHolding(p) == Goto(p, "failed") /\ UNCHANGED <<db, work, lock>>

\* A statement throws: the transaction is rolled back, the lock released.
Abort(p) == Goto(p, "failed") /\ lock' = "none" /\ UNCHANGED <<db, work>>

\* applyPending: CREATE TABLE IF NOT EXISTS schema_meta.
EnsureMeta(p) ==
  /\ Step(p, "meta")
  /\ Put([View EXCEPT !.meta = TRUE])
  /\ Goto(p, "list")
  /\ UNCHANGED lock

\* listApplied; without schema_meta nothing is applied.
listApplied(p) ==
  /\ Step(p, "list")
  /\ Goto(p, CASE cmd[p] = "migrate:down" /\ View.recorded  -> "down"
               [] cmd[p] = "migrate:down" /\ ~View.recorded -> "end"
               [] OTHER -> IF View.recorded THEN "version" ELSE "up")
  /\ UNCHANGED <<db, work, lock>>

\* 0001_init.up.sql: every table IF NOT EXISTS.
ExecUp(p) ==
  /\ Step(p, "up")
  /\ Put([View EXCEPT !.meta = TRUE, !.tables = TRUE])
  /\ Goto(p, "record")
  /\ UNCHANGED lock

\* INSERT of mig:0001_init, whose key is the primary key.
Record(p) ==
  /\ Step(p, "record")
  /\ IF View.recorded
     THEN Abort(p)
     ELSE Put([View EXCEPT !.recorded = TRUE]) /\ Goto(p, "version") /\ UNCHANGED lock

\* upsertMeta of the version: nobody else writes schema_meta meanwhile.
RecordVersion(p) ==
  /\ Step(p, "version")
  /\ Put([View EXCEPT !.version = TRUE])
  /\ Goto(p, "end")
  /\ UNCHANGED lock

\* 0001_init.down.sql: every table dropped, schema_meta with them.
ExecDown(p) ==
  /\ Step(p, "down")
  /\ Put(Empty)
  /\ Goto(p, "delete")
  /\ UNCHANGED lock

\* DELETE of the record, from a table that must exist.
DeleteRecord(p) ==
  /\ Step(p, "delete")
  /\ IF View.meta
     THEN Put([View EXCEPT !.recorded = FALSE]) /\ Goto(p, "end") /\ UNCHANGED lock
     ELSE Abort(p)

End(p) ==
  /\ Step(p, "end")
  /\ db' = View /\ lock' = "none"
  /\ Goto(p, IF cmd[p] \in {"serve", "seed"} THEN "use" ELSE "done")
  /\ UNCHANGED work

\* A migrated server loads, seed inserts: outside the lock, on tables that
\* must exist.  A writer of SQLite waits for the transaction of another.
Use(p) ==
  /\ Step(p, "use")
  /\ transactional /\ cmd[p] = "seed" => lock = "none"
  /\ Goto(p, IF db.tables THEN "done" ELSE "failed")
  /\ UNCHANGED <<db, work, lock>>

\* The process dies, and its connection with it.
Lose(p) ==
  /\ pc[p] \notin Endings
  /\ lock' = IF lock = p THEN "none" ELSE lock
  /\ Goto(p, "lost")
  /\ UNCHANGED <<transactional, db, work, cmd>>

Acts(p) ==
  \/ Begin(p) \/ Busy(p) \/ EnsureMeta(p) \/ listApplied(p) \/ ExecUp(p) \/ Record(p)
  \/ RecordVersion(p) \/ ExecDown(p) \/ DeleteRecord(p) \/ End(p) \/ Use(p)

Next == \E p \in Processes : Acts(p) \/ Lose(p)

\* A process that can go on does.
Spec == Init /\ [][Next]_vars /\ \A p \in Processes : WF_vars(Acts(p))

Rollbacks == {p \in Processes : cmd[p] = "migrate:down"}

\* What is committed is never half of a schema that claims to be whole: the
\* record of the migration is only there with all its tables, whoever died
\* between two statements.
RecordIsTrue ==
  /\ db.recorded => db.tables /\ db.meta
  /\ transactional => db \in {Empty, Complete}

\* Migrating is safe to do from several processes and to repeat after any
\* death: it fails for nobody, and what was migrated can be used, unless the
\* schema is being rolled back.  To give up after five seconds at the lock of
\* SQLite (Busy) is not counted as a failure.
MigratingSucceeds ==
  /\ \A p \in Processes \ Rollbacks : pc[p] = "failed" => \E q \in Rollbacks : pc[q] # "begin"
  /\ (\A q \in Rollbacks : pc[q] = "begin") =>
       \A p \in Processes \ Rollbacks : pc[p] \in {"use", "done"} => db.tables /\ db.recorded /\ db.version

\* No process waits for ever for the lock of another.
EveryCommandEnds == <>(\A p \in Processes : pc[p] \in Endings)

\* migrate:down rolls the schema back: unless it gives up at the lock or
\* dies, it succeeds.
RollbackSucceeds == \A p \in Rollbacks : pc[p] # "failed"

=============================================================================
