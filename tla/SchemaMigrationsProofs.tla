----------------------- MODULE SchemaMigrationsProofs -----------------------
(***************************************************************************)
(* For any number of processes on one database: the record of the          *)
(* migration is true, and migrating fails for nobody unless the schema is  *)
(* rolled back.                                                            *)
(*                                                                         *)
(* The reason: whoever is between two statements holds the lock, so that   *)
(* what it sees changes by its own statements only, and each of them finds *)
(* what the one before has left (Known).                                   *)
(***************************************************************************)
EXTENDS SchemaMigrations, TLAPS

Schemas == [meta : BOOLEAN, tables : BOOLEAN, recorded : BOOLEAN, version : BOOLEAN]

\* The statements that are made under the lock.
Inside == {"meta", "list", "up", "record", "version", "down", "delete", "end"}

Typed ==
  /\ transactional \in BOOLEAN
  /\ db \in Schemas /\ work \in Schemas
  /\ cmd \in [Processes -> Commands]
  /\ pc \in [Processes -> Inside \cup {"begin", "use"} \cup Endings]

Exclusive == \A p \in Processes : pc[p] \in Inside => lock = p

Sound(schema) == schema.recorded => schema.tables /\ schema.meta

\* What a process knows at each of its statements.
Known(p) ==
  /\ pc[p] \in {"up", "record"} => ~View.recorded
  /\ pc[p] = "record" => View.tables /\ View.meta
  /\ pc[p] = "version" => View.tables /\ View.meta /\ View.recorded
  /\ pc[p] = "delete" => View = Empty
  /\ pc[p] = "list" /\ p \in Rollbacks => View = db
  /\ pc[p] = "end" => IF p \in Rollbacks THEN View = db ELSE View = Complete
  /\ pc[p] \in {"meta", "up", "record", "version", "use"} => p \notin Rollbacks
  /\ pc[p] \in {"down", "delete"} => p \in Rollbacks

Quiet == \A q \in Rollbacks : pc[q] = "begin"

Migrated(p) == pc[p] \in {"use", "done"} => db.tables /\ db.recorded /\ db.version

Inv ==
  /\ Typed /\ Exclusive
  /\ Sound(db) /\ Sound(work)
  /\ transactional => db \in {Empty, Complete}
  /\ \A p \in Processes : Known(p)
  /\ Quiet => \A p \in Processes \ Rollbacks : Migrated(p) /\ pc[p] # "failed"

-----------------------------------------------------------------------------
\* Whatever migrates, rolls back, seeds, serves or dies, every process knows
\* the schema at each of its statements.
THEOREM Invariance == Spec => []Inv
<1>1. Init => Inv
  BY DEF Init, Inv, Typed, Exclusive, Sound, Known, Quiet, Migrated, Rollbacks, Schemas, Inside,
         Endings, Commands, Empty, Complete
<1>2. Inv /\ [Next]_vars => Inv'
  <2> SUFFICES ASSUME Inv, [Next]_vars PROVE Inv'
    OBVIOUS
  <2>1. CASE UNCHANGED vars
    BY <2>1 DEF vars, Inv, Typed, Exclusive, Sound, Known, Quiet, Migrated, Rollbacks, View
  <2>2. ASSUME NEW p \in Processes, Acts(p) \/ Lose(p) PROVE Inv'
    <3> USE ProcessesAssumption DEF Inv, Typed, Exclusive, Sound, Known, Quiet, Migrated, Rollbacks, View,
          Schemas, Inside, Endings, Empty, Complete, Goto, Step, Put, Abort
    <3>1. CASE Begin(p)
      BY <3>1 DEF Begin
    <3>2. CASE Busy(p)
      BY <3>2 DEF Busy
    <3>3. CASE EnsureMeta(p)
      BY <3>3, ZenonT(60) DEF EnsureMeta
    <3>4. CASE listApplied(p)
      BY <3>4 DEF listApplied
    <3>5. CASE ExecUp(p)
      BY <3>5, ZenonT(60) DEF ExecUp
    <3>6. CASE Record(p)
      <4>1. ~View.recorded /\ View.tables /\ View.meta /\ lock = p /\ p \notin Rollbacks
        BY <3>6 DEF Record
      <4>2. /\ Step(p, "record") /\ Goto(p, "version") /\ UNCHANGED lock
            /\ Put([View EXCEPT !.recorded = TRUE])
        BY <3>6, <4>1 DEF Record
      <4>3. QED
        BY <4>1, <4>2, ZenonT(60)
    <3>7. CASE RecordVersion(p)
      BY <3>7, ZenonT(60) DEF RecordVersion
    <3>8. CASE ExecDown(p)
      BY <3>8 DEF ExecDown
    <3>9. CASE DeleteRecord(p)
      BY <3>9 DEF DeleteRecord
    <3>10. CASE End(p)
      BY <3>10 DEF End
    <3>11. CASE Use(p)
      BY <3>11 DEF Use
    <3>12. CASE Lose(p)
      BY <3>12 DEF Lose
    <3>13. QED
      BY <2>2, <3>1, <3>2, <3>3, <3>4, <3>5, <3>6, <3>7, <3>8, <3>9, <3>10, <3>11, <3>12 DEF Acts
  <2>3. QED
    BY <2>1, <2>2 DEF Next
<1>3. QED
  BY <1>1, <1>2, PTL DEF Spec

\* A record of the migration means that its tables are there, whoever died
\* between two statements.
THEOREM RecordCorrect == Spec => []RecordIsTrue
<1>1. Inv => RecordIsTrue
  BY DEF Inv, RecordIsTrue, Sound
<1>2. QED
  BY <1>1, Invariance, PTL

\* Migrating fails for nobody, and what was migrated can be used, unless the
\* schema is being rolled back.
THEOREM MigratingCorrect == Spec => []MigratingSucceeds
<1>1. Inv => MigratingSucceeds
  BY DEF Inv, MigratingSucceeds, Quiet, Migrated
<1>2. QED
  BY <1>1, Invariance, PTL

=============================================================================
