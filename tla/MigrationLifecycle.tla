------------------------- MODULE MigrationLifecycle -------------------------
(***************************************************************************)
(* What the migration state machine promises to the rest of the system,    *)
(* with the seventeen states forgotten: a task is planned, then copied,    *)
(* then switched over, and it is done or has failed for good.  A stage is  *)
(* never skipped and never revisited.  The server keeps a durable copy of  *)
(* the stages, and a restart takes every task back to that copy.           *)
(***************************************************************************)
CONSTANT TaskIds

VARIABLES stage,  \* the stage of each task
          kept    \* the durable copy of it

vars == <<stage, kept>>

Stage == {"none", "planning", "copying", "switching", "done", "failed"}

TypeOK == stage \in [TaskIds -> Stage] /\ kept \in [TaskIds -> Stage]

Following(s) ==
  CASE s = "none"      -> {"planning"}
    [] s = "planning"  -> {"copying", "failed"}
    [] s = "copying"   -> {"switching", "failed"}
    [] s = "switching" -> {"done", "failed"}
    [] OTHER           -> {}

Init == stage = [id \in TaskIds |-> "none"] /\ kept = stage

Advance(id, s) ==
  /\ s \in Following(stage[id])
  /\ stage' = [stage EXCEPT ![id] = s]
  /\ UNCHANGED kept

Keep == kept' = stage /\ UNCHANGED stage

Restart == stage' = kept /\ UNCHANGED kept

Next == (\E id \in TaskIds, s \in Stage : Advance(id, s)) \/ Keep \/ Restart

Spec == Init /\ [][Next]_vars

=============================================================================
