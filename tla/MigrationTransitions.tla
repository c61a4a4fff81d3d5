------------------------ MODULE MigrationTransitions ------------------------
(***************************************************************************)
(* The legal moves of a V2V migration task: the states of MigrationState   *)
(* and the TRANSITIONS table that the server (and, with the same content,  *)
(* the client) consults before every move.                                 *)
(***************************************************************************)

\* Stages a task goes through before any byte is copied.
Planning == {"IDLE", "ENV_SCAN", "COMPATIBILITY_CHECK", "NETWORK_MAPPING",
             "STORAGE_MAPPING", "PRE_SNAPSHOT"}

\* States in which the copy is paused by a fault.
Paused == {"PAUSED_NETWORK_FAULT", "PAUSED_STORAGE_FAULT"}

\* Stages of the copy, with the two ways of being paused and the way back.
Copying == {"FULL_SYNC", "INCREMENTAL_SYNC", "RESUMING"} \cup Paused

\* Stages that prepare and perform the switch to the new platform.
Switching == {"DRIVER_INJECTION", "CUTOVER_READY", "CUTOVER_EXECUTING", "POST_CHECK"}

MigrationState == Planning \cup Copying \cup Switching \cup {"COMPLETED", "FAILED"}

\* Two planning stages, two switching stages and every pause may give up.
TRANSITIONS == [from \in MigrationState |->
  CASE from = "IDLE"                 -> {"ENV_SCAN"}
    [] from = "ENV_SCAN"             -> {"COMPATIBILITY_CHECK", "FAILED"}
    [] from = "COMPATIBILITY_CHECK"  -> {"NETWORK_MAPPING", "FAILED"}
    [] from = "NETWORK_MAPPING"      -> {"STORAGE_MAPPING"}
    [] from = "STORAGE_MAPPING"      -> {"PRE_SNAPSHOT"}
    [] from = "PRE_SNAPSHOT"         -> {"FULL_SYNC"}
    [] from = "FULL_SYNC"            -> {"INCREMENTAL_SYNC"} \cup Paused
    [] from = "INCREMENTAL_SYNC"     -> {"DRIVER_INJECTION", "PAUSED_NETWORK_FAULT"}
    [] from = "DRIVER_INJECTION"     -> {"CUTOVER_READY", "FAILED"}
    [] from = "CUTOVER_READY"        -> {"CUTOVER_EXECUTING"}
    [] from = "CUTOVER_EXECUTING"    -> {"POST_CHECK", "FAILED"}
    [] from = "POST_CHECK"           -> {"COMPLETED", "FAILED"}
    [] from \in Paused               -> {"RESUMING", "FAILED"}
    [] from = "RESUMING"             -> {"FULL_SYNC", "INCREMENTAL_SYNC"}
    [] OTHER                         -> {}]

\* A defect to test the properties with: the table as it would be if an
\* unfinished copy could be cut over directly.
CanTransitionSkippingInjection(from, to) ==
  \/ to \in TRANSITIONS[from]
  \/ from = "INCREMENTAL_SYNC" /\ to = "CUTOVER_READY"

\* A defect: COMPLETED can be reopened.
CanTransitionReopening(from, to) ==
  \/ to \in TRANSITIONS[from]
  \/ from = "COMPLETED" /\ to = "POST_CHECK"

CanTransition(from, to) == to \in TRANSITIONS[from]

Finished == {"COMPLETED", "FAILED"}

=============================================================================
