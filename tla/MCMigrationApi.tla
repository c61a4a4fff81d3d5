--------------------------- MODULE MCMigrationApi ---------------------------
(***************************************************************************)
(* One task, two overlapping asynchronous requests, four calls at most and *)
(* any number of restarts: a start and three checkpoints overflow the      *)
(* history of two.  The disk has five units, a block three and a tick      *)
(* copies three: the first tick ends on the border of a block, the second  *)
(* at the end of the disk, inside one.  Two vSwitches for two bridges: a   *)
(* second bridge for the first vSwitch leaves none for the second.  The    *)
(* first request for a storage mapping may list the pool, the machine,     *)
(* both or neither.                                                        *)
(***************************************************************************)
EXTENDS TaskMappings

=============================================================================
