-------------------------- MODULE MCSqlBackedStore --------------------------
(***************************************************************************)
(* SqlBackedStore with two tasks.  One process: three checkpoints on a     *)
(* history of one, which is trimmed twice, and two crashes.  Two processes *)
(* on one database: one checkpoint each and no crash, which is enough for  *)
(* the one to remove what the other saved.                                 *)
(***************************************************************************)
EXTENDS SqlBackedStore, TLC

Symmetry == Permutations(Tasks) \cup Permutations(Instances)

=============================================================================
