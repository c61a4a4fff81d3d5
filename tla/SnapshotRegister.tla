-------------------------- MODULE SnapshotRegister --------------------------
(***************************************************************************)
(* What a store promises for the part of the memory whose changes it is    *)
(* told of: the durable copy only moves forward, to revisions the memory   *)
(* has had, and a crash takes the memory back to the copy, never further.  *)
(***************************************************************************)
EXTENDS Naturals

VARIABLES live, \* revision of the memory
          disk  \* revision a new process would load

vars == <<live, disk>>

Init == live = 0 /\ disk = 0

Change == live' = live + 1 /\ UNCHANGED disk

Publish(v) == v \in disk + 1 .. live /\ disk' = v /\ UNCHANGED live

Crash == live' = disk /\ UNCHANGED disk

Next == Change \/ (\E v \in disk .. live : Publish(v)) \/ Crash

Spec == Init /\ [][Next]_vars

=============================================================================
