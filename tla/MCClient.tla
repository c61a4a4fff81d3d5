------------------------------ MODULE MCClient ------------------------------
(***************************************************************************)
(* The client with two vSwitches and two bridges, two kinds of faults, two *)
(* VMs, phases of two steps, two tools and three changes of the tool, so   *)
(* that the player may come back to one.  A tick adds 10 percent, so that  *)
(* the window of the challenge (30 to 80) holds five ticks and the copy    *)
(* hands over at 90.                                                       *)
(***************************************************************************)
EXTENDS Client
=============================================================================
