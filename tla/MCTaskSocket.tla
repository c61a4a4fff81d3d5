---------------------------- MODULE MCTaskSocket ----------------------------
(***************************************************************************)
(* Two tasks under a limit of one subscription, two connections, and three *)
(* among connect() calls, cuts and subscriptions.  No symmetry: the run    *)
(* checks liveness.                                                        *)
(***************************************************************************)
EXTENDS TaskSocket

=============================================================================
