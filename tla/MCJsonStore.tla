---------------------------- MODULE MCJsonStore ----------------------------
(* JsonStore with small bounds: the values are in the configurations.       *)
EXTENDS JsonStore

=============================================================================
