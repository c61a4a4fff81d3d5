------------------------- MODULE MCSchemaMigrations -------------------------
(***************************************************************************)
(* Three processes on one database, each with any of the four commands.    *)
(***************************************************************************)
EXTENDS SchemaMigrations

=============================================================================
