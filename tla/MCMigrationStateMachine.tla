---------------------- MODULE MCMigrationStateMachine ----------------------
\* One task, long enough for the whole migration with one pause and resume
\* (15 moves), with saves and restarts at every point of it.
EXTENDS MigrationStateMachine

=============================================================================
