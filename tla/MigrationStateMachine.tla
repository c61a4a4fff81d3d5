----------------------- MODULE MigrationStateMachine -----------------------
(***************************************************************************)
(* The server's authoritative MigrationStateMachine: the map of tasks, the *)
(* one way a task moves (transition), its timeline, and the events through *)
(* which the container asks the store for a save.  The store is reduced    *)
(* here to its promise (a scheduled save eventually makes the whole map    *)
(* durable); JsonStore models how the save is done.  Restart is a new      *)
(* process that loads the durable map.                                     *)
(***************************************************************************)
EXTENDS MigrationTransitions, Naturals, Sequences

CONSTANTS TaskIds,      \* identifiers createTask may draw
          MaxTimeline   \* bound: moves recorded per task

ASSUME MaxTimelineAssumption == MaxTimeline \in Nat

VARIABLES tasks,   \* the Map of tasks: state and timeline of each identifier
          durable, \* the map as the store last saved it
          pending  \* a save is scheduled and has not been made

vars == <<tasks, durable, pending>>

NoTask == [state |-> "ABSENT", timeline |-> <<>>]

Entry == [fromState : MigrationState, toState : MigrationState]

Task == [state : MigrationState \cup {"ABSENT"}, timeline : Seq(Entry)]

TypeOK ==
  /\ tasks \in [TaskIds -> Task]
  /\ durable \in [TaskIds -> Task]
  /\ pending \in BOOLEAN

Init ==
  /\ tasks = [id \in TaskIds |-> NoTask]
  /\ durable = [id \in TaskIds |-> NoTask]
  /\ pending = FALSE

Exists(id) == tasks[id].state # "ABSENT"

-----------------------------------------------------------------------------
\* A defect: the event is emitted on creation only.
TransitionUnannounced(id, newState) ==
  /\ Exists(id)
  /\ Len(tasks[id].timeline) < MaxTimeline
  /\ CanTransition(tasks[id].state, newState)
  /\ tasks' = [tasks EXCEPT
       ![id] = [state    |-> newState,
                timeline |-> Append(@.timeline, [fromState |-> @.state, toState |-> newState])]]
  /\ UNCHANGED <<durable, pending>>

\* A defect: the entry is built after the state was assigned.
TransitionLateEntry(id, newState) ==
  /\ Exists(id)
  /\ Len(tasks[id].timeline) < MaxTimeline
  /\ CanTransition(tasks[id].state, newState)
  /\ tasks' = [tasks EXCEPT
       ![id] = [state    |-> newState,
                timeline |-> Append(@.timeline, [fromState |-> newState, toState |-> newState])]]
  /\ pending' = TRUE
  /\ UNCHANGED durable

\* A defect: a load that only clears the map.
LoadSnapshotForgetting == tasks' = [id \in TaskIds |-> NoTask]

\* A defect: only the states are loaded, the timelines are missing.
LoadSnapshotBare == tasks' = [id \in TaskIds |-> [state |-> durable[id].state]]
-----------------------------------------------------------------------------
\* POST /migration/tasks: a fresh identifier, an IDLE task, one event.
createTask(id) ==
  /\ ~Exists(id)
  /\ tasks' = [tasks EXCEPT ![id] = [state |-> "IDLE", timeline |-> <<>>]]
  /\ pending' = TRUE
  /\ UNCHANGED durable

\* POST /migration/tasks/:id/transition.  An unknown task (404) or a move
\* that is not in the table (409) throws before anything changed: no step.
transition(id, newState) ==
  /\ Exists(id)
  /\ Len(tasks[id].timeline) < MaxTimeline
  /\ CanTransition(tasks[id].state, newState)
  /\ tasks' = [tasks EXCEPT
       ![id] = [state    |-> newState,
                timeline |-> Append(@.timeline, [fromState |-> @.state, toState |-> newState])]]
  /\ pending' = TRUE
  /\ UNCHANGED durable

\* The store's side: the scheduled save is made and covers the whole map.
Save ==
  /\ pending
  /\ durable' = tasks
  /\ pending' = FALSE
  /\ UNCHANGED tasks

loadSnapshot == tasks' = durable

\* The process dies at any point and a new one loads what was saved.
Restart ==
  /\ loadSnapshot
  /\ pending' = FALSE
  /\ UNCHANGED durable

Next ==
  \/ \E id \in TaskIds : createTask(id)
  \/ \E id \in TaskIds, s \in MigrationState : transition(id, s)
  \/ Save
  \/ Restart

Spec == Init /\ [][Next]_vars
-----------------------------------------------------------------------------
(***************************************************************************)
(* Properties                                                              *)
(***************************************************************************)

\* The timeline of one task is a path of the table from IDLE to its state.
IsPath(task) ==
  LET tl == task.timeline IN
  /\ tl = <<>> => task.state \in {"IDLE", "ABSENT"}
  /\ tl # <<>> => tl[1].fromState = "IDLE" /\ tl[Len(tl)].toState = task.state
  /\ \A i \in 1 .. Len(tl) : tl[i].toState \in TRANSITIONS[tl[i].fromState]
  /\ \A i \in 1 .. Len(tl) : i > 1 => tl[i].fromState = tl[i - 1].toState

\* The timeline a client is shown explains the state it is shown: read from
\* the start it is a legal path that ends in the task's state, for the live
\* tasks and for the durable ones, whatever restarts happened in between.
TimelineExplainsState == \A id \in TaskIds : IsPath(tasks[id]) /\ IsPath(durable[id])

Visited(task) == {task.timeline[i].toState : i \in 1 .. Len(task.timeline)}

\* The stages that nothing in the table lets a task go round.
Before(s) ==
  LET plan  == Planning \ {"IDLE"}
      inj   == plan \cup {"FULL_SYNC", "INCREMENTAL_SYNC", "DRIVER_INJECTION"}
      ready == inj \cup {"CUTOVER_READY"}
      exec  == ready \cup {"CUTOVER_EXECUTING"}
      post  == exec \cup {"POST_CHECK"}
  IN CASE s = "COMPATIBILITY_CHECK" -> {"ENV_SCAN"}
       [] s = "NETWORK_MAPPING"     -> {"ENV_SCAN", "COMPATIBILITY_CHECK"}
       [] s = "STORAGE_MAPPING"     -> {"ENV_SCAN", "COMPATIBILITY_CHECK", "NETWORK_MAPPING"}
       [] s = "PRE_SNAPSHOT"        -> plan \ {"PRE_SNAPSHOT"}
       [] s = "FULL_SYNC"           -> plan
       [] s \in Copying \ {"FULL_SYNC"} -> plan \cup {"FULL_SYNC"}
       [] s = "DRIVER_INJECTION"    -> plan \cup {"FULL_SYNC", "INCREMENTAL_SYNC"}
       [] s = "CUTOVER_READY"       -> inj
       [] s = "CUTOVER_EXECUTING"   -> ready
       [] s = "POST_CHECK"          -> exec
       [] s = "COMPLETED"           -> post
       [] OTHER                     -> {}

Staged(task) == task.state # "ABSENT" => Before(task.state) \subseteq Visited(task)

\* No task is cut over or completed without every earlier mandatory stage in
\* its history: pausing and resuming, in any order and number, never lets a
\* task jump over the full copy, the incremental copy or the injection.
NoStageSkipped == \A id \in TaskIds : Staged(tasks[id]) /\ Staged(durable[id])

IsPrefixOf(s, t) == Len(s) <= Len(t) /\ \A i \in 1 .. Len(s) : s[i] = t[i]

\* A crash forgets the end of a task's history and nothing else: what is
\* durable is always an initial part of what the process holds.
DurableIsThePast ==
  \A id \in TaskIds : IsPrefixOf(durable[id].timeline, tasks[id].timeline)

\* Every change of the map asks for a save (container.ts wires the events of
\* createTask and transition to scheduleSave): with no save scheduled, a
\* crash loses nothing.
NothingUnsavedUnnoticed == ~pending => durable = tasks

\* Both together: a crash takes a task back to an earlier point of its own
\* history, and only when a save was scheduled.
CrashForgetsOnlyTheEnd == DurableIsThePast /\ NothingUnsavedUnnoticed

\* COMPLETED and FAILED are final: only a restart that forgets how the task
\* finished takes it back.
FinishedIsFinal ==
  [][\A id \in TaskIds : tasks[id].state \in Finished =>
        tasks'[id] = tasks[id] \/ tasks'[id] = durable[id]]_vars

\* The stage a state belongs to, for the abstract specification.
StageOf(s) ==
  CASE s \in Planning    -> "planning"
    [] s \in Copying     -> "copying"
    [] s \in Switching   -> "switching"
    [] s = "COMPLETED"   -> "done"
    [] s = "FAILED"      -> "failed"
    [] OTHER             -> "none"

Lifecycle == INSTANCE MigrationLifecycle WITH
  stage <- [id \in TaskIds |-> StageOf(tasks[id].state)],
  kept  <- [id \in TaskIds |-> StageOf(durable[id].state)]

\* The state machine implements the lifecycle of MigrationLifecycle.
ImplementsLifecycle == Lifecycle!Spec

=============================================================================
