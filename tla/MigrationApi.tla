---------------------------- MODULE MigrationApi ----------------------------
(***************************************************************************)
(* The REST handlers that work on a migration task, with the engines they  *)
(* start: the interval timer of the data sync, the incremental rounds, the *)
(* driver injection and the cutover.  The last three are asynchronous: the *)
(* handler gives up the event loop between two steps, so several requests  *)
(* and the timer interleave on the same task object.  The tasks have been  *)
(* created; the state machine they move through is MigrationTransitions    *)
(* (its timeline and its events are the subject of MigrationStateMachine). *)
(* The server may be restarted: the tasks and the checkpoints come back,   *)
(* the timers and the requests do not.                                     *)
(***************************************************************************)
EXTENDS MigrationTransitions, Integers, Sequences

CONSTANTS
  TaskIds,      \* the tasks that were created
  Requests,     \* slots for asynchronous requests in progress
  Total,        \* size of the disk to copy, in units of data
  Block,        \* units of data in a checkpoint block
  Speeds,       \* units a tick may copy, by the speed asked for
  MAX_HISTORY,  \* checkpoints kept per task
  MaxRounds,    \* incremental rounds per request
  DriverSteps,  \* steps of an injection plan
  CutoverSteps, \* steps of the cutover
  MaxCalls      \* bound: requests sent to the server

ASSUME SizesAssumption ==
  /\ Total \in Nat \ {0} /\ Block \in Nat \ {0} /\ Speeds \subseteq Nat \ {0}
  /\ MAX_HISTORY \in Nat \ {0} /\ MaxRounds \in Nat \ {0} /\ MaxCalls \in Nat
  /\ DriverSteps \in Nat \ {0} /\ CutoverSteps \in Nat \ {0}

VARIABLES
  state,            \* task.state
  transferred,      \* task.progress.dataTransferredGB, in units of data
  rounds,           \* task.progress.incrementalRounds
  checkpointOffset, \* task.checkpointOffset
  drivers,          \* task.driverStatus.phase
  timer,            \* units per tick of the armed interval, 0 when not armed
  history,          \* CheckpointSystem.history: offsets of the kept checkpoints
  request,          \* the asynchronous requests in progress
  calls             \* requests sent so far

taskVars == <<state, transferred, rounds, checkpointOffset, drivers>>
vars == <<taskVars, timer, history, request, calls>>

Idle == [kind |-> "idle"]

\* A request in progress: the step it has reached, on which task.
InProgress(kind, steps) == [kind : {kind}, task : TaskIds, step : 0 .. steps]

Request == {Idle} \cup InProgress("incremental", MaxRounds)
             \cup InProgress("drivers", DriverSteps) \cup InProgress("cutover", CutoverSteps)

TypeOK ==
  /\ state \in [TaskIds -> MigrationState]
  /\ transferred \in [TaskIds -> 0 .. Total]
  /\ rounds \in [TaskIds -> 0 .. MaxRounds]
  /\ checkpointOffset \in [TaskIds -> Nat]
  /\ drivers \in [TaskIds -> {"PENDING", "INJECTING", "COMPLETED"}]
  /\ timer \in [TaskIds -> {0} \cup Speeds]
  /\ history \in [TaskIds -> Seq(Nat)]
  /\ request \in [Requests -> Request]
  /\ calls \in 0 .. MaxCalls

\* Moves alone take a task to any state of the table, so the handlers may
\* find it in any of them.
Init ==
  /\ state \in [TaskIds -> MigrationState]
  /\ transferred = [t \in TaskIds |-> 0]
  /\ rounds = [t \in TaskIds |-> 0]
  /\ checkpointOffset = [t \in TaskIds |-> 0]
  /\ drivers = [t \in TaskIds |-> "PENDING"]
  /\ timer = [t \in TaskIds |-> 0]
  /\ history = [t \in TaskIds |-> <<>>]
  /\ request = [r \in Requests |-> Idle]
  /\ calls = 0

Call == calls < MaxCalls /\ calls' = calls + 1

LeastOf(a, b) == IF a <= b THEN a ELSE b

-----------------------------------------------------------------------------
\* POST .../transition
PostTransition(t, newState) ==
  /\ Call
  /\ CanTransition(state[t], newState)
  /\ state' = [state EXCEPT ![t] = newState]
  /\ UNCHANGED <<transferred, rounds, checkpointOffset, drivers, timer, history, request>>

-----------------------------------------------------------------------------
(***************************************************************************)
(* Data sync: one interval timer per task                                  *)
(***************************************************************************)

\* POST .../sync/start: an armed timer is replaced, in whatever state the
\* task is; what was copied so far stays.
PostSyncStart(t, speed) ==
  /\ Call
  /\ timer' = [timer EXCEPT ![t] = speed]
  /\ UNCHANGED <<taskVars, history, request>>

\* POST .../sync/stop
PostSyncStop(t) ==
  /\ Call
  /\ timer' = [timer EXCEPT ![t] = 0]
  /\ UNCHANGED <<taskVars, history, request>>

\* A defect: the cap at the size of the disk is forgotten.
AfterTickUncapped(t) == transferred[t] + timer[t]

AfterTick(t) == LeastOf(Total, transferred[t] + timer[t])

\* A defect: the test for the end is strict.
TickNeverEnds(t) ==
  /\ timer[t] # 0
  /\ state[t] \notin Paused
  /\ transferred' = [transferred EXCEPT ![t] = AfterTick(t)]
  /\ timer' = IF AfterTick(t) > Total THEN [timer EXCEPT ![t] = 0] ELSE timer
  /\ UNCHANGED <<state, rounds, checkpointOffset, drivers, history, request, calls>>

\* A defect: the test for a pause is missing.
TickWhilePaused(t) ==
  /\ timer[t] # 0
  /\ transferred' = [transferred EXCEPT ![t] = AfterTick(t)]
  /\ timer' = IF AfterTick(t) = Total THEN [timer EXCEPT ![t] = 0] ELSE timer
  /\ UNCHANGED <<state, rounds, checkpointOffset, drivers, history, request, calls>>

\* One firing of the interval.  It does nothing while the task is paused,
\* and disarms the timer when everything is copied.
Tick(t) ==
  /\ timer[t] # 0
  /\ state[t] \notin Paused
  /\ transferred' = [transferred EXCEPT ![t] = AfterTick(t)]
  /\ timer' = IF AfterTick(t) = Total THEN [timer EXCEPT ![t] = 0] ELSE timer
  /\ UNCHANGED <<state, rounds, checkpointOffset, drivers, history, request, calls>>

-----------------------------------------------------------------------------
(***************************************************************************)
(* Asynchronous requests                                                   *)
(***************************************************************************)

Begin(r, kind, t) ==
  /\ Call
  /\ request[r] = Idle
  /\ request' = [request EXCEPT ![r] = [kind |-> kind, task |-> t, step |-> 0]]

\* The request has taken another step; with the last one it is answered.
Proceed(r, last) ==
  request' = [request EXCEPT ![r] =
                IF last THEN Idle ELSE [request[r] EXCEPT !.step = @ + 1]]

InStep(r, kind) == request[r].kind = kind

\* POST .../sync/incremental, up to its first await.
IncrementalBegin(r, t) ==
  /\ Begin(r, "incremental", t)
  /\ UNCHANGED <<taskVars, timer, history>>

\* The lag left after a number of rounds: 45 % of the one before, rounded to
\* the nearest integer, and never under 80.
LagAfter[n \in Nat] ==
  IF n = 0 THEN 2000
  ELSE LET rounded == (LagAfter[n - 1] * 45 + 50) \div 100
       IN IF rounded < 80 THEN 80 ELSE rounded

LastRound(n) == LagAfter[n] < 100 \/ n = MaxRounds

IncrementalRound(r) ==
  /\ InStep(r, "incremental")
  /\ LET n == request[r].step + 1 IN
     /\ rounds' = [rounds EXCEPT ![request[r].task] = n]
     /\ Proceed(r, LastRound(n))
  /\ UNCHANGED <<state, transferred, checkpointOffset, drivers, timer, history, calls>>

\* POST .../driver-injection, up to its first await.
DriverInjectionBegin(r, t) ==
  /\ Begin(r, "drivers", t)
  /\ drivers' = [drivers EXCEPT ![t] = "INJECTING"]
  /\ UNCHANGED <<state, transferred, rounds, checkpointOffset, timer, history>>

\* A defect: the final phase is only set in a task that is in the state of
\* the phase.
DriverInjectionStepGuarded(r) ==
  /\ InStep(r, "drivers")
  /\ LET n == request[r].step + 1 IN
     /\ Proceed(r, n = DriverSteps)
     /\ drivers' = IF n = DriverSteps /\ state[request[r].task] = "DRIVER_INJECTION"
                   THEN [drivers EXCEPT ![request[r].task] = "COMPLETED"] ELSE drivers
  /\ UNCHANGED <<state, transferred, rounds, checkpointOffset, timer, history, calls>>

DriverInjectionStep(r) ==
  /\ InStep(r, "drivers")
  /\ LET n == request[r].step + 1 IN
     /\ Proceed(r, n = DriverSteps)
     /\ drivers' = IF n = DriverSteps
                   THEN [drivers EXCEPT ![request[r].task] = "COMPLETED"] ELSE drivers
  /\ UNCHANGED <<state, transferred, rounds, checkpointOffset, timer, history, calls>>

\* POST .../cutover: the steps are events; the task object is not touched.
CutoverBegin(r, t) ==
  /\ Begin(r, "cutover", t)
  /\ UNCHANGED <<taskVars, timer, history>>

\* A defect: the steps wait for the task to be moved to the cutover state.
CutoverStepWaiting(r) ==
  /\ InStep(r, "cutover")
  /\ state[request[r].task] = "CUTOVER_EXECUTING"
  /\ Proceed(r, request[r].step + 1 = CutoverSteps)
  /\ UNCHANGED <<taskVars, timer, history, calls>>

CutoverStep(r) ==
  /\ InStep(r, "cutover")
  /\ Proceed(r, request[r].step + 1 = CutoverSteps)
  /\ UNCHANGED <<taskVars, timer, history, calls>>

-----------------------------------------------------------------------------
(***************************************************************************)
(* Checkpoints                                                             *)
(***************************************************************************)

\* A defect: an unfinished block is counted as transferred.
OffsetRoundedUp(data) == ((data + Block - 1) \div Block) * Block

\* Whole blocks only: the block being copied is not part of the checkpoint.
OffsetOf(data) == (data \div Block) * Block

\* A defect: the oldest checkpoints are kept.
KeepOldest(list) == SubSeq(list, 1, LeastOf(Len(list), MAX_HISTORY))

KeepLatest(list) == SubSeq(list, 1 + Len(list) - LeastOf(Len(list), MAX_HISTORY), Len(list))

\* POST .../checkpoints
PostCheckpoint(t) ==
  /\ Call
  /\ LET offset == OffsetOf(transferred[t]) IN
     /\ history' = [history EXCEPT ![t] = KeepLatest(Append(@, offset))]
     /\ checkpointOffset' = [checkpointOffset EXCEPT ![t] = offset]
  /\ UNCHANGED <<state, transferred, rounds, drivers, timer, request>>

\* POST .../resume: 404 without a checkpoint; the state is left alone.
PostResume(t) ==
  /\ Call
  /\ history[t] # <<>>
  /\ checkpointOffset' = [checkpointOffset EXCEPT ![t] = history[t][Len(history[t])]]
  /\ UNCHANGED <<state, transferred, rounds, drivers, timer, history, request>>

-----------------------------------------------------------------------------
\* The process ends, at whatever step its requests are, and a new one loads
\* what was saved: the tasks as they are, an injection in progress included,
\* and their checkpoints, but no timer and no request.  (What a restart from
\* an older file loses is the subject of JsonStore.)
Restart ==
  /\ timer' = [t \in TaskIds |-> 0]
  /\ request' = [r \in Requests |-> Idle]
  /\ UNCHANGED <<taskVars, history, calls>>

-----------------------------------------------------------------------------
Clients ==
  \E t \in TaskIds :
    \/ \E s \in MigrationState : PostTransition(t, s)
    \/ \E speed \in Speeds : PostSyncStart(t, speed)
    \/ PostSyncStop(t)
    \/ PostCheckpoint(t)
    \/ PostResume(t)
    \/ \E r \in Requests :
         IncrementalBegin(r, t) \/ DriverInjectionBegin(r, t) \/ CutoverBegin(r, t)

Proceeding(r) == IncrementalRound(r) \/ DriverInjectionStep(r) \/ CutoverStep(r)

Working ==
  \/ Clients
  \/ \E t \in TaskIds : Tick(t)
  \/ \E r \in Requests : Proceeding(r)

Next == Working \/ Restart

\* An armed interval keeps firing and every delay() ends: the event loop
\* starves none of them.  Clients need not send anything.
Fairness ==
  /\ \A t \in TaskIds : WF_vars(Tick(t))
  /\ \A r \in Requests : WF_vars(Proceeding(r))

Spec == Init /\ [][Next]_vars /\ Fairness

-----------------------------------------------------------------------------
(***************************************************************************)
(* Properties                                                              *)
(***************************************************************************)

\* Resuming from a checkpoint never skips data: neither the offset of the
\* task nor any kept checkpoint lies beyond what was copied, although ticks,
\* checkpoints and resumes come in any order.
ResumeNeverSkipsData ==
  \A t \in TaskIds :
    /\ checkpointOffset[t] <= transferred[t]
    /\ \A i \in 1 .. Len(history[t]) : history[t][i] <= transferred[t]

\* The task and the checkpoint list never disagree: at most MAX_HISTORY
\* checkpoints are kept, the offset of a task is that of the latest one, and
\* the latest is also the furthest.
OffsetIsLatestCheckpoint ==
  \A t \in TaskIds :
    /\ Len(history[t]) <= MAX_HISTORY
    /\ IF history[t] = <<>> THEN checkpointOffset[t] = 0
       ELSE /\ checkpointOffset[t] = history[t][Len(history[t])]
            /\ \A i \in 1 .. Len(history[t]) : history[t][i] <= checkpointOffset[t]

Running(kind, t) == \E r \in Requests : request[r].kind = kind /\ request[r].task = t

\* However the injection requests of a task overlap, whatever state the task
\* is moved to meanwhile, and whatever a restart found: when the last of them
\* is answered the task is COMPLETED, and nothing but a request at work
\* changes its driver status.  So only a restart in mid-injection leaves a
\* task INJECTING with nobody at work, and it stays so until a client asks for
\* an injection again.
InjectionsEndCompleted ==
  [][\A t \in TaskIds :
       /\ Running("drivers", t) /\ ~Running("drivers", t)' =>
            drivers'[t] = "COMPLETED" \/ Restart
       /\ drivers'[t] # drivers[t] =>
            Running("drivers", t) \/ Running("drivers", t)']_vars

\* No request, timer or fault takes copied data back, and data moves only
\* under an armed timer of a task that is not paused.
ProgressIsSafe ==
  [][\A t \in TaskIds :
       transferred'[t] # transferred[t] =>
         /\ transferred'[t] > transferred[t]
         /\ timer[t] # 0
         /\ state[t] \notin Paused]_vars

\* The sync ends: once clients are quiet the timer of a task is disarmed,
\* by sync/stop, by the last tick or by a restart, unless the task stays
\* paused.
SyncQuiesces == \A t \in TaskIds : <>[](timer[t] = 0 \/ state[t] \in Paused)

\* Every asynchronous request is answered, unless the process ends before.
RequestsAreAnswered == \A r \in Requests : request[r] # Idle ~> request[r] = Idle

=============================================================================
