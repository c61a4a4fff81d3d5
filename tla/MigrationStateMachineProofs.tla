-------------------- MODULE MigrationStateMachineProofs --------------------
(***************************************************************************)
(* Proofs about MigrationStateMachine, for every set of identifiers and    *)
(* every length of the timelines.                                          *)
(***************************************************************************)
EXTENDS MigrationStateMachine, TLAPS

\* A move leads from a state of the table to a state of the table.
LEMMA TransitionType ==
  ASSUME NEW from \in MigrationState \cup {"ABSENT"}, from # "ABSENT",
         NEW to, CanTransition(from, to)
  PROVE  from \in MigrationState /\ to \in MigrationState
  BY DEF CanTransition, TRANSITIONS, MigrationState, Planning, Copying, Paused, Switching

\* The absent task is well typed.
LEMMA NoTaskType == NoTask \in Task
<1>1. <<>> \in Seq(Entry)
  OBVIOUS
<1>2. QED
  BY <1>1 DEF NoTask, Task

\* Type correctness: every live and durable task is a state with a sequence
\* of timeline entries.
THEOREM TypeCorrect == Spec => []TypeOK
<1>1. Init => TypeOK
  BY NoTaskType DEF Init, TypeOK
<1>2. TypeOK /\ [Next]_vars => TypeOK'
  <2> SUFFICES ASSUME TypeOK, [Next]_vars PROVE TypeOK'
    OBVIOUS
  <2>1. ASSUME NEW id \in TaskIds, createTask(id) PROVE TypeOK'
    BY <2>1 DEF createTask, TypeOK, Task, MigrationState, Planning
  <2>2. ASSUME NEW id \in TaskIds, NEW s \in MigrationState, transition(id, s) PROVE TypeOK'
    <3>1. tasks[id] \in Task
      BY DEF TypeOK
    <3>2. tasks[id].state \in MigrationState
      BY <2>2, <3>1 DEF transition, Exists, Task
    <3>3. [fromState |-> tasks[id].state, toState |-> s] \in Entry
      BY <3>2 DEF Entry
    <3>4. Append(tasks[id].timeline, [fromState |-> tasks[id].state, toState |-> s]) \in Seq(Entry)
      BY <3>1, <3>3 DEF Task
    <3>5. QED
      BY <2>2, <3>1, <3>4 DEF transition, TypeOK, Task
  <2>3. CASE Save
    BY <2>3 DEF Save, TypeOK
  <2>4. CASE Restart
    BY <2>4 DEF Restart, loadSnapshot, TypeOK
  <2>5. CASE UNCHANGED vars
    BY <2>5 DEF vars, TypeOK
  <2>6. QED
    BY <2>1, <2>2, <2>3, <2>4, <2>5 DEF Next
<1>3. QED
  BY <1>1, <1>2, PTL DEF Spec

-----------------------------------------------------------------------------
\* The task transition leaves behind.
Moved(task, s) ==
  [state    |-> s,
   timeline |-> Append(task.timeline, [fromState |-> task.state, toState |-> s])]

\* Appending the entry of a legal move keeps a timeline a path.
LEMMA MoveKeepsPath ==
  ASSUME NEW task \in Task, task.state # "ABSENT", IsPath(task),
         NEW s \in MigrationState, CanTransition(task.state, s)
  PROVE  IsPath(Moved(task, s))
<1> DEFINE tl == task.timeline
           e  == [fromState |-> task.state, toState |-> s]
           tm == Append(tl, e)
<1>1. tl \in Seq(Entry) /\ e \in Entry
  BY DEF Task, Entry
<1>2. /\ tm \in Seq(Entry)
      /\ Len(tm) = Len(tl) + 1
      /\ \A i \in 1 .. Len(tl) : tm[i] = tl[i]
      /\ tm[Len(tm)] = e
      /\ Len(tl) \in Nat
  BY <1>1
<1>3. tm # <<>>
  BY <1>2
<1>4. tm[1].fromState = "IDLE"
  <2>1. CASE tl = <<>>
    BY <1>2, <2>1 DEF IsPath
  <2>2. CASE tl # <<>>
    <3>1. 1 \in 1 .. Len(tl)
      BY <1>1, <2>2
    <3>2. QED
      BY <1>2, <2>2, <3>1 DEF IsPath
  <2>3. QED
    BY <2>1, <2>2
<1>5. \A i \in 1 .. Len(tm) : tm[i].toState \in TRANSITIONS[tm[i].fromState]
  <2> SUFFICES ASSUME NEW i \in 1 .. Len(tm)
               PROVE  tm[i].toState \in TRANSITIONS[tm[i].fromState]
    OBVIOUS
  <2>1. CASE i \in 1 .. Len(tl)
    BY <1>2, <2>1 DEF IsPath
  <2>2. CASE i = Len(tm)
    BY <1>2, <2>2 DEF CanTransition
  <2>3. QED
    BY <1>2, <2>1, <2>2
<1>6. \A i \in 1 .. Len(tm) : i > 1 => tm[i].fromState = tm[i - 1].toState
  <2> SUFFICES ASSUME NEW i \in 1 .. Len(tm), i > 1
               PROVE  tm[i].fromState = tm[i - 1].toState
    OBVIOUS
  <2>1. CASE i \in 1 .. Len(tl)
    <3>1. i - 1 \in 1 .. Len(tl)
      BY <1>2, <2>1
    <3>2. QED
      BY <1>2, <2>1, <3>1 DEF IsPath
  <2>2. CASE i = Len(tm)
    <3>1. i - 1 = Len(tl) /\ i - 1 \in 1 .. Len(tl) /\ tl # <<>>
      BY <1>1, <1>2, <2>2
    <3>2. QED
      BY <1>2, <2>2, <3>1 DEF IsPath
  <2>3. QED
    BY <1>2, <2>1, <2>2
<1>7. QED
  BY <1>2, <1>3, <1>4, <1>5, <1>6 DEF IsPath, Moved

\* What must come before the target of a move was due before its source, or
\* is its source.
LEMMA BeforeOfMove ==
  ASSUME NEW from \in MigrationState, NEW to \in MigrationState, CanTransition(from, to)
  PROVE  Before(to) \subseteq Before(from) \cup ({from} \ {"IDLE"})
  BY DEF CanTransition, TRANSITIONS, Before, MigrationState, Planning, Copying, Paused, Switching

\* A state other than IDLE is the last stage its timeline visited, and a
\* move visits what was visited before.
LEMMA MoveKeepsStages ==
  ASSUME NEW task \in Task, task.state # "ABSENT", IsPath(task), Staged(task),
         NEW s \in MigrationState, CanTransition(task.state, s)
  PROVE  Staged(Moved(task, s))
<1> DEFINE tl == task.timeline
           e  == [fromState |-> task.state, toState |-> s]
           tm == Append(tl, e)
<1>1. tl \in Seq(Entry) /\ e \in Entry /\ task.state \in MigrationState
  BY DEF Task, Entry
<1>2. Len(tm) = Len(tl) + 1 /\ Len(tl) \in Nat /\ \A i \in 1 .. Len(tl) : tm[i] = tl[i]
  BY <1>1
<1>3. Visited(task) \subseteq Visited(Moved(task, s))
  BY <1>2 DEF Visited, Moved
<1>4. task.state # "IDLE" => task.state \in Visited(task)
  <2>1. ASSUME task.state # "IDLE" PROVE Len(tl) \in 1 .. Len(tl) /\ tl[Len(tl)].toState = task.state
    BY <1>1, <2>1 DEF IsPath
  <2>2. QED
    BY <2>1 DEF Visited
<1>5. Before(task.state) \subseteq Visited(task)
  BY DEF Staged
<1>6. Before(s) \subseteq Visited(Moved(task, s))
  BY <1>1, <1>3, <1>4, <1>5, BeforeOfMove
<1>7. QED
  BY <1>6 DEF Staged, Moved

-----------------------------------------------------------------------------
\* What every reachable map satisfies, live and durable.
Inv ==
  /\ TypeOK
  /\ TimelineExplainsState
  /\ NoStageSkipped
  /\ DurableIsThePast
  /\ NothingUnsavedUnnoticed

\* What a call of transition does to the map.
LEMMA TransitionMoves ==
  ASSUME TypeOK, NEW id \in TaskIds, NEW s \in MigrationState, transition(id, s)
  PROVE  /\ tasks[id] \in Task /\ tasks[id].state # "ABSENT"
         /\ CanTransition(tasks[id].state, s)
         /\ tasks' = [tasks EXCEPT ![id] = Moved(tasks[id], s)]
         /\ pending' = TRUE /\ durable' = durable
  BY DEF TypeOK, transition, Exists, Moved

\* A task that was not created has a path of no moves.
LEMMA NoTaskProper == IsPath(NoTask) /\ Staged(NoTask)
  BY DEF NoTask, IsPath, Staged

\* So has a new one.
LEMMA NewTaskProper ==
  LET new == [state |-> "IDLE", timeline |-> <<>>] IN IsPath(new) /\ Staged(new)
  BY DEF IsPath, Staged, Before, Planning, Copying, Paused, Visited

\* The invariant is inductive: a step keeps both maps proper, keeps the
\* durable one a past of the live one and asks for a save when they differ.
THEOREM Invariance == Spec => []Inv
<1>1. Init => Inv
  <2> SUFFICES ASSUME Init PROVE Inv
    OBVIOUS
  <2>1. TypeOK
    BY NoTaskType DEF Init, TypeOK
  <2>2. TimelineExplainsState /\ NoStageSkipped
    BY NoTaskProper DEF Init, TimelineExplainsState, NoStageSkipped
  <2>3. DurableIsThePast /\ NothingUnsavedUnnoticed
    BY DEF Init, DurableIsThePast, NothingUnsavedUnnoticed, IsPrefixOf, NoTask
  <2>4. QED
    BY <2>1, <2>2, <2>3 DEF Inv
<1>2. TypeOK' /\ Inv /\ [Next]_vars => Inv'
  <2> SUFFICES ASSUME TypeOK', Inv, [Next]_vars PROVE Inv'
    OBVIOUS
  <2> USE DEF Inv
  <2>1. ASSUME NEW id \in TaskIds, createTask(id) PROVE Inv'
    <3>1. tasks' = [tasks EXCEPT ![id] = [state |-> "IDLE", timeline |-> <<>>]]
          /\ durable' = durable /\ pending' = TRUE
      BY <2>1 DEF createTask
    <3>2. TimelineExplainsState'
      BY <3>1, NewTaskProper DEF TimelineExplainsState, TypeOK
    <3>3. NoStageSkipped'
      BY <3>1, NewTaskProper DEF NoStageSkipped, TypeOK
    <3>4. tasks[id].timeline = <<>>
      <4>1. tasks[id] \in Task /\ IsPath(tasks[id]) /\ tasks[id].state = "ABSENT"
        BY <2>1 DEF createTask, Exists, TypeOK, TimelineExplainsState
      <4>2. ASSUME tasks[id].timeline # <<>> PROVE FALSE
        <5>1. /\ tasks[id].timeline \in Seq(Entry)
              /\ Len(tasks[id].timeline) \in 1 .. Len(tasks[id].timeline)
          BY <4>1, <4>2 DEF Task
        <5>2. tasks[id].timeline[Len(tasks[id].timeline)].toState \in MigrationState
          <6> DEFINE last == tasks[id].timeline[Len(tasks[id].timeline)]
          <6>1. last \in Entry
            BY <5>1
          <6>2. QED
            BY <6>1 DEF Entry
        <5>3. "ABSENT" \notin MigrationState
          BY DEF MigrationState, Planning, Copying, Paused, Switching
        <5>4. QED
          BY <4>1, <4>2, <5>2, <5>3 DEF IsPath
      <4>3. QED
        BY <4>2
    <3>5. DurableIsThePast'
      BY <3>1, <3>4 DEF DurableIsThePast, TypeOK, IsPrefixOf
    <3>6. QED
      BY <3>1, <3>2, <3>3, <3>5 DEF NothingUnsavedUnnoticed
  <2>2. ASSUME NEW id \in TaskIds, NEW s \in MigrationState, transition(id, s) PROVE Inv'
    <3>1. /\ tasks[id] \in Task /\ tasks[id].state # "ABSENT"
          /\ CanTransition(tasks[id].state, s)
          /\ tasks' = [tasks EXCEPT ![id] = Moved(tasks[id], s)]
          /\ pending' = TRUE /\ durable' = durable
      BY <2>2, TransitionMoves
    <3>2. TimelineExplainsState'
      BY <3>1, MoveKeepsPath DEF TimelineExplainsState, TypeOK
    <3>3. NoStageSkipped'
      BY <3>1, MoveKeepsStages DEF TimelineExplainsState, NoStageSkipped, TypeOK
    <3>4. DurableIsThePast'
      <4> SUFFICES ASSUME NEW j \in TaskIds
                   PROVE  IsPrefixOf(durable[j].timeline, tasks'[j].timeline)
        BY <3>1 DEF DurableIsThePast
      <4>1. IsPrefixOf(durable[j].timeline, tasks[j].timeline)
        BY DEF DurableIsThePast
      <4>2. CASE j # id
        BY <3>1, <4>1, <4>2 DEF TypeOK
      <4>3. CASE j = id
        <5>1. tasks'[id].timeline =
                Append(tasks[id].timeline, [fromState |-> tasks[id].state, toState |-> s])
          BY <3>1 DEF TypeOK, Moved
        <5>2. tasks[id].timeline \in Seq(Entry) /\ durable[id].timeline \in Seq(Entry)
          BY DEF TypeOK, Task
        <5>3. QED
          BY <4>1, <4>3, <5>1, <5>2 DEF IsPrefixOf
      <4>4. QED
        BY <4>2, <4>3
    <3>5. QED
      BY <3>1, <3>2, <3>3, <3>4 DEF NothingUnsavedUnnoticed
  <2>3. CASE Save
    <3>1. tasks' = tasks /\ durable' = tasks
      BY <2>3 DEF Save
    <3>2. TimelineExplainsState' /\ NoStageSkipped' /\ NothingUnsavedUnnoticed'
      BY <3>1 DEF TimelineExplainsState, NoStageSkipped, NothingUnsavedUnnoticed
    <3>3. DurableIsThePast'
      BY <3>1 DEF DurableIsThePast, IsPrefixOf, TypeOK, Task
    <3>4. QED
      BY <3>2, <3>3
  <2>4. CASE Restart
    <3>1. tasks' = durable /\ durable' = durable
      BY <2>4 DEF Restart, loadSnapshot
    <3>2. TimelineExplainsState' /\ NoStageSkipped' /\ NothingUnsavedUnnoticed'
      BY <3>1 DEF TimelineExplainsState, NoStageSkipped, NothingUnsavedUnnoticed
    <3>3. DurableIsThePast'
      BY <3>1 DEF DurableIsThePast, IsPrefixOf, TypeOK, Task
    <3>4. QED
      BY <3>2, <3>3
  <2>5. CASE UNCHANGED vars
    BY <2>5 DEF vars, TypeOK, TimelineExplainsState, NoStageSkipped, DurableIsThePast,
                NothingUnsavedUnnoticed
  <2>6. QED
    BY <2>1, <2>2, <2>3, <2>4, <2>5 DEF Next
<1>3. QED
  BY <1>1, <1>2, TypeCorrect, PTL DEF Spec

\* Whatever the order of moves, saves and crashes, the timeline shown for a
\* task is a legal path that ends in its state.
THEOREM TimelineCorrect == Spec => []TimelineExplainsState
  BY Invariance, PTL DEF Inv

\* No sequence of moves, pauses and crashes lets a task skip a stage.
THEOREM StagesCorrect == Spec => []NoStageSkipped
  BY Invariance, PTL DEF Inv

\* A crash forgets only the end of a task's history, and nothing at all when
\* no save was scheduled.
THEOREM DurabilityCorrect == Spec => []CrashForgetsOnlyTheEnd
  BY Invariance, PTL DEF Inv, CrashForgetsOnlyTheEnd

\* COMPLETED and FAILED are left only by a restart.
THEOREM FinishedCorrect == Spec => FinishedIsFinal
<1>1. [Next]_vars => [\A id \in TaskIds : tasks[id].state \in Finished =>
                        tasks'[id] = tasks[id] \/ tasks'[id] = durable[id]]_vars
  <2> SUFFICES ASSUME Next, NEW id \in TaskIds, tasks[id].state \in Finished
               PROVE  tasks'[id] = tasks[id] \/ tasks'[id] = durable[id]
    OBVIOUS
  <2>1. ASSUME NEW j \in TaskIds, createTask(j) PROVE tasks'[id] = tasks[id]
    BY <2>1 DEF createTask, Exists, Finished
  <2>2. ASSUME NEW j \in TaskIds, NEW s \in MigrationState, transition(j, s)
        PROVE  tasks'[id] = tasks[id]
    <3>1. TRANSITIONS[tasks[id].state] = {}
      BY DEF Finished, TRANSITIONS, MigrationState, Planning, Copying, Paused, Switching
    <3>2. j # id
      BY <2>2, <3>1 DEF transition, CanTransition
    <3>3. QED
      BY <2>2, <3>2 DEF transition
  <2>3. QED
    BY <2>1, <2>2 DEF Next, Save, Restart, loadSnapshot
<1>2. QED
  BY <1>1, PTL DEF Spec, FinishedIsFinal

-----------------------------------------------------------------------------
\* A move of the table stays within its stage or goes to a following one.
LEMMA MoveAdvancesStage ==
  ASSUME NEW from \in MigrationState, NEW to \in MigrationState, CanTransition(from, to)
  PROVE  /\ StageOf(to) \in Lifecycle!Stage
         /\ StageOf(to) = StageOf(from) \/ StageOf(to) \in Lifecycle!Following(StageOf(from))
  BY DEF CanTransition, TRANSITIONS, StageOf, Lifecycle!Following, Lifecycle!Stage,
         MigrationState, Planning, Copying, Paused, Switching

\* The state machine implements the lifecycle: no stage is skipped or
\* revisited, and a restart is the only way back.
THEOREM RefinesLifecycle == Spec => ImplementsLifecycle
<1> DEFINE stage == [id \in TaskIds |-> StageOf(tasks[id].state)]
           kept  == [id \in TaskIds |-> StageOf(durable[id].state)]
<1>1. Init => Lifecycle!Init
  BY DEF Init, NoTask, Lifecycle!Init, StageOf, Planning, Copying, Paused, Switching
<1>2. TypeOK /\ [Next]_vars => [Lifecycle!Next]_(Lifecycle!vars)
  <2> SUFFICES ASSUME TypeOK, [Next]_vars PROVE [Lifecycle!Next]_(Lifecycle!vars)
    OBVIOUS
  <2>1. ASSUME NEW id \in TaskIds, createTask(id) PROVE Lifecycle!Next
    <3>1. tasks[id].state = "ABSENT" /\ tasks'[id].state = "IDLE" /\ durable' = durable
      BY <2>1 DEF createTask, Exists, TypeOK
    <3>2. stage' = [stage EXCEPT ![id] = "planning"] /\ stage[id] = "none"
      <4>1. StageOf("ABSENT") = "none" /\ StageOf("IDLE") = "planning"
        BY DEF StageOf, Planning, Copying, Paused, Switching
      <4>2. \A j \in TaskIds : j # id => tasks'[j] = tasks[j]
        BY <2>1 DEF createTask, TypeOK
      <4>3. QED
        BY <3>1, <4>1, <4>2
    <3>3. Lifecycle!Advance(id, "planning")
      BY <3>1, <3>2 DEF Lifecycle!Advance, Lifecycle!Following
    <3>4. QED
      BY <3>3 DEF Lifecycle!Next, Lifecycle!Stage
  <2>2. ASSUME NEW id \in TaskIds, NEW s \in MigrationState, transition(id, s)
        PROVE  [Lifecycle!Next]_(Lifecycle!vars)
    <3>1. /\ tasks[id] \in Task /\ tasks[id].state # "ABSENT"
          /\ CanTransition(tasks[id].state, s)
          /\ tasks' = [tasks EXCEPT ![id] = Moved(tasks[id], s)] /\ durable' = durable
      BY <2>2, TransitionMoves
    <3>2. tasks[id].state \in MigrationState
      BY <3>1 DEF Task
    <3>3. stage' = [stage EXCEPT ![id] = StageOf(s)] /\ kept' = kept
      <4>1. tasks'[id].state = s /\ \A j \in TaskIds : j # id => tasks'[j] = tasks[j]
        BY <3>1 DEF TypeOK, Moved
      <4>2. kept' = kept
        BY <3>1
      <4>3. \A j \in TaskIds :
              StageOf(tasks'[j].state) = IF j = id THEN StageOf(s) ELSE StageOf(tasks[j].state)
        BY <4>1
      <4>4. stage' = [j \in TaskIds |-> IF j = id THEN StageOf(s) ELSE StageOf(tasks[j].state)]
        BY <4>3
      <4>5. [stage EXCEPT ![id] = StageOf(s)]
              = [j \in TaskIds |-> IF j = id THEN StageOf(s) ELSE StageOf(tasks[j].state)]
        OBVIOUS
      <4>6. QED
        BY <4>2, <4>4, <4>5
    <3>4. CASE StageOf(s) = StageOf(tasks[id].state)
      BY <3>3, <3>4 DEF Lifecycle!vars
    <3>5. CASE StageOf(s) \in Lifecycle!Following(StageOf(tasks[id].state))
      <4>1. Lifecycle!Advance(id, StageOf(s))
        BY <3>3, <3>5 DEF Lifecycle!Advance
      <4>2. QED
        BY <3>1, <3>2, <4>1, MoveAdvancesStage DEF Lifecycle!Next
    <3>6. QED
      BY <3>1, <3>2, <3>4, <3>5, MoveAdvancesStage
  <2>3. CASE Save
    BY <2>3 DEF Save, Lifecycle!Next, Lifecycle!Keep
  <2>4. CASE Restart
    BY <2>4 DEF Restart, loadSnapshot, Lifecycle!Next, Lifecycle!Restart
  <2>5. CASE UNCHANGED vars
    BY <2>5 DEF vars, Lifecycle!vars
  <2>6. QED
    BY <2>1, <2>2, <2>3, <2>4, <2>5 DEF Next
<1>3. QED
  BY <1>1, <1>2, TypeCorrect, PTL DEF Spec, ImplementsLifecycle, Lifecycle!Spec

=============================================================================
