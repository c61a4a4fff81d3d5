# Verification of the SmartX migration game

TLA+ models of the server, of the client's connection to it and of the client's
own migration flow, checked with TLC, and proofs checked with TLAPS about all
of them: every invariant and every refinement that a passing run checks is also
proved, for any values of the constants; liveness is only model-checked.  Paths
are relative to the root of the repository; `server/` stands for `server/src/`
and `client/` for `client/src/`.

## 1. The system

A browser game walks a player through the migration of virtual machines to a
SmartX cluster.  The server keeps migration tasks, checks their moves, runs
the phases, keeps checkpoints and scores, and stores what must survive a
restart.  The client follows its tasks over a WebSocket and renders; it also
has a migration flow of its own, with a state machine and phases like those of
the server, which is the one the player plays.

| Part | State | Operations | Talks to |
|---|---|---|---|
| Migration state machine, `server/simulation/MigrationStateMachine.ts` | map of tasks (state, timeline, errors) | `createTask`, `transition`, `recordError`, `loadSnapshot` | events to the container (which asks the store for a save) and to the WebSocket server |
| Checkpoints, `server/simulation/CheckpointSystem.ts` | list of checkpoints per task | `saveCheckpoint`, `getLatest`, `loadSnapshot` | the task object; event `checkpoint:save` |
| Phases, `server/simulation/phases/*` | a sync timer per task; mapping phases; otherwise the task object | `start`, `stop`, tick, `runIncrementalRounds`, `execute`, `executeCutover`, `attemptMapping`, `assign` | called by the REST handlers, events |
| REST API, `server/transport/restApi.ts` | the mapping phases of each task | one handler per operation | all of the above |
| Store, `server/storage/*` | a file or tables, a debounce timer, saves in progress | `load`, `scheduleSave`, `saveNow`, `shutdown`, the repositories | state machine, checkpoints, accounts |
| Schema migrations, `server/storage/migrate.ts`, `dbCli.ts` | the tables and `schema_meta` | apply, roll back, seed, status, import | SQL stores |
| Accounts, `server/auth/*`, `authRoutes.ts` | users, sessions, pending OIDC flows | register, login, refresh, logout, OIDC start and callback | repositories of the store, the OIDC provider |
| Guest sessions, `server/core/sessions.ts` | tokens in memory, one hour | create, get, purge | REST API, WebSocket upgrade |
| WebSocket server, `server/transport/wsServer.ts` | clients, their subscriptions, a heartbeat | upgrade, subscribe, unsubscribe, beat, forward events, close | event bus |
| WebSocket client, `client/net/socketClient.ts` | socket, wanted subscriptions, reconnect timer | connect, subscribe, unsubscribe, close | `apiClient` for the token |
| Scoring, `server/simulation/ScoringSystem.ts` | counters per task in memory | `apply`, `finalize` | REST API |
| Client flow, `client/main.ts`, `client/simulation/*`, `client/engine/ScoringSystem.ts` | the task, the scan's result, the mapping phase, timers of the phases, the score | a handler per console; what it does after each `await` | the panels, event bus |
| Client UI state, `client/ui/UIManager.ts`, `uiStore.ts`, `ReactUi.tsx` | open flags, one resolver per panel, local state of two panels | `show...`, `submit...`, `acknowledge...` | the flow that awaits the panel |
| Assets, level and tools, `client/engine/AssetLoader.ts`, `TutorialLevel.ts`, `client/fps/*` | cache of promises, the tool in the hand, interactable consoles | `loadGLTF`, `buildTutorialLevelAsync`, `equip`, the E key | the flow's handlers |
| Scene, player, enemies, audio, `client/engine`, `client/fps`, `client/audio` | presentation | rendering, input | event bus |

What is hard in it:

* **Interleavings on one event loop.**  Sync ticks, asynchronous phases and
  requests work on the same task object; a save captures some state before an
  `await` and reads other state after it; account operations look up, await,
  and then write.  In the client every step of the flow awaits a panel or a
  timer while the player can press E at any console.
* **Crashes.**  Everything is in memory and is saved after a debounce of
  200 ms; a crash may fall between any two steps of a save, and between any
  two statements of a schema migration.
* **Partial failures.**  A failed save is logged and not tried again; a failed
  statement leaves the earlier ones in place; a model that fails to load stays
  failed.
* **Connections.**  Sockets are cut without notice, clients reconnect with
  their old token, and messages of an old connection may still be under way.
* **Several processes** migrate one database, or serve from it.

What makes each part correct, in one line each:

* state machine: a task's history is a legal path that explains its state, no
  mandatory stage is skipped, and a restart only takes it back;
* checkpoints: a resume never points beyond what was copied, live or restored;
* phases: whatever overlaps, progress only grows, the last answer decides a
  status, mappings can be completed, and what was started ends;
* stores: what is saved stays, what changed gets saved, and a snapshot is
  consistent;
* schema: a migration is recorded only with its tables, and migrating from
  several processes, with deaths at any point, fails for nobody;
* accounts: one account per person, a login is one chain of sessions, and
  nobody else's request breaks it;
* socket: the server's subscriptions are the client's, there is one
  connection, and a lost one comes back;
* client flow: no handler dies of a refused move, no panel is dead, nothing is
  scored twice, and a copy that was started ends;
* tools: the hand shows the tool that is held.

Every hazard found is listed in `PROJECT.json` at the line where it bites.

## 2. The modules

| Module | Models | Code it follows |
|---|---|---|
| `MigrationTransitions` | the states, the table of moves, `canTransition` | `shared/src/index.ts` 212-229, `MigrationStateMachine.ts` 15-62 |
| `MigrationLifecycle` | **abstract**: stages planning, copying, switching, done/failed, with a durable copy | - |
| `MigrationStateMachine` | tasks, timelines, saves and restarts; implements `MigrationLifecycle` | `MigrationStateMachine.ts`, `container.ts` 69-72 |
| `MigrationStateMachineProofs` | the proofs about it | - |
| `MigrationApi` | the handlers that work on a task, sync timer, asynchronous phases, checkpoints, restarts | `restApi.ts` 222-431, `DataSyncPhase.ts`, `DriverInjectionPhase.ts`, `CutoverPhase.ts`, `CheckpointSystem.ts` |
| `TaskMappings` | the handlers of the network and storage mapping, composed with `MigrationApi` on the same task | `restApi.ts`, `NetworkMappingPhase.ts`, `StorageMappingPhase.ts` |
| `MigrationApiProofs` | the proofs about `TaskMappings`, and so about `MigrationApi` | - |
| `SnapshotRegister` | **abstract**: a durable copy that only moves forward; a crash goes back to it | - |
| `JsonStore` | the JSON file: debounce, capture, temporary file, rename, crash, stop; implements `SnapshotRegister` | `JsonStore.ts`, `index.ts` |
| `JsonStoreProofs` | the proofs about it | - |
| `SqlBackedStore` | the SQL stores: replacement of two tables, by transaction or by statement, several instances; on SQLite implements `SnapshotRegister` | `createStore.ts`, `SqliteStore.ts`, `PostgresStore.ts` |
| `SqlBackedStoreProofs` | the proofs about it | - |
| `SchemaMigrations` | the schema and the processes that migrate, roll back, seed or serve it, statement by statement | `migrate.ts`, `dbCli.ts`, the `migrate` of both SQL stores, `0001_init.*.sql` |
| `SchemaMigrationsProofs` | the proofs about it | - |
| `Accounts` | registration, login, refresh, logout, OIDC, on each store | `authService.ts`, `oidcService.ts`, `authRoutes.ts` |
| `AccountsProofs` | the proofs about it | - |
| `TaskSocket` | both ends of the WebSocket | `wsServer.ts`, `socketClient.ts`, `sessions.ts` |
| `TaskSocketProofs` | the proofs about it | - |
| `MigrationFlow` | the flow controller, its panels with their resolvers, the phases' timers, the scores | `main.ts`, `UIManager.ts`, `uiStore.ts`, `ReactUi.tsx`, the client's `simulation/` and `ScoringSystem.ts` |
| `ToolModels` | the loader's cache, building the level, changing tools while models load | `AssetLoader.ts`, `TutorialLevel.ts`, `ToolSystem.ts`, `ToolViewmodel.ts` |
| `Client` | `main.ts`'s bootstrap: `MigrationFlow` and `ToolModels` in one tab, joined by the E key | `main.ts` 446-480, `InteractionSystem.ts` |
| `ClientProofs` | the proofs about `Client` | - |

How they fit together.  `MigrationStateMachine`, `MigrationApi` and
`MigrationFlow` share the table of `MigrationTransitions` (the client's
`MigrationStateMachine.ts` has the same one).  `MigrationStateMachine` reduces
the store to its promise (a scheduled save makes the whole map durable);
`JsonStore` and `SqlBackedStore` say how the promise is kept, and both are
related to `SnapshotRegister`.  `MigrationApi` abstracts the timeline, which
`MigrationStateMachine` has, and keeps the rest of the task object;
`TaskMappings` adds the two mapping phases to it.  `SqlBackedStore` starts
from a schema that is in place, `SchemaMigrations` is about getting there.

Conventions: an action has the name of the function or the handler it models
(`transition`, `saveCheckpoint`, `submitVCenterLogin`); a request that is
refused before it changes anything is no step.  A definition introduced by "A
defect:" is a plausible bug in the code of the definition after it; no action
uses it.  It stands there so that the properties can be shown to notice it:
replacing the definition by the defect makes TLC report the property that
`PROJECT.json` pairs it with under `mutants`.

Abstractions worth knowing:

* The task's timeline is a sequence of `[fromState, toState]`; time stamps and
  notes are left out.
* Data is counted in units; a checkpoint block is `Block` units; the offset is
  rounded down to whole blocks, as `saveCheckpoint` does.
* A restart in `MigrationApi` ends the timers and the requests, in whatever step
  they are, and keeps the tasks as they are, an injection in progress included;
  in `TaskMappings` it forgets the mapping phases too, which are kept in memory
  only.  That it may go back to an older task is the subject of `JsonStore`.
* `TaskMappings` leaves out the warnings of the phases: they are text in an
  answer that refuses nothing.
* In `JsonStore` the memory is split by *when* a save reads it: Maps are copied
  at the capture, task objects are read when serialising, and a captured list
  of checkpoints sees one push before the code puts a cut copy in its place.
* A file is an inode: a save writes the inode that it opened, even if another
  save renamed it meanwhile.
* In `SqlBackedStore` a checkpoint is its number; a transaction of SQLite is
  one step, and between its two transactions nothing else of the process runs.
  The database, SQLite or Postgres, is the variable `transactional`.
* In `SchemaMigrations` a step is a statement.  SQLite's exclusive transaction
  and Postgres's advisory lock are the one variable `lock`; they differ in
  what others see meanwhile (`View`, `Put`) and in what a death leaves.
* In `Accounts` the store is a choice made at the start; a request that has
  read and not yet written keeps others out unless the store is Postgres: on
  the other two it awaits only promises that are settled, and the event loop
  runs such awaits to their end before it takes the callback of another
  request.  The roles, which `upsertOidcUser` refreshes at each login, are left
  out.
* In `TaskSocket` the reconnect timer may fire at any time (its delay is left
  out), and messages are a queue from the client to the server.  The network
  may cut a connection so that the client notices (`Drop`) or lose it so that
  it may never notice (`Lose`): the client never pings, and the server's end is
  ended by the heartbeat, which the model does in the same step.  A constructor
  that throws counts among the cuts.
* In `MigrationFlow` the code between two `await`s is one action.  A handler
  that awaits a panel is the panel's membership in `awaited`, because
  `UIManager` keeps one resolver per panel and forgets the handler whose
  resolver is replaced; one that awaits timers is an element of `running`.  A
  move that the client's state machine refuses throws; the model only notes
  it in `refused`, since what follows is unreachable as long as
  `MovesAreLegal` holds.  The branch for a scan that plants no fault is left
  out: the mock scan always finds machines.
* In `ToolModels` the look of the level is left out; of its models only
  whether the fetch has ended is kept.

## 3. The runs

| Run | Question | Bounds, and why they suffice |
|---|---|---|
| `fsm` | Do history and state of a task agree, is no stage skipped, does a crash forget only the end, through saves and restarts? Does the machine implement the lifecycle? | One task (tasks do not interact), 15 moves: the 13 of a whole migration plus a pause and a resume. For all bounds: proved, section 5. |
| `api` | Do interleaved requests, ticks, phases and restarts leave a task consistent, and does everything end? Can a network be completed, and does a task carry its mappings, whatever lists come and whatever is refused? | A task in any state; a disk of 5 in blocks of 3 with ticks of 3: one tick ends on the border of a block, the next at the end of the disk, inside one. Two asynchronous requests at a time, four calls, a history of two: a start and three checkpoints overflow it. Two vSwitches for two bridges: a vSwitch connected twice leaves none for the other. The first request for a storage mapping may list the pool, the machine, both or neither. Restarts at any point; they keep the task and forget the phases. 451 632 states, 116 s; with four rounds and phases of two steps the same calls take longer than the five minutes a run may, and everything here but the two liveness properties is proved for every value of the bounds (section 5). |
| `json_store` | Does the file stay whole and consistent, and does every change reach it, through crashes, failed steps and stops? | Saves that do not overlap (`NoOverlap`), two changes of each kind, a history of 1 that overflows. A stop without a noted change may come while a save runs; one with a noted change and a save running would overlap, as in the next run. 580 404 states. |
| `json_store_writers` | Is there one writer at a time? No. | Two saves. |
| `sql_store` | Is no noted change forgotten, do the tables stay consistent through a crash between the two replacements, are the tasks a register like the file? | Both databases, two tasks, three checkpoints in a history of 1 (trimmed twice), two crashes. 763 864 states. |
| `postgres_instances` | Can instances share a database? No. | Two instances. |
| `schema` | Is what is recorded there, can everybody migrate at once, does every command end, through deaths anywhere? | Both databases, three processes with any of four commands: one that holds the lock, one that waits, one that dies or rolls back between them. 57 927 states. |
| `schema_rollback` | Does rolling back succeed? No. | Two processes. |
| `socket` | Do the server's subscriptions follow the client's? Is there one connection? Does a client come back, and are dead connections reaped? | Two tasks under a limit of 1; two connections; three among `connect()` calls, cuts or restarts, and subscriptions. Whether the session lasts is a choice at the start. 274 984 states, 85 s; a queue of two takes longer than the five minutes a run may, and its order is what `FollowsCorrect` proves for any length. |
| `socket_session` | Does a client come back when its session may end? No. | One cut, restart or expiry. |
| `accounts` | Do overlapping account requests keep accounts unique, logins single and lasting, and flows single-use? | Two requests (every race here is between two), two logins, one identity, three sessions: a login and two refreshes or two logins and one; `FLOW_MAX` 1 with three flows. |
| `client_flow` | Does the flow survive a player who presses E at any time, answers late, twice or never, and changes tools meanwhile? | Two vSwitches and bridges (pairs can be crossed), two kinds of faults (one or both planted), phases of two timers (one to go on, one to end), ticks of 10 percent: several in the challenge's window of 30 to 80 and after the threshold of 90. Two tools and three changes: away from a tool and back to it, its first model arriving before, between or after. 363 051 states, 70 s. |

Symmetry is used in `accounts` (requests, logins) and `sql_store` (tasks),
whose properties are invariants and one action property; no run that checks
liveness uses it.  `CHECK_DEADLOCK FALSE`: in `client_flow` the player
may stop; in the `schema` runs commands end.

What the passing runs show, by property:

* `TimelineExplainsState`, `NoStageSkipped`, `ImplementsLifecycle`: the
  transition table and the one function that uses it are enough to keep the
  promise that a migration is never cut over unsynced.
* `CrashForgetsOnlyTheEnd`: the three events the container listens to cover
  every change of the map, so a restart goes back along a task's own history.
* `ResumeNeverSkipsData`, `OffsetIsLatestCheckpoint`: a resume is safe at any
  time, because offsets are rounded down and data never shrinks.
  `ResumeIsSafeAfterRestart` says the same of what is restored, although a save
  reads the pieces of a task at different moments.
* `InjectionsEndCompleted`: when the last of any overlapping injections of a
  task is answered the task is COMPLETED, and only injections touch that
  status.  So a task is left INJECTING with nobody at work by a restart in
  mid-injection only; the code has nothing that ends or reports it before a
  client asks for an injection again.
* `ProgressIsSafe`, `SyncQuiesces`, `RequestsAreAnswered`: overlapping phases on
  one task are harmless in these respects.
* `NetworkCanBeCompleted`: bridges are never shared, and a client that connects
  no source twice can always finish, whatever was refused.  A client that
  does connect a source twice may not: the source keeps both bridges.
* `TaskCarriesItsMappings`: whatever lists the requests carry, a mapping is of
  the list the phase was made of, a machine has one pool, and the task carries
  what its phases gave it, beside which a phase starts empty after a restart.
* `FileIsWhole`, `ChangesAreNotedOrSaved`, `NewerFileIsKept`,
  `ChangesReachTheFile`, `ImplementsRegister`: the debounce and the rename do
  what they are for, as long as saves do not overlap and the process is not
  ended under a save.  It may be: a stop that finds nothing noted does not wait
  for a save that is already running (`JsonStore.ts` 186), and what that save
  carries is lost with the exit, on a disk that does not fail.  The model has
  this stop, and `ChangesAreNotedOrSaved` says nothing of it.
* `CheckpointsNotAheadOfTasks`, `NoChangeForgotten`: the order in which the
  two tables are replaced is the safe one, and a change that comes while the
  statements of a save are under way causes another save.
* `RecordIsTrue`, `MigratingSucceeds`, `EveryCommandEnds`: `IF NOT EXISTS` in
  the script, reading what is applied under the lock, and a lock that dies
  with its holder make migrating safe to repeat and to do together.
* `AccountsAreUnique`, `RefreshNeverForks`, `LoginsLast`, `FlowsAreUsedOnce`:
  which races the stores exclude, and which they do not: logins are unique on
  the databases only, and a refresh is exclusive on JSON and SQLite only.
* `ServerFollowsClient`, `OneConnection`, `BackOnline`,
  `DeadConnectionsAreReaped`: the reconnect logic.  One connection is stated
  for a client that connects once, as `main.ts` does; coming back for one
  whose session lasts.
* `MovesAreLegal`, `PanelsAreLive`: the flow keeps its handlers apart by the
  state of the task alone, and that is enough although E is never blocked: the
  handler that lost its resolver stays silent, and the one that is resumed
  finds the state its panel belongs to.
* `ScoredOnce`: no event counts twice, and the storage points agree with the
  mapping the task carries.
* `MappingsAgree`: the panel keeps its own pairs and the phase behind it is
  made anew when the console is used again; in the end they agree.
* `SyncCompletes`: from the copy on, the migration ends without the player.
* `HandShowsTool`: the generation counter of `ToolViewmodel` does its work.

What the other runs show is a disagreement between the code and what is said
of it, each with its quotation in `PROJECT.json` under `findings`: two saves
of one process can overlap and share one temporary file; instances on one
database replace each other's tasks; rolling the migration back drops the
table its record is then deleted from, so that it never succeeds; a client
whose session has ended reconnects for ever with the old token.

### Fairness

* `MigrationApi`: weak fairness of `Tick` and of the steps of each asynchronous
  request.  An armed `setInterval` fires and a `delay()` resolves.  Clients
  are under no obligation.
* `JsonStore`, `SqlBackedStore`: weak fairness of the timer and of the steps of
  a save.  File operations and statements end; they may fail, and then no more
  is promised.
* `SchemaMigrations`: weak fairness of each process's next statement.  A
  statement ends; the wait for a lock ends because whoever holds it goes on or
  dies, and nobody takes it twice.  Dying is never forced.
* `TaskSocket`: weak fairness of the reconnect timer, the heartbeat, the
  dispatch of socket events, the server's answers and pongs.  Nothing is
  assumed of the player or of either end's noticing that the other is gone.
  `BackOnline` is stated for a session that lasts, which includes that no
  connection is lost silently: a client that never notices never reconnects.
* `Client`: weak fairness of the timers of the phases and of the tick of the
  sync.  The browser runs every timer of a tab that is open.  Nothing is
  assumed of the player, and nothing of a fetch.
* `MigrationStateMachine`, `Accounts`: none; only safety is stated.

## 4. What is not modelled

* `deleteTask` and `recordError` of the state machine, and in the client
  `handleNetworkFault`, `triggerRandomChallenge`, `addSpeedBonus` and
  `activateSmartProbe`, have no caller.
* The server's scan, compatibility and post check return mock data after a
  fixed delay and keep no state; its scores are additive counters that nothing
  else reads.
* Tokens and password hashes are calls of libraries without state; refused
  ones change nothing.  Rate limits and validation only refuse.
* The forwarding of events to subscribers: it keeps no state, what was missed
  is not replayed, and no document says that it is.
* The limit of 5000 tasks of `load`, which no instance of the model reaches; the import of a JSON file by the database
  CLI; the audit log.
* The time limit of a challenge, which `docs/design.md` speaks of and the code
  does not have.
* Rendering, movement, geometry, lights, animation and sound; the enemies,
  which `main.ts` never starts.

## 5. The proofs

`MigrationStateMachineProofs` proves, for any set of task identifiers and any
`MaxTimeline` in `Nat`:

| Theorem | Says |
|---|---|
| `TypeCorrect` | `Spec => []TypeOK` |
| `TimelineCorrect` | `Spec => []TimelineExplainsState` |
| `StagesCorrect` | `Spec => []NoStageSkipped` |
| `DurabilityCorrect` | `Spec => []CrashForgetsOnlyTheEnd` |
| `FinishedCorrect` | a completed or failed task moves only by a restart |
| `RefinesLifecycle` | `Spec => Lifecycle!Spec` |

The argument.  Type correctness comes first, alone.  That a timeline explains
its state (`IsPath`) is inductive with it: a move appends an entry that starts
at the old state and is in the table, and a restart exchanges one path for
another, which is why the invariant speaks of the durable tasks too.  No stage
is skipped because the table is *closed*: for every move `s -> n`, what must
come before `n` is what must come before `s`, and `s` itself at most
(`StagedMove`).  That lemma is a finite fact about the table, proved state by
state; the invariant then needs only that the state of a task that has moved
is in its own history.  Durability is inductive as it stands: after a save both
copies are equal, and a move only extends the live one and schedules a save.
The refinement maps every state to its stage; each move is a stutter or a step
of the lifecycle by the table again, and a restart of the machine is a restart
of the lifecycle because the durable copy is mapped with the same function.
The only assumption is `MaxTimeline \in Nat`.

`MigrationApiProofs` proves about `SpecMappings`, for any tasks, requests,
sources, disk, tick, block, history and numbers of calls:

| Theorem | Says |
|---|---|
| `TypeCorrect` | `SpecMappings => []TypeOK` |
| `ResumeCorrect` | `SpecMappings => []ResumeNeverSkipsData` |
| `OffsetCorrect` | `SpecMappings => []OffsetIsLatestCheckpoint` |
| `InjectionsCorrect` | `SpecMappings => InjectionsEndCompleted` |
| `ProgressCorrect` | `SpecMappings => ProgressIsSafe` |
| `NetworkCorrect` | `SpecMappings => []NetworkCanBeCompleted` |
| `MappingsCarried` | `SpecMappings => []TaskCarriesItsMappings` |

The argument.  What must be kept about checkpoints (`Trusted`) is that each of
them is at most the offset of the task and the offset at most the *whole
blocks* of what was copied, not just at most what was copied: rounding down is
monotone (`OffsetGrows`), so that both copying on and the next checkpoint keep
it, and cutting the history keeps its last element (`LatestKept`).  The
last injection to be answered leaves COMPLETED because a request in progress has
not made its last step (`Unfinished`), and it ends with the step that sets the
status; a restart ends them all and sets nothing.  The network phases
need only what each of them keeps by itself (`Fits`): as many bridges are
occupied as mappings completed, and the pending sources are the sources without
the connected ones.  If no source was connected twice, as many bridges are
occupied as sources connected, so that the free bridges are at least as many as
the pending sources: an argument about cardinalities, which is why
`ListsAssumption` says that the lists of a request are finite.
That the task carries its mappings is inductive together with the shape of the
phases: each accepted request writes the phase and the task in one step, a
refused one leaves the list of mappings as it was, and a restart empties it.
The other assumption is `SizesAssumption`.

`SchemaMigrationsProofs` proves, for any set of processes with any commands:

| Theorem | Says |
|---|---|
| `RecordCorrect` | `Spec => []RecordIsTrue` |
| `MigratingCorrect` | `Spec => []MigratingSucceeds` |

The argument.  Whoever is between two statements holds the lock (`Exclusive`),
so what it sees changes only by its own statements, and each of them finds what
the one before has left (`Known`): the tables are there when the record is
made, and the record is not when the script is run.  A death gives the lock
back and leaves, on Postgres, the prefix of what was done; that a prefix is
never recorded without its tables (`Sound`) is what makes repeating it safe.
The assumption is `ProcessesAssumption`: no process is called `"none"`.

`AccountsProofs` proves, for any requests, logins, identities and bounds:

| Theorem | Says |
|---|---|
| `AccountsCorrect` | `Spec => []AccountsAreUnique` |
| `RefreshCorrect` | `Spec => []RefreshNeverForks` |
| `LoginsCorrect` | `Spec => []LoginsLast` |
| `FlowsCorrect` | `Spec => []FlowsAreUsedOnce` |

The argument.  With a database the UNIQUE columns decide.  On the JSON store only
the event loop does: at most one request is between its look-up and its write
(`Alone`), and what it did not find is still not there (`Absent`).  A login is
a chain that passes from a session that is alive to a request that is about to
issue the next one, and back.  It has such an end on every store until it is
ended (`Lasting`); it has just one on the stores that do not await between
reading and revoking (`Single`), because a session that a request is about to
rotate is then still alive.  Authorisation flows are kept in the order in which
they were started, each once, and a flow is taken out before it is exchanged:
the flow of a request that exchanges is not among those kept, and no other
request has it (`Exchanges`).  The assumption is `BoundsAssumption`.

`ClientProofs` proves about `Client`, for any sources, faults, tools, numbers
of virtual machines and steps:

| Theorem | Says |
|---|---|
| `Invariance` | `Spec => []Inv` |
| `MovesCorrect` | `Spec => []MovesAreLegal` |
| `PanelsCorrect` | `Spec => []PanelsAreLive` |
| `HandCorrect` | `Spec => []HandShowsTool` |
| `NetworkAgrees` | `Spec => []MappingsAgree` |
| `ScoresCorrect` | `Spec => []ScoredOnce` |

The argument for the first three.  `MovesAreLegal` is not inductive: it says
nothing of which handler may be resumed when.  `Inv` adds that every panel but
the challenge, and every wait for timers, belongs to one state of the task
(`StateFits`), and that there is at most one of them at a time (`OneAtATime`).
The handler that is resumed then makes the move of that state, which is in the
table (`MovesOfTheFlow`), and leaves a state in which the next panel or wait
fits.  The challenge is the exception: it has no state and moves nothing.  For
the hand, `HandInv` says of the calls that wait for a model that their
generations do not exceed the current one, that the latest is for the tool
that is held, and that there is one while its model loads; a model that
arrives late then finds a newer generation.

`MappingsAgree` and `ScoredOnce` rest on `Inv`: it says which panel may be
answered, and so in which state the mapping or the score is made.  `Mapped`
adds that the panel's pairs are on bridges that differ and that the phase
behind an open panel is a new one, so that the phase refuses none of the pairs
when they are confirmed; `Scored` says of every event of the score in which
states it may have happened already.  Both
speak of folds over the pairs, which are recursive.  What a fold returns is not
proved by an induction principle, whose parameter is an operator, but by the
smallest counterexample: a non-empty set of positions has a smallest element
(`Smallest`, from the well-foundedness of the subsets of a finite set), and the
equations of the fold lead from one position to the next (`AllAreTaken`).

The assumptions are `FlowAssumption` (the numbers are positive, a tick is
small), `ToolAssumption` (tools are not named like the other models) and
`FaultsAssumption` (the scan plants faults of the catalog).

`JsonStoreProofs` proves, for any number of saves, any history and any bounds:

| Theorem | Says |
|---|---|
| `ResumeCorrect` | `Spec => []ResumeIsSafeAfterRestart` |
| `NewerFileKept` | `Spec => NewerFileIsKept` |
| `FileWhole` | with `NoOverlap`: `Spec => []FileIsWhole` |
| `NothingForgotten` | with `NoOverlap`: `Spec => []ChangesAreNotedOrSaved` |
| `RegisterImplemented` | with `NoOverlap`: `Spec => ImplementsRegister` |

The argument.  The first two need no hypothesis: they hold although saves
overlap.  Every memory there is, in the process, in a file or on its way to
one, has its checkpoints within its offset and its offset within its progress
(`Trusted`); of a save that has not serialised yet only the list of checkpoints
is fixed, and the offset it will read later can only be larger.  A file of a
newer program makes the store read-only, and then no save is scheduled or runs
(`Guarded`).  The other three are false when saves overlap, as run
`json_store_writers` shows, and `NoOverlap` is the hypothesis that they do not:
no save begins while another runs, be it by the timer or by a stop.  A stop that
has nothing noted is free to come while a save runs, and its exit ends that save
where it is.
Then what the save has written is in the temporary file and in nothing else
(`Alone`), so the rename puts a whole file in place; file, save and memory are
in this order (`Forward`), so a rename moves the register forward and a crash
takes it back to the file; and while no change is noted, the save in progress
carries them all, or the file has them (`Lossless`), until the process exits.
`ChangesAreNotedOrSaved` ends there on purpose: the exit may lose what a running
save carries.  The assumption is `BoundsAssumption`.

`SqlBackedStoreProofs` proves, on both databases, for any tasks, any history
and any bounds, about one process whose saves do not overlap:

| Theorem | Says |
|---|---|
| `OrderCorrect` | `Spec => []CheckpointsNotAheadOfTasks` |
| `NothingForgottenCorrect` | `Spec => []NoChangeForgotten` |
| `RegisterImplemented` | `Spec => ImplementsRegister` |

The argument.  The hypothesis is `OneSaveAtATime`: one instance, one slot for
its saves, as in run `sql_store`.  Several instances replace each other's rows
(run `postgres_instances`), and on SQLite a save keeps everything else out
until it ends, so that one slot is all a process uses there; on Postgres it is
a hypothesis about how long the statements take.  `Listed` says that the rows
of a task are its list or, while Postgres inserts them, its beginning.
`Behind` says that on SQLite the tables are never ahead of the memory, and that
between the two transactions the first table is the memory's: what is inserted
second is of the same moment.  (On Postgres, whose tables are empty in the
middle of a save, `CheckpointsNotAheadOfTasks` claims nothing.)  `Written` says
of each stage of a save what is written and what is left to write, as long as no change is
noted; a change notes itself, and the end of the save leaves the tables equal
to the memory.  On SQLite a step either creates a task, makes the table the
memory, or goes back to the table (`StepOfTable`), which are the steps of
`SnapshotRegister` counted in tasks.

`TaskSocketProofs` proves, for any number of connections, tasks, messages under
way, cuts and restarts:

| Theorem | Says |
|---|---|
| `FollowsCorrect` | `Spec => []ServerFollowsClient` |
| `OneConnectionCorrect` | `Spec => []OneConnection` |

The argument.  A connection that is not open yet has carried nothing (`Fresh`),
so that what is sent when it opens is all the server is told.  From then on the
last message about a task under way decides whether the server will hold it
(`WillHold`): sending appends the last one, and handling the first one changes
nothing that a later one decides.  That the server refuses what is beyond its
limit is part of it: the set stays within the limit (`Capped`), and what was
refused is noted.  A second connection could only come from the reconnect
timer; it is armed only when the client holds no socket, and, while `connect()`
was called at most once, that is when the last one is gone or could not be made
(`Single`).  The
assumption is `BoundsAssumption`.

Only model-checked: liveness, which is out of the provers' reach:
`SyncQuiesces`, `RequestsAreAnswered`, `ChangesReachTheFile`,
`EveryCommandEnds`, `BackOnline`, `DeadConnectionsAreReaped` and
`SyncCompletes`.

## 6. What could follow

1. Which of the theorems about `SqlBackedStore` hold on Postgres when saves of
   one process overlap, and on SQLite for any number of slots.
2. The safety that liveness rests on (a request that is not answered has a step
   to make, a noted change has a timer or a save), as invariants with proofs.
3. Forwarded events in `TaskSocket`, if a replay is ever promised.
4. The limit of `load` in `SqlBackedStore`, if the code gets an answer to it.
