---------------------------- MODULE MigrationFlow ----------------------------
(***************************************************************************)
(* The migration as the player of the client lives it: main.ts's flow      *)
(* controller, the panels it waits for and the timers of its phases.       *)
(*                                                                         *)
(* Pressing E at a console calls a handler that shows a panel and awaits   *)
(* it.  UIManager keeps ONE resolver per panel: showing a panel again      *)
(* replaces the resolver, and the handler that was waiting is never        *)
(* resumed.  Nothing keeps the player from pressing E while a panel is     *)
(* open.  A handler that waits for a panel is therefore the panel's        *)
(* membership in "awaited"; one that waits for timers or for the progress  *)
(* of the copy is an element of "running".  The code between two awaits    *)
(* runs without interruption: it is one action.                            *)
(***************************************************************************)
EXTENDS Integers, Sequences, SequencesExt, FiniteSetsExt, MigrationTransitions

CONSTANTS Sources,      \* the vSwitches of the scan, and one bridge for each
          FaultTypes,   \* the kinds of faults the scan can bring up
          VmCount,      \* the VMs the compatibility check walks through
          TickPercent,  \* what one tick of the sync adds to the percentage
          InjectionSteps, CutoverSteps, PostCheckSteps  \* timers of a phase

ASSUME FlowAssumption ==
  /\ \A n \in {VmCount, TickPercent, InjectionSteps, CutoverSteps, PostCheckSteps} : n \in Nat \ {0}
  /\ TickPercent <= 10  \* far below the distance of the thresholds

VARIABLES
  state,       \* task.state, or "none" before createTask
  scanned,     \* whether envResult is set
  refused,     \* whether a transition was ever refused (it throws)
  shown,       \* the panels on the screen: UiState's open flags
  awaited,     \* the panels whose resolver is set
  faults,      \* UiState.fault.faults
  resolutions, \* UiState.fault.resolutions: fault -> "use" or "ignore"
  pairs,       \* NetworkPanel's localCompleted: <<source, bridge>>, in order
  phase,       \* networkPhase's completed and pending mappings
  storage,     \* task.storageMapping and task.storageWarning
  running,     \* the handlers waiting for timers or for progress
  percent,     \* progress.fullSyncPercent
  ticking,     \* whether the interval of the sync is armed
  challenged,  \* challengeFired
  checkpoint,  \* the percentage of the last checkpoint
  applied,     \* how often each scoring rule was applied
  hudScore,    \* the score on the HUD
  finalScore   \* the total on the score panel, once it is shown

uiVars == <<shown, awaited, faults, resolutions, pairs>>
mapVars == <<phase, storage>>
syncVars == <<percent, ticking, challenged, checkpoint>>
scoreVars == <<applied, hudScore, finalScore>>
flowVars == <<state, scanned, refused, uiVars, mapVars, running, syncVars, scoreVars>>

Panels == {"login", "env", "faults", "compat", "network", "storage", "challenge"}
Bridges == Sources

\* SCORING_RULES that the flow applies, with their points.
Points == [rule \in {"USED_IO_LOCALITY", "USED_RDMA", "USED_CHECKPOINT_RESUME", "PERFECT_STORAGE_MAPPING",
                     "ZERO_DOWNTIME", "AGENTLESS_AWARENESS", "FIXED_FAULT_SNAPSHOT", "FIXED_FAULT_MTU",
                     "FIXED_FAULT_RDMA", "WRONG_STORAGE_TIER", "IGNORED_SNAPSHOT_WARNING",
                     "IGNORED_FAULT_MTU", "IGNORED_FAULT_RDMA", "MANUAL_RESTART_TRANSFER"} |->
  CASE rule = "USED_RDMA"                -> 200
    [] rule = "PERFECT_STORAGE_MAPPING"  -> 200
    [] rule = "ZERO_DOWNTIME"            -> 300
    [] rule = "AGENTLESS_AWARENESS"      -> 50
    [] rule \in {"FIXED_FAULT_SNAPSHOT", "FIXED_FAULT_MTU"} -> 120
    [] rule = "WRONG_STORAGE_TIER"       -> -200
    [] rule = "IGNORED_SNAPSHOT_WARNING" -> -100
    [] rule = "IGNORED_FAULT_MTU"        -> -120
    [] rule \in {"IGNORED_FAULT_RDMA", "MANUAL_RESTART_TRANSFER"} -> -150
    [] OTHER                             -> 150]

Rules == DOMAIN Points

\* FAULT_CATALOG: the rule for a fault that is repaired or ignored.
fixRule == [f \in {"UNMERGED_SNAPSHOT", "MTU_MISMATCH", "RDMA_UNSUPPORTED"} |->
  CASE f = "UNMERGED_SNAPSHOT" -> "FIXED_FAULT_SNAPSHOT"
    [] f = "MTU_MISMATCH"      -> "FIXED_FAULT_MTU"
    [] OTHER                   -> "FIXED_FAULT_RDMA"]

ignoreRule == [f \in DOMAIN fixRule |->
  CASE f = "UNMERGED_SNAPSHOT" -> "IGNORED_SNAPSHOT_WARNING"
    [] f = "MTU_MISMATCH"      -> "IGNORED_FAULT_MTU"
    [] OTHER                   -> "IGNORED_FAULT_RDMA"]

\* The scan plants faults of the catalog.
ASSUME FaultsAssumption == FaultTypes \subseteq DOMAIN fixRule

\* The three pools of the level and what they support.
StoragePools == {"nvme", "ssd", "hdd"}
IoLocalitySupport(pool) == pool # "hdd"
RdmaSupport(pool) == pool = "nvme"

\* checkStorageMismatch for the one VM that is placed: a database of 80 GB.
checkStorageMismatch(pool) ==
  CASE pool = "nvme" -> "none"
    [] pool = "ssd"  -> "TIER_MISMATCH"
    [] OTHER         -> "PERFORMANCE_DOWNGRADE"

\* The client's own FSM, asked for one move or for several in a row: a move
\* outside the table throws.  What a handler would skip after the throw is
\* not modelled: MovesAreLegal has failed by then.
Legal(path) ==
  \A i \in DOMAIN path : CanTransition(IF i = 1 THEN state ELSE path[i - 1], path[i])

Transitions(path) ==
  /\ state' = IF Legal(path) THEN Last(path) ELSE state
  /\ refused' = (refused \/ ~Legal(path))

Transition(next) == Transitions(<<next>>)

\* UIManager.show...Panel: the panel opens and its resolver is replaced.
Show(panel) ==
  /\ shown' = shown \cup {panel}
  /\ awaited' = awaited \cup {panel}

\* A defect: the resolver is not reset.
SubmitKeeping(panel, next) ==
  /\ panel \in awaited
  /\ shown' = (shown \ {panel}) \cup next
  /\ awaited' = awaited \cup (next \cap Panels)

\* UIManager.submit...: the resolver is taken and the panel closed; the
\* handler it resumes may open the next panel at once.
Submit(panel, next) ==
  /\ panel \in awaited
  /\ shown' = (shown \ {panel}) \cup next
  /\ awaited' = (awaited \ {panel}) \cup (next \cap Panels)

\* The panels on the screen: when the button of each answers.
LoginPanel == "login" \in shown
EnvResultPanel == "env" \in shown
CompatPanel == "compat" \in shown
ChallengeModal == "challenge" \in shown
StoragePanelView == "storage" \in shown

\* Every fault has been decided.
FaultPanelView == "faults" \in shown /\ faults # {} /\ faults \subseteq DOMAIN resolutions

\* Every vSwitch has been mapped.
NetworkPanel == "network" \in shown /\ \A s \in Sources : \E m \in ToSet(pairs) : m[1] = s

\* Scoring: each of the rules once more; the HUD shows the total of them all.
Total(counts) == MapThenSumSet(LAMBDA r : counts[r] * Points[r], Rules)

Apply(rules) ==
  /\ applied' = [r \in Rules |-> applied[r] + IF r \in rules THEN 1 ELSE 0]
  /\ hudScore' = Total(applied')

\* A handler's await of a phase: it starts to wait for n timers in a row,
\* goes on to do so, or is done.  Handlers in the same wait would be one element: as every wait has
\* a state of its own, the second would have been refused its move first.
Wait(at, n) == [at |-> at, left |-> n]
Waits(at, n) == running' = running \cup {Wait(at, n)}
GoesOn(h, at, n) == running' = (running \ {h}) \cup {Wait(at, n)}
Leaves(h) == running' = running \ {h}

NoPhase == [completed |-> {}, pending |-> {}]
NoStorage == [pool |-> "none", warning |-> "none", validated |-> FALSE]

FlowInit ==
  /\ state = "none" /\ scanned = FALSE /\ refused = FALSE
  /\ shown = {} /\ awaited = {} /\ faults = {} /\ resolutions = <<>> /\ pairs = <<>>
  /\ phase = NoPhase /\ storage = NoStorage
  /\ running = {}
  /\ percent = 0 /\ ticking = FALSE /\ challenged = FALSE /\ checkpoint = 0
  /\ applied = [r \in Rules |-> 0] /\ hudScore = 0 /\ finalScore = <<>>

\* ----- scan, faults, compatibility: onCommandConsole -------------------
\* A defect: the stage is read off the result of the scan.
CommandConsoleUntilScanned ==
  /\ ~scanned
  /\ state' = IF state = "none" THEN "IDLE" ELSE state
  /\ Show("login")
  /\ UNCHANGED <<scanned, refused, faults, resolutions, pairs, mapVars, running, syncVars, scoreVars>>

onCommandConsole ==
  /\ state \in {"none", "IDLE"}
  /\ state' = "IDLE"
  /\ Show("login")
  /\ UNCHANGED <<scanned, refused, faults, resolutions, pairs, mapVars, running, syncVars, scoreVars>>

submitVCenterLogin ==
  /\ LoginPanel
  /\ Submit("login", {"scan"})
  /\ Transition("ENV_SCAN")
  /\ Waits("scan", 1)
  /\ UNCHANGED <<scanned, faults, resolutions, pairs, mapVars, syncVars, scoreVars>>

ScanEnds(h) ==
  /\ h.at = "scan" /\ h.left = 1
  /\ Leaves(h)
  /\ scanned' = TRUE
  /\ shown' = (shown \ {"scan"}) \cup {"env"}
  /\ awaited' = awaited \cup {"env"}
  /\ UNCHANGED <<state, refused, faults, resolutions, pairs, mapVars, syncVars, scoreVars>>

\* One or two kinds of faults are planted at random; as the scan always finds
\* machines, there is never none.
acknowledgeScanResults ==
  /\ EnvResultPanel
  /\ Submit("env", {"faults"})
  /\ faults' \in kSubset(1, FaultTypes) \cup kSubset(2, FaultTypes)
  /\ resolutions' = <<>>
  /\ UNCHANGED <<state, scanned, refused, pairs, mapVars, running, syncVars, scoreVars>>

\* A decided fault has no buttons any more.
Pick(f, action) ==
  /\ "faults" \in shown
  /\ f \in faults \ DOMAIN resolutions
  /\ resolutions' = [g \in DOMAIN resolutions \cup {f} |-> IF g = f THEN action ELSE resolutions[g]]
  /\ UNCHANGED <<state, scanned, refused, shown, awaited, faults, pairs, mapVars, running, syncVars, scoreVars>>

RuleFor(f) == IF resolutions[f] = "use" THEN fixRule[f] ELSE ignoreRule[f]

submitFaultChoices ==
  /\ FaultPanelView
  /\ Submit("faults", {})
  /\ faults' = {} /\ resolutions' = <<>>
  /\ Apply({RuleFor(f) : f \in DOMAIN resolutions})
  /\ Transition("COMPATIBILITY_CHECK")
  /\ Waits("compat", VmCount)
  /\ UNCHANGED <<scanned, pairs, mapVars, syncVars, finalScore>>

CompatEnds(h) ==
  /\ h.at = "compat" /\ h.left = 1
  /\ Leaves(h)
  /\ Show("compat")
  /\ UNCHANGED <<state, scanned, refused, faults, resolutions, pairs, mapVars, syncVars, scoreVars>>

acknowledgeCompatibility ==
  /\ CompatPanel
  /\ Submit("compat", {})
  /\ Transition("NETWORK_MAPPING")
  /\ UNCHANGED <<scanned, faults, resolutions, pairs, mapVars, running, syncVars, scoreVars>>

\* ----- network mapping -------------------------------------------------
\* The pairs of a panel that is opened while it is open stay: its effect
\* runs when the open flag changes.
onNetworkConsole ==
  /\ scanned /\ state = "NETWORK_MAPPING"
  /\ phase' = [completed |-> {}, pending |-> Sources]
  /\ Show("network")
  /\ pairs' = IF "network" \in shown THEN pairs ELSE <<>>
  /\ UNCHANGED <<state, scanned, refused, faults, resolutions, storage, running, syncVars, scoreVars>>

\* validateNetworkMapping: a bridge is taken once; a VLAN conflict only warns.
ValidMapping(bridge, existing) == \A m \in existing : m[2] # bridge

tryMap(source, bridge) ==
  /\ "network" \in shown
  /\ \A m \in ToSet(pairs) : m[1] # source
  /\ ValidMapping(bridge, ToSet(pairs))
  /\ pairs' = Append(pairs, <<source, bridge>>)
  /\ UNCHANGED <<state, scanned, refused, shown, awaited, faults, resolutions, mapVars, running, syncVars, scoreVars>>

\* NetworkMappingPhase.attemptMapping.
attemptMapping(p, m) ==
  IF ValidMapping(m[2], p.completed)
  THEN [completed |-> p.completed \cup {m}, pending |-> p.pending \ {m[1]}]
  ELSE p

\* A defect: one mapped vSwitch is enough.
SubmitNetworkEarly ==
  /\ "network" \in shown /\ pairs # <<>>
  /\ Submit("network", {})
  /\ phase' = FoldLeft(attemptMapping, phase, pairs)
  /\ pairs' = <<>>
  /\ Transition("STORAGE_MAPPING")
  /\ UNCHANGED <<scanned, faults, resolutions, storage, running, syncVars, scoreVars>>

\* The phase is given the pairs of the panel, one by one.
submitNetworkMapping ==
  /\ NetworkPanel
  /\ Submit("network", {})
  /\ phase' = FoldLeft(attemptMapping, phase, pairs)
  /\ pairs' = <<>>
  /\ Transition("STORAGE_MAPPING")
  /\ UNCHANGED <<scanned, faults, resolutions, storage, running, syncVars, scoreVars>>

\* ----- storage mapping -------------------------------------------------
onStorageConsole ==
  /\ scanned /\ state = "STORAGE_MAPPING"
  /\ Show("storage")
  /\ UNCHANGED <<state, scanned, refused, faults, resolutions, pairs, mapVars, running, syncVars, scoreVars>>

\* The panel masks what the pool does not support; a pool of the wrong tier
\* is accepted, with a warning.
submitStorageMapping(pool, ioLocality, rdma) ==
  LET warning == checkStorageMismatch(pool)
      rules == (IF ioLocality /\ IoLocalitySupport(pool) THEN {"USED_IO_LOCALITY"} ELSE {})
               \cup (IF rdma /\ RdmaSupport(pool) THEN {"USED_RDMA"} ELSE {})
               \cup (IF warning = "none" THEN {"PERFECT_STORAGE_MAPPING"} ELSE {})
               \cup (IF warning = "PERFORMANCE_DOWNGRADE" THEN {"WRONG_STORAGE_TIER"} ELSE {})
  IN /\ StoragePanelView
     /\ Submit("storage", {})
     /\ storage' = [pool |-> pool, warning |-> warning, validated |-> warning # "PERFORMANCE_DOWNGRADE"]
     /\ Apply(rules)
     /\ Transition("PRE_SNAPSHOT")
     /\ UNCHANGED <<scanned, faults, resolutions, pairs, phase, running, syncVars, finalScore>>

\* ----- copy, injection, cutover: onCutoverConsole ----------------------
onCutoverConsole ==
  /\ scanned /\ state = "PRE_SNAPSHOT"
  /\ Transition("FULL_SYNC")
  /\ ticking' = TRUE
  /\ Waits("progress", 1)
  /\ UNCHANGED <<scanned, uiVars, mapVars, percent, challenged, checkpoint, scoreVars>>

\* What a tick does, given when a challenge may appear and when the handler
\* that waits for the progress goes on: then it stops the sync, saves a
\* checkpoint and starts the rounds.
TickWhen(challenging, done) ==
  /\ ticking /\ state \notin Paused
  /\ percent' = Min({100, percent + TickPercent})
  /\ IF challenging /\ percent' >= 30 /\ percent' < 80
     THEN challenged' = TRUE /\ Show("challenge")
     ELSE UNCHANGED <<challenged, shown, awaited>>
  /\ IF done /\ percent' >= 90
     THEN \E h \in running :
            /\ h.at = "progress"
            /\ ticking' = FALSE
            /\ checkpoint' = percent'
            /\ Transition("INCREMENTAL_SYNC")
            /\ GoesOn(h, "round", 1)
     ELSE UNCHANGED <<ticking, checkpoint, state, refused, running>>
  /\ UNCHANGED <<scanned, faults, resolutions, pairs, mapVars, scoreVars>>

\* A defect: the copy waits for the answer to the challenge.
TickAwaiting == TickWhen(~challenged, "challenge" \notin awaited)

\* A defect: the challenge appears again.
TickRepeating == TickWhen("challenge" \notin shown, TRUE)

\* The challenge appears once, and the copy does not wait for its answer.
Tick == TickWhen(~challenged, TRUE)

Responses == {"smartx_retry", "restart_transfer", "wait_network"}

submitChallengeResponse(resp) ==
  /\ ChallengeModal
  /\ Submit("challenge", {})
  /\ Apply(CASE resp = "smartx_retry"    -> {"USED_CHECKPOINT_RESUME"}
             [] resp = "restart_transfer" -> {"MANUAL_RESTART_TRANSFER"}
             [] OTHER                     -> {})
  /\ UNCHANGED <<state, scanned, refused, faults, resolutions, pairs, mapVars, running, syncVars, finalScore>>

\* runIncrementalRounds: the lag of the copy after each round.
MaxRounds == 4
Lag[i \in 0 .. MaxRounds] == IF i = 0 THEN 2000 ELSE Max({80, (Lag[i - 1] * 45 + 50) \div 100})

RoundEnds(h) ==
  /\ h.at = "round"
  /\ LET i == h.left
     IN IF Lag[i] < 100 \/ i = MaxRounds
        THEN Transition("DRIVER_INJECTION") /\ GoesOn(h, "injection", InjectionSteps)
        ELSE GoesOn(h, "round", i + 1) /\ UNCHANGED <<state, refused>>
  /\ UNCHANGED <<scanned, uiVars, mapVars, syncVars, scoreVars>>

InjectionEnds(h) ==
  /\ h.at = "injection" /\ h.left = 1
  /\ Transitions(<<"CUTOVER_READY", "CUTOVER_EXECUTING">>)
  /\ GoesOn(h, "cutover", CutoverSteps)
  /\ UNCHANGED <<scanned, uiVars, mapVars, syncVars, scoreVars>>

CutoverEnds(h) ==
  /\ h.at = "cutover" /\ h.left = 1
  /\ Transition("POST_CHECK")
  /\ GoesOn(h, "postcheck", PostCheckSteps)
  /\ UNCHANGED <<scanned, uiVars, mapVars, syncVars, scoreVars>>

\* The total on the score panel is the one of this moment.
PostCheckEnds(h) ==
  /\ h.at = "postcheck" /\ h.left = 1
  /\ Transition("COMPLETED")
  /\ Apply({"ZERO_DOWNTIME", "AGENTLESS_AWARENESS"})
  /\ finalScore' = <<hudScore'>>
  /\ Leaves(h)
  /\ UNCHANGED <<scanned, uiVars, mapVars, syncVars>>

\* A phase of several timers counts them down.
StepEnds(h) ==
  /\ h.at \in {"compat", "injection", "cutover", "postcheck"} /\ h.left > 1
  /\ GoesOn(h, h.at, h.left - 1)
  /\ UNCHANGED <<state, scanned, refused, uiVars, mapVars, syncVars, scoreVars>>

\* ----- the pieces of the next-state relation ---------------------------
Consoles == onCommandConsole \/ onNetworkConsole \/ onStorageConsole \/ onCutoverConsole

Answers ==
  \/ submitVCenterLogin \/ acknowledgeScanResults \/ submitFaultChoices \/ acknowledgeCompatibility
  \/ submitNetworkMapping
  \/ \E f \in FaultTypes, action \in {"use", "ignore"} : Pick(f, action)
  \/ \E s \in Sources, b \in Bridges : tryMap(s, b)
  \/ \E pool \in StoragePools, ioLocality, rdma \in BOOLEAN : submitStorageMapping(pool, ioLocality, rdma)
  \/ \E resp \in Responses : submitChallengeResponse(resp)

Timers == \E h \in running :
  ScanEnds(h) \/ CompatEnds(h) \/ RoundEnds(h) \/ InjectionEnds(h) \/ CutoverEnds(h)
  \/ PostCheckEnds(h) \/ StepEnds(h)

FlowNext == Consoles \/ Answers \/ Timers \/ Tick

FlowSpec == FlowInit /\ [][FlowNext]_flowVars /\ WF_flowVars(Timers) /\ WF_flowVars(Tick)

\* ----- properties ------------------------------------------------------
\* However often the player presses E while a panel is open, no handler asks
\* the state machine for a move it refuses: none dies of an exception.
MovesAreLegal == ~refused

\* Every panel on the screen has a handler behind its button, and nothing
\* waits for a panel that is not shown; the scan overlay goes with the scan.
PanelsAreLive ==
  /\ shown \cap Panels = awaited
  /\ "scan" \in shown <=> \E h \in running : h.at = "scan"

Planned == {"PRE_SNAPSHOT", "FULL_SYNC", "INCREMENTAL_SYNC", "DRIVER_INJECTION",
            "CUTOVER_EXECUTING", "POST_CHECK", "COMPLETED"}

\* No event is scored twice, no fault is both repaired and ignored, and the
\* penalty for the wrong tier and the bonus for the right one go with the
\* mapping the task carries.
ScoredOnce ==
  /\ \A r \in Rules : applied[r] <= 1
  /\ \A f \in FaultTypes : applied[fixRule[f]] + applied[ignoreRule[f]] <= 1
  /\ state \in Planned =>
       /\ applied["WRONG_STORAGE_TIER"] = 1 <=> storage.warning = "PERFORMANCE_DOWNGRADE"
       /\ applied["PERFECT_STORAGE_MAPPING"] = 1 <=> storage.warning = "none"
  /\ hudScore = Total(applied)

\* A task leaves the mapping stages only with every vSwitch on a bridge of
\* its own in the phase that was opened last, although the panel and the
\* phase keep separate accounts and the phase may be opened anew in between.
MappingsAgree ==
  state \in Planned \cup {"STORAGE_MAPPING"} =>
    /\ phase.pending = {}
    /\ {m[1] : m \in phase.completed} = Sources
    /\ \A m, n \in phase.completed : m[2] = n[2] => m = n

\* Once started, copying, injecting and cutting over end without the player,
\* with the challenge answered late or never.
SyncCompletes == (state = "FULL_SYNC") ~> (state = "COMPLETED")

=============================================================================
