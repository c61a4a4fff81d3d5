---------------------------- MODULE ClientProofs ----------------------------
(***************************************************************************)
(* For any number of vSwitches, faults, VMs, steps and tools: no handler   *)
(* of the flow ever dies of a refused move, every panel on the screen has  *)
(* a handler behind it, and the hand shows the tool that is equipped.      *)
(*                                                                         *)
(* The reason is the same for the first two.  Every panel but the          *)
(* challenge belongs to one state of the task, and so does every wait for  *)
(* timers; there is never more than one of them; and the handler that is   *)
(* resumed leaves the state with the move its panel or its wait stands     *)
(* for.  For the third: of the calls that wait for a model only the latest *)
(* can be for the tool in the hand, and while its model loads there is one.*)
(*                                                                         *)
(* On the same invariant rest the network, which is mapped as the panel    *)
(* shows it (Mapped), and the scores, in which nothing counts twice        *)
(* (Scored): every rule belongs to one part of the way, and a task goes    *)
(* that way once.                                                          *)
(***************************************************************************)
EXTENDS Client, FiniteSetTheorems, TLAPS

\* The state of the task in which a panel is open, or a handler waits.
PanelFits(panel) ==
  \/ state = "IDLE" /\ panel = "login"
  \/ state = "ENV_SCAN" /\ panel \in {"env", "faults"}
  \/ state = "COMPATIBILITY_CHECK" /\ panel = "compat"
  \/ state = "NETWORK_MAPPING" /\ panel = "network"
  \/ state = "STORAGE_MAPPING" /\ panel = "storage"

WaitFits(at) ==
  \/ state = "ENV_SCAN" /\ at = "scan"
  \/ state = "COMPATIBILITY_CHECK" /\ at = "compat"
  \/ state = "FULL_SYNC" /\ at = "progress"
  \/ state = "INCREMENTAL_SYNC" /\ at = "round"
  \/ state = "DRIVER_INJECTION" /\ at = "injection"
  \/ state = "CUTOVER_EXECUTING" /\ at = "cutover"
  \/ state = "POST_CHECK" /\ at = "postcheck"

\* The panels that belong to a state.
Bound == {panel \in awaited : panel # "challenge"}

OneAtATime ==
  /\ \A p, q \in Bound : p = q
  /\ \A h, k \in running : h = k
  /\ Bound = {} \/ running = {}

StateFits ==
  /\ \A p \in Bound : PanelFits(p)
  /\ \A h \in running : WaitFits(h.at)

Inv == OneAtATime /\ StateFits /\ refused = FALSE /\ PanelsAreLive

-----------------------------------------------------------------------------
\* A move of the table is made.
LEMMA LegalMove ==
  ASSUME NEW next, CanTransition(state, next), refused = FALSE, Transition(next)
  PROVE  state' = next /\ refused' = FALSE
<1>1. Legal(<<next>>)
  BY DEF Legal
<1>2. Last(<<next>>) = next
  BY DEF Last
<1>3. QED
  BY <1>1, <1>2 DEF Transition, Transitions

\* And so are two in a row.
LEMMA LegalMoves ==
  ASSUME NEW first, NEW next, CanTransition(state, first), CanTransition(first, next),
         refused = FALSE, Transitions(<<first, next>>)
  PROVE  state' = next /\ refused' = FALSE
<1>1. Legal(<<first, next>>)
  BY DEF Legal
<1>2. Last(<<first, next>>) = next
  BY DEF Last
<1>3. QED
  BY <1>1, <1>2 DEF Transitions

\* The moves that the handlers ask for.
LEMMA MovesOfTheFlow ==
  /\ CanTransition("IDLE", "ENV_SCAN")
  /\ CanTransition("ENV_SCAN", "COMPATIBILITY_CHECK")
  /\ CanTransition("COMPATIBILITY_CHECK", "NETWORK_MAPPING")
  /\ CanTransition("NETWORK_MAPPING", "STORAGE_MAPPING")
  /\ CanTransition("STORAGE_MAPPING", "PRE_SNAPSHOT")
  /\ CanTransition("PRE_SNAPSHOT", "FULL_SYNC")
  /\ CanTransition("FULL_SYNC", "INCREMENTAL_SYNC")
  /\ CanTransition("INCREMENTAL_SYNC", "DRIVER_INJECTION")
  /\ CanTransition("DRIVER_INJECTION", "CUTOVER_READY")
  /\ CanTransition("CUTOVER_READY", "CUTOVER_EXECUTING")
  /\ CanTransition("CUTOVER_EXECUTING", "POST_CHECK")
  /\ CanTransition("POST_CHECK", "COMPLETED")
  BY DEF CanTransition, TRANSITIONS, MigrationState, Planning, Copying, Paused, Switching

-----------------------------------------------------------------------------
\* Pressing E at a console of the level keeps the invariant: a console that
\* answers in this state can only show its own panel again.
LEMMA ConsolesKeepInv ==
  ASSUME Inv, Consoles PROVE Inv'
<1>1. CASE onCommandConsole
  BY <1>1 DEF onCommandConsole, Show, Inv, OneAtATime, StateFits, Bound, PanelFits, WaitFits, Panels, PanelsAreLive, MigrationState, Planning
<1>2. CASE onNetworkConsole
  BY <1>2 DEF onNetworkConsole, Show, Inv, OneAtATime, StateFits, Bound, PanelFits, WaitFits, Panels, PanelsAreLive
<1>3. CASE onStorageConsole
  BY <1>3 DEF onStorageConsole, Show, Inv, OneAtATime, StateFits, Bound, PanelFits, WaitFits, Panels, PanelsAreLive
<1>4. CASE onCutoverConsole
  <2>1. state' = "FULL_SYNC" /\ refused' = FALSE
    BY <1>4, LegalMove, MovesOfTheFlow DEF onCutoverConsole, Inv, MigrationState, Planning
  <2>2. QED
    BY <1>4, <2>1 DEF onCutoverConsole, Waits, Wait, uiVars, Inv, OneAtATime, StateFits, Bound, PanelFits, WaitFits, Panels, PanelsAreLive, MigrationState, Copying
<1>5. QED
  BY <1>1, <1>2, <1>3, <1>4 DEF Consoles

\* So does the player's answer to a panel.
LEMMA AnswersKeepInv ==
  ASSUME Inv, Answers PROVE Inv'
<1> USE DEF Inv, OneAtATime, StateFits, Bound, PanelFits, WaitFits, Panels, PanelsAreLive
<1>1. CASE submitVCenterLogin
  <2>1. state = "IDLE" /\ Bound = {"login"} /\ running = {}
    BY <1>1 DEF submitVCenterLogin, Submit
  <2>2. state' = "ENV_SCAN" /\ refused' = FALSE
    BY <1>1, <2>1, LegalMove, MovesOfTheFlow DEF submitVCenterLogin
  <2>3. QED
    BY <1>1, <2>1, <2>2 DEF submitVCenterLogin, Submit, Waits, Wait
<1>2. CASE acknowledgeScanResults
  BY <1>2 DEF acknowledgeScanResults, Submit
<1>3. CASE submitFaultChoices
  <2>1. state = "ENV_SCAN" /\ Bound = {"faults"} /\ running = {}
    BY <1>3 DEF submitFaultChoices, Submit
  <2>2. state' = "COMPATIBILITY_CHECK" /\ refused' = FALSE
    BY <1>3, <2>1, LegalMove, MovesOfTheFlow DEF submitFaultChoices
  <2>3. QED
    BY <1>3, <2>1, <2>2 DEF submitFaultChoices, Submit, Waits, Wait
<1>4. CASE acknowledgeCompatibility
  <2>1. state = "COMPATIBILITY_CHECK" /\ Bound = {"compat"} /\ running = {}
    BY <1>4 DEF acknowledgeCompatibility, Submit
  <2>2. state' = "NETWORK_MAPPING" /\ refused' = FALSE
    BY <1>4, <2>1, LegalMove, MovesOfTheFlow DEF acknowledgeCompatibility
  <2>3. QED
    BY <1>4, <2>1, <2>2 DEF acknowledgeCompatibility, Submit
<1>5. CASE submitNetworkMapping
  <2>1. state = "NETWORK_MAPPING" /\ Bound = {"network"} /\ running = {}
    BY <1>5 DEF submitNetworkMapping, Submit
  <2>2. state' = "STORAGE_MAPPING" /\ refused' = FALSE
    BY <1>5, <2>1, LegalMove, MovesOfTheFlow DEF submitNetworkMapping
  <2>3. QED
    BY <1>5, <2>1, <2>2 DEF submitNetworkMapping, Submit
<1>6. ASSUME NEW f \in FaultTypes, NEW action \in {"use", "ignore"}, Pick(f, action) PROVE Inv'
  BY <1>6 DEF Pick
<1>7. ASSUME NEW source \in Sources, NEW bridge \in Bridges, tryMap(source, bridge) PROVE Inv'
  BY <1>7 DEF tryMap
<1>8. ASSUME NEW pool \in StoragePools, NEW ioLocality \in BOOLEAN, NEW rdma \in BOOLEAN,
             submitStorageMapping(pool, ioLocality, rdma)
      PROVE  Inv'
  <2>1. state = "STORAGE_MAPPING" /\ Bound = {"storage"} /\ running = {}
    BY <1>8 DEF submitStorageMapping, Submit
  <2>2. state' = "PRE_SNAPSHOT" /\ refused' = FALSE
    BY <1>8, <2>1, LegalMove, MovesOfTheFlow DEF submitStorageMapping
  <2>3. QED
    BY <1>8, <2>1, <2>2 DEF submitStorageMapping, Submit
<1>9. ASSUME NEW resp \in Responses, submitChallengeResponse(resp) PROVE Inv'
  BY <1>9 DEF submitChallengeResponse, Submit
<1>10. QED
  BY <1>1, <1>2, <1>3, <1>4, <1>5, <1>6, <1>7, <1>8, <1>9 DEF Answers

\* So does a timer of a phase.
LEMMA TimersKeepInv ==
  ASSUME Inv, Timers PROVE Inv'
<1> USE DEF Inv, OneAtATime, StateFits, Bound, PanelFits, WaitFits, Panels, PanelsAreLive
<1> SUFFICES ASSUME NEW h \in running,
                    \/ ScanEnds(h) \/ CompatEnds(h) \/ RoundEnds(h) \/ InjectionEnds(h)
                    \/ CutoverEnds(h) \/ PostCheckEnds(h) \/ StepEnds(h)
             PROVE  Inv'
  BY DEF Timers
<1>1. CASE ScanEnds(h)
  BY <1>1 DEF ScanEnds, Leaves
<1>2. CASE CompatEnds(h)
  BY <1>2 DEF CompatEnds, Leaves, Show
<1>3. CASE RoundEnds(h)
  <2>1. CASE Transition("DRIVER_INJECTION") /\ GoesOn(h, "injection", InjectionSteps)
    <3>1. state' = "DRIVER_INJECTION" /\ refused' = FALSE
      BY <1>3, <2>1, LegalMove, MovesOfTheFlow DEF RoundEnds, MigrationState, Copying
    <3>2. QED
      BY <1>3, <2>1, <3>1 DEF RoundEnds, GoesOn, Wait, uiVars, MigrationState, Switching
  <2>2. CASE GoesOn(h, "round", h.left + 1) /\ UNCHANGED <<state, refused>>
    BY <1>3, <2>2 DEF RoundEnds, GoesOn, Wait, uiVars
  <2>3. QED
    BY <1>3, <2>1, <2>2 DEF RoundEnds
<1>4. CASE InjectionEnds(h)
  <2>1. state' = "CUTOVER_EXECUTING" /\ refused' = FALSE
    BY <1>4, LegalMoves, MovesOfTheFlow, ZenonT(60) DEF InjectionEnds
  <2>2. QED
    BY <1>4, <2>1 DEF InjectionEnds, GoesOn, Wait, uiVars, MigrationState, Switching
<1>5. CASE CutoverEnds(h)
  <2>1. state' = "POST_CHECK" /\ refused' = FALSE
    BY <1>5, LegalMove, MovesOfTheFlow DEF CutoverEnds, MigrationState, Switching
  <2>2. QED
    BY <1>5, <2>1 DEF CutoverEnds, GoesOn, Wait, uiVars, MigrationState, Switching
<1>6. CASE PostCheckEnds(h)
  <2>1. state' = "COMPLETED" /\ refused' = FALSE
    BY <1>6, LegalMove, MovesOfTheFlow DEF PostCheckEnds, MigrationState, Switching
  <2>2. QED
    BY <1>6, <2>1 DEF PostCheckEnds, Leaves, uiVars, MigrationState
<1>7. CASE StepEnds(h)
  BY <1>7 DEF StepEnds, GoesOn, Wait, uiVars
<1>8. QED
  BY <1>1, <1>2, <1>3, <1>4, <1>5, <1>6, <1>7

\* So does a tick of the sync, which may bring the challenge up and which
\* resumes the handler at 90 percent.
LEMMA TickKeepsInv ==
  ASSUME Inv, Tick PROVE Inv'
<1> USE DEF Inv, OneAtATime, StateFits, Bound, PanelFits, WaitFits, Panels, PanelsAreLive
<1>1. \/ awaited' = awaited /\ shown' = shown
      \/ awaited' = awaited \cup {"challenge"} /\ shown' = shown \cup {"challenge"}
  BY DEF Tick, TickWhen, Show
<1>2. CASE UNCHANGED <<state, refused, running>>
  BY <1>1, <1>2
<1>3. CASE \E h \in running : h.at = "progress" /\ Transition("INCREMENTAL_SYNC") /\ GoesOn(h, "round", 1)
  <2>1. PICK h \in running : h.at = "progress" /\ Transition("INCREMENTAL_SYNC") /\ GoesOn(h, "round", 1)
    BY <1>3
  <2>2. state' = "INCREMENTAL_SYNC" /\ refused' = FALSE
    BY <2>1, LegalMove, MovesOfTheFlow DEF MigrationState, Copying
  <2>3. QED
    BY <1>1, <2>1, <2>2 DEF GoesOn, Wait, MigrationState, Copying
<1>4. QED
  BY <1>2, <1>3 DEF Tick, TickWhen

-----------------------------------------------------------------------------
\* Types, and what the calls that wait for a model have to do with the tool
\* in the hand: the latest of them is for it, and exists while it loads.
HandInv ==
  /\ cache \in [Keys -> {"absent", "loading", "loaded", "failed", "settled"}]
  /\ generation \in Nat
  /\ equipped \in Tools \cup {"none"}
  /\ equipped \in Tools => cache[equipped] # "absent"
  /\ mounted.model => equipped \in Tools
  /\ \A a \in arriving :
       /\ a.tool \in Tools /\ cache[a.tool] = "loading"
       /\ a.generation \in Nat /\ a.generation <= generation
       /\ a.generation = generation => a.tool = equipped
  /\ equipped \in Tools /\ cache[equipped] = "loading" =>
       \E a \in arriving : a.tool = equipped /\ a.generation = generation
  /\ HandShowsTool

\* The end of a fetch keeps it.
LEMMA SettleKeepsHand ==
  ASSUME HandInv, NEW key \in Keys, NEW outcome \in Outcomes(key), Settle(key, outcome)
  PROVE  HandInv'
<1> DEFINE calls == {a \in arriving : a.tool = key}
<1>1. cache[key] = "loading"
  BY DEF Settle
<1>2. /\ arriving' = arriving \ calls
      /\ mounted' = IF (\E a \in calls : a.generation = generation) /\ outcome = "loaded"
                    THEN [tool |-> key, model |-> TRUE] ELSE mounted
      /\ UNCHANGED <<equipped, viewed, generation>>
  BY DEF Settle, Arrives
<1>3. cache' \in [Keys -> {"absent", "loading", "loaded", "failed", "settled"}]
  BY DEF Settle, HandInv, Outcomes, Keys
<1>4. \A t \in Tools : cache'[t] = IF t = key THEN outcome ELSE cache[t]
  BY ToolAssumption DEF Settle, HandInv, Keys
<1>5. outcome # "loading" /\ outcome # "absent"
  BY DEF Outcomes
<1>6. \A a \in arriving' : a \in arriving /\ a.tool # key
  BY <1>2
<1>7. \A a \in arriving : a.tool # key => a \in arriving'
  BY <1>2
<1>8. CASE \E a \in calls : a.generation = generation
  <2>1. equipped = key /\ key \in Tools
    BY <1>8 DEF HandInv
  <2>2. mounted' = IF outcome = "loaded" THEN [tool |-> key, model |-> TRUE] ELSE mounted
    BY <1>2, <1>8
  <2>3. HandShowsTool'
    BY <1>1, <1>2, <1>4, <2>1, <2>2, ToolAssumption DEF HandInv, HandShowsTool
  <2>4. QED
    BY <1>1, <1>2, <1>3, <1>4, <1>5, <1>6, <2>1, <2>2, <2>3, ToolAssumption DEF HandInv
<1>9. CASE ~ \E a \in calls : a.generation = generation
  <2>1. mounted' = mounted
    BY <1>2, <1>9
  <2>2. equipped \in Tools => equipped # key
    BY <1>1, <1>9 DEF HandInv
  <2>3. HandShowsTool'
    BY <1>2, <1>4, <2>1, <2>2, ToolAssumption DEF HandInv, HandShowsTool
  <2>4. QED
    BY <1>1, <1>2, <1>3, <1>4, <1>5, <1>6, <1>7, <2>1, <2>2, <2>3, ToolAssumption DEF HandInv
<1>10. QED
  BY <1>8, <1>9

\* Taking another tool keeps it.
LEMMA EquipKeepsHand ==
  ASSUME HandInv, NEW tool \in Tools, equip(tool)
  PROVE  HandInv'
<1>1. cache' \in [Keys -> {"absent", "loading", "loaded", "failed", "settled"}]
  BY DEF equip, loadGLTF, HandInv, Keys
<1>2. /\ \A t \in Tools \ {tool} : cache'[t] = cache[t]
      /\ cache'[tool] = IF cache[tool] = "absent" THEN "loading" ELSE cache[tool]
  BY DEF equip, loadGLTF, HandInv, Keys
<1>3. equipped' = tool /\ viewed' = tool /\ generation' = generation + 1
  BY DEF equip
<1>4. mounted' = [tool |-> tool, model |-> cache[tool] = "loaded"]
  BY DEF equip
<1>5. arriving' = arriving \cup
        (IF cache[tool] \notin {"absent", "loading"} THEN {}
         ELSE {[tool |-> tool, generation |-> generation + 1]})
  BY DEF equip, Settled
<1>6. \A a \in arriving' : a \in arriving \/ a = [tool |-> tool, generation |-> generation + 1]
  BY <1>5
<1>7. \A a \in arriving : a \in arriving' /\ cache'[a.tool] = "loading" /\ a.generation < generation'
  BY <1>2, <1>3, <1>5 DEF HandInv
<1>8. cache'[tool] = "loading" =>
        /\ [tool |-> tool, generation |-> generation + 1] \in arriving'
        /\ cache[tool] # "loaded"
  BY <1>2, <1>5
<1>9. HandShowsTool'
  BY <1>2, <1>3, <1>4, ToolAssumption DEF HandInv, HandShowsTool
<1>10. arriving' # arriving => cache'[tool] = "loading"
  BY <1>2, <1>5
<1>11. \A a \in arriving' :
         /\ a.tool \in Tools /\ cache'[a.tool] = "loading"
         /\ a.generation \in Nat /\ a.generation <= generation'
         /\ a.generation = generation' => a.tool = equipped'
  BY <1>2, <1>3, <1>5, <1>6, <1>7, <1>10 DEF HandInv
<1>12. QED
  BY <1>1, <1>2, <1>3, <1>4, <1>8, <1>9, <1>11, ToolAssumption DEF HandInv

\* The invariant holds in every state the client reaches.
THEOREM Invariance == Spec => []Inv
<1>1. Init => Inv
  BY DEF Init, FlowInit, Inv, OneAtATime, StateFits, Bound, PanelFits, WaitFits, Panels, PanelsAreLive, MigrationState
<1>2. Inv /\ [Next]_clientVars => Inv'
  <2> SUFFICES ASSUME Inv, [Next]_clientVars PROVE Inv'
    OBVIOUS
  <2>1. CASE UNCHANGED flowVars
    BY <2>1 DEF flowVars, uiVars, Inv, OneAtATime, StateFits, Bound, PanelFits, WaitFits, Panels, PanelsAreLive
  <2>2. CASE Consoles \/ Answers \/ Timers \/ Tick
    BY <2>2, ConsolesKeepInv, AnswersKeepInv, TimersKeepInv, TickKeepsInv
  <2>3. QED
    BY <2>1, <2>2 DEF Next, Interact, clientVars
<1>3. QED
  BY <1>1, <1>2, PTL DEF Spec

\* No handler of main.ts asks the state machine for a move it refuses.
THEOREM MovesCorrect == Spec => []MovesAreLegal
<1>1. Inv => MovesAreLegal
  BY DEF Inv, MovesAreLegal
<1>2. QED
  BY <1>1, Invariance, PTL

\* Every panel on the screen has the resolver of a handler behind its button.
THEOREM PanelsCorrect == Spec => []PanelsAreLive
  BY Invariance, PTL DEF Inv

\* What is in the hand belongs to the equipped tool, in whatever order the
\* models arrive.
THEOREM HandCorrect == Spec => []HandShowsTool
<1>1. Init => HandInv
  BY ToolAssumption DEF Init, ModelInit, HandInv, HandShowsTool, Keys
<1>2. HandInv /\ [Next]_clientVars => HandInv'
  <2> SUFFICES ASSUME HandInv, [Next]_clientVars PROVE HandInv'
    OBVIOUS
  <2>1. CASE UNCHANGED modelVars
    BY <2>1 DEF modelVars, handVars, HandInv, HandShowsTool
  <2>2. CASE (\E key \in Keys : Settles(key)) \/ Equips
    BY <2>2, SettleKeepsHand, EquipKeepsHand DEF Settles, Equips
  <2>3. QED
    BY <2>1, <2>2 DEF Next, Interact, clientVars
<1>3. HandInv => HandShowsTool
  BY DEF HandInv
<1>4. QED
  BY <1>1, <1>2, <1>3, PTL DEF Spec

-----------------------------------------------------------------------------
(***************************************************************************)
(* What the folds compute                                                  *)
(***************************************************************************)

\* Among subsets of a finite set there is one that contains no other.
LEMMA Smallest ==
  ASSUME NEW S, IsFiniteSet(S), NEW T, T \subseteq SUBSET S, T # {}
  PROVE  \E s \in T : \A t \in T : t \subseteq s => t = s
<1>1. IsWellFoundedOn(StrictSubsetOrdering(S), FiniteSubsetsOf(S))
  BY FS_StrictSubsetOrderingWellFounded
<1>2. T \subseteq FiniteSubsetsOf(S)
  BY FS_Subset DEF FiniteSubsetsOf
<1>3. PICK s \in T : \A t \in T : ~ (<<t, s>> \in StrictSubsetOrdering(S))
  BY <1>1, <1>2, WFMin
<1>4. QED
  BY <1>3 DEF StrictSubsetOrdering

\* A set of indices has a last one.
LEMMA LastIndex ==
  ASSUME NEW n \in Nat, NEW s \in SUBSET (1 .. n), s # {}
  PROVE  Max(s) \in s
<1> DEFINE Indices == 1 .. n
           Above(k) == {j \in s : j > k}
           T == {Above(k) : k \in s}
<1>1. IsFiniteSet(Indices)
  BY FS_Interval
<1>2. T \subseteq SUBSET Indices /\ T # {}
  OBVIOUS
<1>3. \A k \in s : k \in Int
  OBVIOUS
<1> HIDE DEF T, Indices
<1>4. PICK least \in T : \A t \in T : t \subseteq least => t = least
  BY <1>1, <1>2, Smallest
<1>5. PICK k \in s : least = Above(k)
  BY <1>4 DEF T
<1>6. \A j \in s : k >= j
  <2> SUFFICES ASSUME NEW j \in s, j > k PROVE FALSE
    BY <1>3
  <2>1. \A i \in s : i > j => i > k
    BY <1>3
  <2>2. Above(j) \subseteq least
    BY <1>5, <2>1
  <2>3. j \in least /\ j \notin Above(j)
    BY <1>3, <1>5
  <2>4. Above(j) \in T
    BY DEF T
  <2>5. QED
    BY <1>4, <2>2, <2>3, <2>4
<1>7. QED
  BY <1>6 DEF Max

\* What a new phase becomes when it takes the pairs with the numbers in s.
Given(q, s) == [completed |-> {q[i] : i \in s}, pending |-> Sources \ {q[i][1] : i \in s}]

\* A new phase takes all pairs of a panel, if their bridges are different.
\* The fold is what solves an equation for every set of numbers; Given
\* solves it, and a smallest set on which another solution differed would
\* differ without its last number too.
LEMMA AllAreTaken ==
  ASSUME NEW q \in Seq(Sources \X Bridges), \A i, j \in DOMAIN q : q[i][2] = q[j][2] => i = j
  PROVE  FoldLeft(attemptMapping, [completed |-> {}, pending |-> Sources], q) = Given(q, DOMAIN q)
<1> DEFINE p == [completed |-> {}, pending |-> Sources]
           Folds(g) == g = [s \in SUBSET DOMAIN q |->
                             IF s = {} THEN p ELSE attemptMapping(g[s \ {Max(s)}], q[Max(s)])]
           iter == CHOOSE g : Folds(g)
<1>1. FoldLeft(attemptMapping, p, q) = iter[DOMAIN q]
  BY DEF FoldLeft, MapThenFoldSet
<1>2. DOMAIN q = 1 .. Len(q) /\ Len(q) \in Nat /\ IsFiniteSet(DOMAIN q)
  BY FS_Interval
<1>3. \A s \in SUBSET DOMAIN q : s # {} => Max(s) \in s
  BY <1>2, LastIndex
<1>4. Given(q, {}) = p
  BY DEF Given
<1>5. \A s \in SUBSET DOMAIN q : s # {} => Given(q, s) = attemptMapping(Given(q, s \ {Max(s)}), q[Max(s)])
  <2> SUFFICES ASSUME NEW s \in SUBSET DOMAIN q, s # {}, NEW k, k = Max(s)
               PROVE  Given(q, s) = attemptMapping(Given(q, s \ {k}), q[k])
    OBVIOUS
  <2>1. k \in s /\ s = (s \ {k}) \cup {k}
    BY <1>3
  <2>2. ValidMapping(q[k][2], {q[i] : i \in s \ {k}})
    BY <2>1 DEF ValidMapping
  <2>3. attemptMapping(Given(q, s \ {k}), q[k]) =
          [completed |-> {q[i] : i \in s \ {k}} \cup {q[k]},
           pending |-> (Sources \ {q[i][1] : i \in s \ {k}}) \ {q[k][1]}]
    BY <2>2 DEF attemptMapping, Given
  <2>4. {q[i] : i \in s \ {k}} \cup {q[k]} = {q[i] : i \in s}
    BY <2>1
  <2>5. (Sources \ {q[i][1] : i \in s \ {k}}) \ {q[k][1]} = Sources \ {q[i][1] : i \in s}
    BY <2>1
  <2>6. QED
    BY <2>3, <2>4, <2>5 DEF Given
<1>6. Folds([s \in SUBSET DOMAIN q |-> Given(q, s)])
  <2> DEFINE g == [s \in SUBSET DOMAIN q |-> Given(q, s)]
  <2>1. \A s \in SUBSET DOMAIN q : g[s \ {Max(s)}] = Given(q, s \ {Max(s)})
    OBVIOUS
  <2>2. \A s \in SUBSET DOMAIN q :
          Given(q, s) = IF s = {} THEN p ELSE attemptMapping(g[s \ {Max(s)}], q[Max(s)])
    BY <1>4, <1>5, <2>1
  <2>3. QED
    BY <2>2
<1>7. Folds(iter)
  BY <1>6
<1> HIDE DEF iter, p
<1>8. /\ iter[{}] = p
      /\ \A s \in SUBSET DOMAIN q : s # {} => iter[s] = attemptMapping(iter[s \ {Max(s)}], q[Max(s)])
  BY <1>7
<1>9. \A s \in SUBSET DOMAIN q : iter[s] = Given(q, s)
  <2> DEFINE T == {s \in SUBSET DOMAIN q : iter[s] # Given(q, s)}
  <2> SUFFICES ASSUME T # {} PROVE FALSE
    OBVIOUS
  <2>0. T \subseteq SUBSET DOMAIN q
    OBVIOUS
  <2> HIDE DEF T
  <2>1. PICK s \in T : \A t \in T : t \subseteq s => t = s
    BY <2>0, <1>2, Smallest
  <2> USE DEF T
  <2>2. s # {}
    BY <1>4, <1>8
  <2>3. s \ {Max(s)} \subseteq s /\ s \ {Max(s)} # s /\ s \ {Max(s)} \in SUBSET DOMAIN q
    BY <1>3, <2>2
  <2>4. iter[s \ {Max(s)}] = Given(q, s \ {Max(s)})
    BY <2>1, <2>3
  <2>5. QED
    BY <1>5, <1>8, <2>2, <2>4
<1>10. QED
  BY <1>1, <1>9 DEF p

\* The scoring rules are finitely many.
LEMMA RulesAreFinite == IsFiniteSet(Rules)
<1>1. \A x : IsFiniteSet({x})
  BY FS_Singleton
<1>2. \A A, B : IsFiniteSet(A) /\ IsFiniteSet(B) => IsFiniteSet(A \cup B)
  BY FS_Union
<1>3. Rules = {"USED_IO_LOCALITY"} \cup {"USED_RDMA"} \cup {"USED_CHECKPOINT_RESUME"}
              \cup {"PERFECT_STORAGE_MAPPING"} \cup {"ZERO_DOWNTIME"} \cup {"AGENTLESS_AWARENESS"}
              \cup {"FIXED_FAULT_SNAPSHOT"} \cup {"FIXED_FAULT_MTU"} \cup {"FIXED_FAULT_RDMA"}
              \cup {"WRONG_STORAGE_TIER"} \cup {"IGNORED_SNAPSHOT_WARNING"} \cup {"IGNORED_FAULT_MTU"}
              \cup {"IGNORED_FAULT_RDMA"} \cup {"MANUAL_RESTART_TRANSFER"}
  BY DEF Rules, Points
<1>4. QED
  BY <1>1, <1>2, <1>3, ZenonT(60)

\* Nothing scored makes no points: again the only solution of the fold.
LEMMA NothingScored == Total([r \in Rules |-> 0]) = 0
<1> DEFINE counts == [r \in Rules |-> 0]
           Sums(g) == g = [s \in SUBSET Rules |->
                            IF s = {} THEN 0
                            ELSE LET x == CHOOSE y \in s : TRUE IN counts[x] * Points[x] + g[s \ {x}]]
           iter == CHOOSE g : Sums(g)
           none == [s \in SUBSET Rules |-> 0]
<1>1. Total(counts) = iter[Rules]
  BY DEF Total, MapThenSumSet, MapThenFoldSet
<1>2. \A r \in Rules : Points[r] \in Int
  BY DEF Rules, Points
<1>3. \A s \in SUBSET Rules : s # {} => (CHOOSE y \in s : TRUE) \in s
  OBVIOUS
<1>4. \A r \in Rules : counts[r] * Points[r] = 0
  BY <1>2
<1> HIDE DEF counts
<1>5. \A s \in SUBSET Rules : s # {} =>
        LET x == CHOOSE y \in s : TRUE IN counts[x] * Points[x] + none[s \ {x}] = 0
  BY <1>3, <1>4
<1>6. Sums(none)
  BY <1>5
<1>7. Sums(iter)
  BY <1>6
<1> HIDE DEF iter
<1>8. /\ iter[{}] = 0
      /\ \A s \in SUBSET Rules : s # {} =>
           LET x == CHOOSE y \in s : TRUE IN iter[s] = counts[x] * Points[x] + iter[s \ {x}]
  BY <1>7
<1>9. \A s \in SUBSET Rules : iter[s] = 0
  <2> DEFINE T == {s \in SUBSET Rules : iter[s] # 0}
  <2> SUFFICES ASSUME T # {} PROVE FALSE
    OBVIOUS
  <2>0. T \subseteq SUBSET Rules
    OBVIOUS
  <2> HIDE DEF T
  <2>1. PICK s \in T : \A t \in T : t \subseteq s => t = s
    BY <2>0, RulesAreFinite, Smallest
  <2> USE DEF T
  <2>2. s # {}
    BY <1>8
  <2> DEFINE x == CHOOSE y \in s : TRUE
  <2>3. x \in s
    BY <2>2
  <2>4. iter[s] = counts[x] * Points[x] + iter[s \ {x}]
    BY <1>8, <2>2
  <2> HIDE DEF x
  <2>5. s \ {x} \in SUBSET Rules /\ s \ {x} \subseteq s /\ s \ {x} # s
    BY <2>3
  <2>6. iter[s \ {x}] = 0
    BY <2>1, <2>5
  <2>7. QED
    BY <1>4, <2>3, <2>4, <2>6
<1>10. QED
  BY <1>1, <1>9 DEF counts

-----------------------------------------------------------------------------
(***************************************************************************)
(* The scores and the network                                              *)
(***************************************************************************)
Undecided == {"none", "IDLE", "ENV_SCAN"}
StorageRules == {"USED_IO_LOCALITY", "USED_RDMA", "PERFECT_STORAGE_MAPPING", "WRONG_STORAGE_TIER"}
ChallengeRules == {"USED_CHECKPOINT_RESUME", "MANUAL_RESTART_TRANSFER"}
FinalRules == {"ZERO_DOWNTIME", "AGENTLESS_AWARENESS"}

\* What may have been scored: the faults once the panel was answered, the
\* pools once the task is planned, the challenge once its panel has come and
\* is gone, the rest at the end.
FaultsScored ==
  /\ faults \subseteq FaultTypes /\ DOMAIN resolutions \subseteq FaultTypes
  /\ \A f \in DOMAIN fixRule :
       /\ state \in Undecided => applied[fixRule[f]] = 0 /\ applied[ignoreRule[f]] = 0
       /\ applied[fixRule[f]] + applied[ignoreRule[f]] <= 1

StorageScored ==
  /\ \A r \in StorageRules : applied[r] <= 1 /\ (state \notin Planned => applied[r] = 0)
  /\ state \in Planned =>
       /\ applied["WRONG_STORAGE_TIER"] = 1 <=> storage.warning = "PERFORMANCE_DOWNGRADE"
       /\ applied["PERFECT_STORAGE_MAPPING"] = 1 <=> storage.warning = "none"

ChallengeScored ==
  /\ "challenge" \in awaited => challenged
  /\ \A r \in ChallengeRules : applied[r] <= 1
  /\ ~challenged \/ "challenge" \in awaited => \A r \in ChallengeRules : applied[r] = 0

EndScored ==
  \A r \in FinalRules : applied[r] <= 1 /\ (state # "COMPLETED" => applied[r] = 0)

Scored ==
  /\ applied \in [Rules -> Nat] /\ hudScore = Total(applied)
  /\ FaultsScored /\ StorageScored /\ ChallengeScored /\ EndScored

\* The phase behind an open panel is new, and the pairs in the panel are of
\* different vSwitches and different bridges.
Mapped ==
  /\ pairs \in Seq(Sources \X Bridges)
  /\ \A i, j \in DOMAIN pairs : pairs[i][2] = pairs[j][2] => i = j
  /\ "network" \in awaited => phase = [completed |-> {}, pending |-> Sources]
  /\ MappingsAgree

\* The states between which the handlers move the task.
LEMMA WhereTo ==
  ASSUME Inv
  PROVE  /\ submitVCenterLogin => state = "IDLE" /\ state' = "ENV_SCAN"
         /\ submitFaultChoices => state = "ENV_SCAN" /\ state' = "COMPATIBILITY_CHECK"
         /\ acknowledgeCompatibility => state = "COMPATIBILITY_CHECK" /\ state' = "NETWORK_MAPPING"
         /\ submitNetworkMapping => state = "NETWORK_MAPPING" /\ state' = "STORAGE_MAPPING"
         /\ \A pool, ioLocality, rdma :
              submitStorageMapping(pool, ioLocality, rdma) => state = "STORAGE_MAPPING" /\ state' = "PRE_SNAPSHOT"
         /\ onCutoverConsole => state = "PRE_SNAPSHOT" /\ state' = "FULL_SYNC"
         /\ \A h \in running :
              /\ RoundEnds(h) => state = "INCREMENTAL_SYNC" /\ state' \in {state, "DRIVER_INJECTION"}
              /\ InjectionEnds(h) => state = "DRIVER_INJECTION" /\ state' = "CUTOVER_EXECUTING"
              /\ CutoverEnds(h) => state = "CUTOVER_EXECUTING" /\ state' = "POST_CHECK"
              /\ PostCheckEnds(h) => state = "POST_CHECK" /\ state' = "COMPLETED"
         /\ Tick => state' = state \/ (state = "FULL_SYNC" /\ state' = "INCREMENTAL_SYNC")
<1> USE DEF Inv
<1>1. \A panel \in awaited \ {"challenge"} : PanelFits(panel)
  BY DEF StateFits, Bound
<1>2. \A h \in running : WaitFits(h.at)
  BY DEF StateFits
<1>3. submitVCenterLogin => state = "IDLE" /\ state' = "ENV_SCAN"
  <2>1. submitVCenterLogin => state = "IDLE"
    BY <1>1 DEF submitVCenterLogin, Submit, PanelFits
  <2>2. QED
    BY <2>1, LegalMove, MovesOfTheFlow DEF submitVCenterLogin
<1>4. submitFaultChoices => state = "ENV_SCAN" /\ state' = "COMPATIBILITY_CHECK"
  <2>1. submitFaultChoices => state = "ENV_SCAN"
    BY <1>1 DEF submitFaultChoices, Submit, PanelFits
  <2>2. QED
    BY <2>1, LegalMove, MovesOfTheFlow DEF submitFaultChoices
<1>5. acknowledgeCompatibility => state = "COMPATIBILITY_CHECK" /\ state' = "NETWORK_MAPPING"
  <2>1. acknowledgeCompatibility => state = "COMPATIBILITY_CHECK"
    BY <1>1 DEF acknowledgeCompatibility, Submit, PanelFits
  <2>2. QED
    BY <2>1, LegalMove, MovesOfTheFlow DEF acknowledgeCompatibility
<1>6. submitNetworkMapping => state = "NETWORK_MAPPING" /\ state' = "STORAGE_MAPPING"
  <2>1. submitNetworkMapping => state = "NETWORK_MAPPING"
    BY <1>1 DEF submitNetworkMapping, Submit, PanelFits
  <2>2. QED
    BY <2>1, LegalMove, MovesOfTheFlow DEF submitNetworkMapping
<1>7. ASSUME NEW pool, NEW ioLocality, NEW rdma, submitStorageMapping(pool, ioLocality, rdma)
      PROVE  state = "STORAGE_MAPPING" /\ state' = "PRE_SNAPSHOT"
  <2>1. state = "STORAGE_MAPPING"
    BY <1>1, <1>7 DEF submitStorageMapping, Submit, PanelFits
  <2>2. Transition("PRE_SNAPSHOT")
    BY <1>7 DEF submitStorageMapping
  <2>3. QED
    BY <2>1, <2>2, LegalMove, MovesOfTheFlow
<1>8. onCutoverConsole => state = "PRE_SNAPSHOT" /\ state' = "FULL_SYNC"
  BY LegalMove, MovesOfTheFlow DEF onCutoverConsole
<1>9. ASSUME NEW h \in running, RoundEnds(h)
      PROVE  state = "INCREMENTAL_SYNC" /\ state' \in {state, "DRIVER_INJECTION"}
  <2>1. state = "INCREMENTAL_SYNC"
    BY <1>2, <1>9 DEF RoundEnds, WaitFits
  <2>2. Transition("DRIVER_INJECTION") \/ state' = state
    BY <1>9 DEF RoundEnds
  <2>3. QED
    BY <2>1, <2>2, LegalMove, MovesOfTheFlow
<1>10. ASSUME NEW h \in running, InjectionEnds(h)
       PROVE  state = "DRIVER_INJECTION" /\ state' = "CUTOVER_EXECUTING"
  <2>1. state = "DRIVER_INJECTION"
    BY <1>2, <1>10 DEF InjectionEnds, WaitFits
  <2>2. QED
    BY <1>10, <2>1, LegalMoves, MovesOfTheFlow DEF InjectionEnds
<1>11. ASSUME NEW h \in running, CutoverEnds(h)
       PROVE  state = "CUTOVER_EXECUTING" /\ state' = "POST_CHECK"
  <2>1. state = "CUTOVER_EXECUTING"
    BY <1>2, <1>11 DEF CutoverEnds, WaitFits
  <2>2. QED
    BY <1>11, <2>1, LegalMove, MovesOfTheFlow DEF CutoverEnds
<1>12. ASSUME NEW h \in running, PostCheckEnds(h)
       PROVE  state = "POST_CHECK" /\ state' = "COMPLETED"
  <2>1. state = "POST_CHECK"
    BY <1>2, <1>12 DEF PostCheckEnds, WaitFits
  <2>2. QED
    BY <1>12, <2>1, LegalMove, MovesOfTheFlow DEF PostCheckEnds
<1>13. Tick => state' = state \/ (state = "FULL_SYNC" /\ state' = "INCREMENTAL_SYNC")
  <2> SUFFICES ASSUME Tick, state' # state PROVE state = "FULL_SYNC" /\ state' = "INCREMENTAL_SYNC"
    OBVIOUS
  <2>1. PICK h \in running : h.at = "progress" /\ Transition("INCREMENTAL_SYNC")
    BY DEF Tick, TickWhen
  <2>2. state = "FULL_SYNC"
    BY <1>2, <2>1 DEF WaitFits
  <2>3. QED
    BY <2>1, <2>2, LegalMove, MovesOfTheFlow
<1>14. QED
  BY <1>3, <1>4, <1>5, <1>6, <1>7, <1>8, <1>9, <1>10, <1>11, <1>12, <1>13

\* The network phase is filled with the pairs of the panel, and otherwise
\* stays as it is from there on.
LEMMA ClientMaps ==
  ASSUME Inv, Mapped, FlowNext PROVE Mapped'
<1> DEFINE fresh == [completed |-> {}, pending |-> Sources]
<1>1. CASE onNetworkConsole
  <2>1. pairs' = pairs \/ pairs' = <<>>
    BY <1>1 DEF onNetworkConsole
  <2>2. pairs' \in Seq(Sources \X Bridges) /\ \A i, j \in DOMAIN pairs' : pairs'[i][2] = pairs'[j][2] => i = j
    <3>1. CASE pairs' = pairs
      BY <3>1 DEF Mapped
    <3>2. CASE pairs' = <<>>
      BY <3>2
    <3>3. QED
      BY <2>1, <3>1, <3>2
  <2>3. phase' = fresh /\ state' = "NETWORK_MAPPING"
    BY <1>1 DEF onNetworkConsole
  <2>4. QED
    BY <2>2, <2>3 DEF Mapped, MappingsAgree, Planned
<1>2. CASE submitNetworkMapping
  <2>1. pairs \in Seq(Sources \X Bridges) /\ \A i, j \in DOMAIN pairs : pairs[i][2] = pairs[j][2] => i = j
    BY DEF Mapped
  <2>2. phase = fresh /\ "network" \in awaited
    BY <1>2 DEF submitNetworkMapping, Submit, Mapped
  <2>3. phase' = Given(pairs, DOMAIN pairs)
    BY <1>2, <2>1, <2>2, AllAreTaken DEF submitNetworkMapping
  <2>4. phase'.completed = {pairs[i] : i \in DOMAIN pairs} /\ phase'.pending = Sources \ {pairs[i][1] : i \in DOMAIN pairs}
    BY <2>3 DEF Given
  <2>5. \A s \in Sources : \E i \in DOMAIN pairs : pairs[i][1] = s
    BY <1>2 DEF submitNetworkMapping, NetworkPanel, ToSet
  <2>6. \A i \in DOMAIN pairs : pairs[i][1] \in Sources
    BY <2>1
  <2>7. MappingsAgree'
    BY <2>1, <2>4, <2>5, <2>6 DEF MappingsAgree
  <2>8. pairs' = <<>> /\ "network" \notin awaited'
    BY <1>2 DEF submitNetworkMapping, Submit, Panels
  <2>9. QED
    BY <2>7, <2>8 DEF Mapped
<1>3. ASSUME NEW s \in Sources, NEW b \in Bridges, tryMap(s, b) PROVE Mapped'
  <2>1. /\ pairs' = Append(pairs, <<s, b>>) /\ pairs \in Seq(Sources \X Bridges)
        /\ UNCHANGED <<state, awaited, phase>>
    BY <1>3 DEF tryMap, mapVars, Mapped
  <2>2. \A i \in DOMAIN pairs : pairs[i][2] # b
    BY <1>3 DEF tryMap, ValidMapping, ToSet
  <2>3. \A i, j \in DOMAIN pairs' : pairs'[i][2] = pairs'[j][2] => i = j
    BY <2>1, <2>2 DEF Mapped
  <2>4. QED
    BY <2>1, <2>3 DEF Mapped, MappingsAgree
<1>4. CASE /\ UNCHANGED <<pairs, phase>>
           /\ "network" \in awaited' => "network" \in awaited
           /\ state' \in Planned \cup {"STORAGE_MAPPING"} => state \in Planned \cup {"STORAGE_MAPPING"}
  BY <1>4 DEF Mapped, MappingsAgree
<1>5. CASE Consoles
  <2>1. CASE onCommandConsole
    BY <1>4, <2>1 DEF onCommandConsole, Show, mapVars, Planned
  <2>2. CASE onStorageConsole
    BY <1>4, <2>2 DEF onStorageConsole, Show, mapVars
  <2>3. CASE onCutoverConsole
    BY <1>4, <2>3, WhereTo DEF onCutoverConsole, mapVars, uiVars, Planned
  <2>4. QED
    BY <1>1, <1>5, <2>1, <2>2, <2>3 DEF Consoles
<1>6. CASE Answers
  <2>1. CASE submitVCenterLogin
    BY <1>4, <2>1, WhereTo DEF submitVCenterLogin, Submit, mapVars, Planned
  <2>2. CASE acknowledgeScanResults
    BY <1>4, <2>2 DEF acknowledgeScanResults, Submit, mapVars
  <2>3. CASE submitFaultChoices
    BY <1>4, <2>3, WhereTo DEF submitFaultChoices, Submit, mapVars, Planned
  <2>4. CASE acknowledgeCompatibility
    BY <1>4, <2>4, WhereTo DEF acknowledgeCompatibility, Submit, mapVars, Planned
  <2>5. ASSUME NEW f, NEW action, Pick(f, action) PROVE Mapped'
    BY <1>4, <2>5 DEF Pick, mapVars
  <2>6. ASSUME NEW pool, NEW ioLocality, NEW rdma, submitStorageMapping(pool, ioLocality, rdma) PROVE Mapped'
    <3>1. UNCHANGED <<pairs, phase>> /\ ("network" \in awaited' => "network" \in awaited)
      BY <2>6 DEF submitStorageMapping, Submit
    <3>2. state = "STORAGE_MAPPING"
      BY <2>6, WhereTo
    <3>3. QED
      BY <1>4, <3>1, <3>2
  <2>7. ASSUME NEW resp, submitChallengeResponse(resp) PROVE Mapped'
    BY <1>4, <2>7 DEF submitChallengeResponse, Submit, mapVars
  <2>8. QED
    BY <1>2, <1>3, <1>6, <2>1, <2>2, <2>3, <2>4, <2>5, <2>6, <2>7 DEF Answers
<1>7. CASE Timers
  <2>1. PICK h \in running : ScanEnds(h) \/ CompatEnds(h) \/ RoundEnds(h) \/ InjectionEnds(h)
                             \/ CutoverEnds(h) \/ PostCheckEnds(h) \/ StepEnds(h)
    BY <1>7 DEF Timers
  <2>2. CASE ScanEnds(h) \/ CompatEnds(h) \/ StepEnds(h)
    BY <1>4, <2>2 DEF ScanEnds, CompatEnds, StepEnds, Show, uiVars, mapVars
  <2>3. CASE RoundEnds(h) \/ InjectionEnds(h) \/ CutoverEnds(h) \/ PostCheckEnds(h)
    BY <1>4, <2>3, WhereTo DEF RoundEnds, InjectionEnds, CutoverEnds, PostCheckEnds, uiVars, mapVars, Planned
  <2>4. QED
    BY <2>1, <2>2, <2>3
<1>8. CASE Tick
  <2>1. UNCHANGED <<pairs, phase>>
    BY <1>8 DEF Tick, TickWhen, mapVars
  <2>2. "network" \in awaited' => "network" \in awaited
    BY <1>8 DEF Tick, TickWhen, Show
  <2>3. state' = state \/ (state = "FULL_SYNC" /\ state' = "INCREMENTAL_SYNC")
    BY <1>8, WhereTo
  <2>4. QED
    BY <1>4, <2>1, <2>2, <2>3 DEF Planned
<1>9. QED
  BY <1>5, <1>6, <1>7, <1>8 DEF FlowNext

\* A task leaves the network stage with every vSwitch on a bridge of its own
\* in the phase that was opened last.
THEOREM NetworkAgrees == Spec => []MappingsAgree
<1>1. Init => Mapped
  BY DEF Init, FlowInit, Mapped, MappingsAgree, Planned
<1>2. Inv /\ Mapped /\ [Next]_clientVars => Mapped'
  <2> SUFFICES ASSUME Inv, Mapped, [Next]_clientVars PROVE Mapped'
    OBVIOUS
  <2>1. CASE UNCHANGED flowVars
    BY <2>1 DEF flowVars, uiVars, mapVars, Mapped, MappingsAgree
  <2>2. CASE FlowNext
    BY <2>2, ClientMaps
  <2>3. QED
    BY <2>1, <2>2 DEF Next, Interact, clientVars, FlowNext
<1>3. Mapped => MappingsAgree
  BY DEF Mapped
<1>4. QED
  BY <1>1, <1>2, <1>3, Invariance, PTL DEF Spec

\* A rule that is scored counts once more; the HUD shows the total.
LEMMA RulesApplied ==
  ASSUME NEW rules, Apply(rules), applied \in [Rules -> Nat]
  PROVE  /\ applied' \in [Rules -> Nat] /\ hudScore' = Total(applied)'
         /\ \A r \in Rules : applied'[r] = applied[r] + IF r \in rules THEN 1 ELSE 0
BY DEF Apply

\* The rules of different faults, and of the other events, are different.
LEMMA RulesDiffer ==
  /\ StorageRules \subseteq Rules /\ ChallengeRules \subseteq Rules /\ FinalRules \subseteq Rules
  /\ \A f \in DOMAIN fixRule :
       /\ fixRule[f] \in Rules \ (StorageRules \cup ChallengeRules \cup FinalRules)
       /\ ignoreRule[f] \in Rules \ (StorageRules \cup ChallengeRules \cup FinalRules)
       /\ \A g \in DOMAIN fixRule :
            /\ fixRule[f] # ignoreRule[g]
            /\ fixRule[f] = fixRule[g] \/ ignoreRule[f] = ignoreRule[g] => f = g
  /\ StorageRules \cap ChallengeRules = {} /\ StorageRules \cap FinalRules = {} /\ ChallengeRules \cap FinalRules = {}
  /\ \A r \in Rules : \/ r \in StorageRules \cup ChallengeRules \cup FinalRules
                      \/ \E f \in DOMAIN fixRule : r \in {fixRule[f], ignoreRule[f]}
<1>1. DOMAIN fixRule = {"UNMERGED_SNAPSHOT", "MTU_MISMATCH", "RDMA_UNSUPPORTED"}
  BY DEF fixRule
<1>2. /\ fixRule["UNMERGED_SNAPSHOT"] = "FIXED_FAULT_SNAPSHOT"
      /\ fixRule["MTU_MISMATCH"] = "FIXED_FAULT_MTU"
      /\ fixRule["RDMA_UNSUPPORTED"] = "FIXED_FAULT_RDMA"
      /\ ignoreRule["UNMERGED_SNAPSHOT"] = "IGNORED_SNAPSHOT_WARNING"
      /\ ignoreRule["MTU_MISMATCH"] = "IGNORED_FAULT_MTU"
      /\ ignoreRule["RDMA_UNSUPPORTED"] = "IGNORED_FAULT_RDMA"
  BY DEF fixRule, ignoreRule
<1>3. Rules = {"USED_IO_LOCALITY", "USED_RDMA", "USED_CHECKPOINT_RESUME", "PERFECT_STORAGE_MAPPING",
               "ZERO_DOWNTIME", "AGENTLESS_AWARENESS", "FIXED_FAULT_SNAPSHOT", "FIXED_FAULT_MTU",
               "FIXED_FAULT_RDMA", "WRONG_STORAGE_TIER", "IGNORED_SNAPSHOT_WARNING",
               "IGNORED_FAULT_MTU", "IGNORED_FAULT_RDMA", "MANUAL_RESTART_TRANSFER"}
  BY DEF Rules, Points
<1>4. QED
  BY <1>1, <1>2, <1>3 DEF StorageRules, ChallengeRules, FinalRules

\* A step that scores nothing.
LEMMA NothingNew ==
  ASSUME Scored, UNCHANGED <<applied, hudScore, storage>>,
         faults' \subseteq FaultTypes, DOMAIN resolutions' \subseteq FaultTypes,
         state' \in Undecided => state \in Undecided,
         state' \in Planned <=> state \in Planned,
         state = "COMPLETED" => state' = "COMPLETED",
         "challenge" \in awaited' => challenged',
         ~challenged' => ~challenged,
         "challenge" \in awaited' => ~challenged \/ "challenge" \in awaited
  PROVE  Scored'
<1>1. applied' = applied /\ applied \in [Rules -> Nat] /\ hudScore' = hudScore /\ storage' = storage
  BY DEF Scored
<1>2. FaultsScored'
  BY <1>1 DEF Scored, FaultsScored
<1>3. StorageScored'
  BY <1>1 DEF Scored, StorageScored
<1>4. ChallengeScored'
  BY <1>1 DEF Scored, ChallengeScored
<1>5. EndScored'
  BY <1>1 DEF Scored, EndScored
<1>6. QED
  BY <1>1, <1>2, <1>3, <1>4, <1>5 DEF Scored

\* A decision about every fault scores one rule for it.
LEMMA FaultsCounted ==
  ASSUME Inv, Scored, submitFaultChoices PROVE Scored'
<1> DEFINE rules == {RuleFor(f) : f \in DOMAIN resolutions}
<1>1. /\ Apply(rules) /\ faults' = {} /\ resolutions' = <<>> /\ UNCHANGED <<storage, challenged>>
      /\ awaited' = awaited \ {"faults"}
      /\ state = "ENV_SCAN" /\ state' = "COMPATIBILITY_CHECK"
  BY WhereTo DEF submitFaultChoices, Submit, mapVars, syncVars
<1>2. /\ applied \in [Rules -> Nat] /\ applied' \in [Rules -> Nat] /\ hudScore' = Total(applied)'
      /\ \A r \in Rules : applied'[r] = applied[r] + IF r \in rules THEN 1 ELSE 0
  BY <1>1, RulesApplied DEF Scored
<1>3. DOMAIN resolutions \subseteq DOMAIN fixRule
  BY FaultsAssumption DEF Scored, FaultsScored
<1>4. \A r \in rules : \E f \in DOMAIN resolutions :
        r = IF resolutions[f] = "use" THEN fixRule[f] ELSE ignoreRule[f]
  BY DEF RuleFor
<1> HIDE DEF rules
<1>5. \A r \in StorageRules \cup ChallengeRules \cup FinalRules : r \notin rules /\ applied'[r] = applied[r]
  BY <1>2, <1>3, <1>4, RulesDiffer DEF Scored
<1>6. \A f \in DOMAIN fixRule : ~ (fixRule[f] \in rules /\ ignoreRule[f] \in rules)
  BY <1>3, <1>4, RulesDiffer
<1>7. \A f \in DOMAIN fixRule : applied[fixRule[f]] = 0 /\ applied[ignoreRule[f]] = 0
  BY <1>1 DEF Scored, FaultsScored, Undecided
<1>8. \A f \in DOMAIN fixRule : applied'[fixRule[f]] + applied'[ignoreRule[f]] <= 1
  BY <1>2, <1>6, <1>7, RulesDiffer
<1>9. FaultsScored'
  BY <1>1, <1>8 DEF FaultsScored, Undecided
<1>10. StorageScored'
  BY <1>1, <1>5 DEF Scored, StorageScored, Planned
<1>11. ChallengeScored'
  BY <1>1, <1>5 DEF Scored, ChallengeScored
<1>12. EndScored'
  BY <1>1, <1>5 DEF Scored, EndScored
<1>13. QED
  BY <1>2, <1>9, <1>10, <1>11, <1>12 DEF Scored

\* The pool that is chosen scores its rules, and its warning the two that go
\* with it.
LEMMA StorageCounted ==
  ASSUME Inv, Scored, NEW pool \in StoragePools, NEW ioLocality \in BOOLEAN, NEW rdma \in BOOLEAN,
         submitStorageMapping(pool, ioLocality, rdma)
  PROVE  Scored'
<1> DEFINE warning == checkStorageMismatch(pool)
           rules == (IF ioLocality /\ IoLocalitySupport(pool) THEN {"USED_IO_LOCALITY"} ELSE {})
                    \cup (IF rdma /\ RdmaSupport(pool) THEN {"USED_RDMA"} ELSE {})
                    \cup (IF warning = "none" THEN {"PERFECT_STORAGE_MAPPING"} ELSE {})
                    \cup (IF warning = "PERFORMANCE_DOWNGRADE" THEN {"WRONG_STORAGE_TIER"} ELSE {})
<1>1. /\ Apply(rules) /\ UNCHANGED <<faults, resolutions, challenged>>
      /\ awaited' = awaited \ {"storage"} /\ storage'.warning = warning
      /\ state = "STORAGE_MAPPING" /\ state' = "PRE_SNAPSHOT"
  BY WhereTo DEF submitStorageMapping, Submit, syncVars
<1>2. /\ rules \subseteq StorageRules
      /\ "PERFECT_STORAGE_MAPPING" \in rules <=> warning = "none"
      /\ "WRONG_STORAGE_TIER" \in rules <=> warning = "PERFORMANCE_DOWNGRADE"
  BY DEF StorageRules
<1> HIDE DEF rules, warning
<1>3. /\ applied \in [Rules -> Nat] /\ applied' \in [Rules -> Nat] /\ hudScore' = Total(applied)'
      /\ \A r \in Rules : applied'[r] = applied[r] + IF r \in rules THEN 1 ELSE 0
  BY <1>1, RulesApplied DEF Scored
<1>4. \A r \in Rules \ StorageRules : applied'[r] = applied[r]
  BY <1>2, <1>3
<1>5. \A r \in StorageRules : applied[r] = 0 /\ applied'[r] = IF r \in rules THEN 1 ELSE 0
  BY <1>1, <1>3, RulesDiffer DEF Scored, StorageScored, Planned
<1>6. FaultsScored'
  BY <1>1, <1>4, RulesDiffer DEF Scored, FaultsScored, Undecided
<1>7. StorageScored'
  BY <1>1, <1>2, <1>5 DEF StorageScored, Planned, StorageRules
<1>8. ChallengeScored'
  BY <1>1, <1>4, RulesDiffer DEF Scored, ChallengeScored
<1>9. EndScored'
  BY <1>1, <1>4, RulesDiffer DEF Scored, EndScored
<1>10. QED
  BY <1>3, <1>6, <1>7, <1>8, <1>9 DEF Scored

\* The challenge has one answer.
LEMMA ChallengeCounted ==
  ASSUME Scored, NEW resp \in Responses, submitChallengeResponse(resp) PROVE Scored'
<1> DEFINE rules == CASE resp = "smartx_retry"     -> {"USED_CHECKPOINT_RESUME"}
                      [] resp = "restart_transfer" -> {"MANUAL_RESTART_TRANSFER"}
                      [] OTHER                     -> {}
<1>1. /\ Apply(rules) /\ UNCHANGED <<state, faults, resolutions, storage, challenged>>
      /\ "challenge" \in awaited /\ "challenge" \notin awaited'
  BY DEF submitChallengeResponse, Submit, mapVars, syncVars
<1>2. rules \subseteq ChallengeRules
  BY DEF ChallengeRules, Responses
<1> HIDE DEF rules
<1>3. /\ applied \in [Rules -> Nat] /\ applied' \in [Rules -> Nat] /\ hudScore' = Total(applied)'
      /\ \A r \in Rules : applied'[r] = applied[r] + IF r \in rules THEN 1 ELSE 0
  BY <1>1, RulesApplied DEF Scored
<1>4. \A r \in Rules \ ChallengeRules : applied'[r] = applied[r]
  BY <1>2, <1>3
<1>5. \A r \in ChallengeRules : applied'[r] <= 1
  BY <1>1, <1>3, RulesDiffer DEF Scored, ChallengeScored
<1>6. FaultsScored'
  BY <1>1, <1>4, RulesDiffer DEF Scored, FaultsScored
<1>7. StorageScored'
  <2>1. /\ \A r \in StorageRules : applied'[r] = applied[r]
        /\ "PERFECT_STORAGE_MAPPING" \in StorageRules /\ "WRONG_STORAGE_TIER" \in StorageRules
    BY <1>4, RulesDiffer DEF StorageRules
  <2>2. QED
    BY <1>1, <2>1 DEF Scored, StorageScored
<1>8. ChallengeScored'
  BY <1>1, <1>5 DEF Scored, ChallengeScored
<1>9. EndScored'
  BY <1>1, <1>4, RulesDiffer DEF Scored, EndScored
<1>10. QED
  BY <1>3, <1>6, <1>7, <1>8, <1>9 DEF Scored

\* The end comes once.
LEMMA EndCounted ==
  ASSUME Inv, Scored, NEW h \in running, PostCheckEnds(h) PROVE Scored'
<1>1. /\ Apply(FinalRules) /\ UNCHANGED <<faults, resolutions, storage, challenged, awaited>>
      /\ state = "POST_CHECK" /\ state' = "COMPLETED"
  BY WhereTo DEF PostCheckEnds, uiVars, mapVars, syncVars, FinalRules
<1>2. /\ applied \in [Rules -> Nat] /\ applied' \in [Rules -> Nat] /\ hudScore' = Total(applied)'
      /\ \A r \in Rules : applied'[r] = applied[r] + IF r \in FinalRules THEN 1 ELSE 0
  BY <1>1, RulesApplied DEF Scored
<1>3. \A r \in Rules \ FinalRules : applied'[r] = applied[r]
  BY <1>2
<1>4. FaultsScored'
  BY <1>1, <1>3, RulesDiffer DEF Scored, FaultsScored, Undecided
<1>5. StorageScored'
  <2>1. /\ \A r \in StorageRules : applied'[r] = applied[r]
        /\ "PERFECT_STORAGE_MAPPING" \in StorageRules /\ "WRONG_STORAGE_TIER" \in StorageRules
    BY <1>3, RulesDiffer DEF StorageRules
  <2>2. QED
    BY <1>1, <2>1 DEF Scored, StorageScored, Planned
<1>6. ChallengeScored'
  BY <1>1, <1>3, RulesDiffer DEF Scored, ChallengeScored
<1>7. EndScored'
  BY <1>1, <1>2, RulesDiffer DEF Scored, EndScored
<1>8. QED
  BY <1>2, <1>4, <1>5, <1>6, <1>7 DEF Scored

\* Every step of the client keeps the account of the scores.
LEMMA ClientScores ==
  ASSUME Inv, Scored, FlowNext PROVE Scored'
<1>1. faults \subseteq FaultTypes /\ DOMAIN resolutions \subseteq FaultTypes /\ ("challenge" \in awaited => challenged)
  BY DEF Scored, FaultsScored, ChallengeScored
<1>2. CASE /\ UNCHANGED <<applied, hudScore, storage, faults, resolutions, challenged>>
           /\ "challenge" \in awaited' => "challenge" \in awaited
           /\ state' \in Undecided => state \in Undecided
           /\ state' \in Planned <=> state \in Planned
           /\ state = "COMPLETED" => state' = "COMPLETED"
  BY <1>1, <1>2, NothingNew
<1>3. CASE Consoles
  <2>1. CASE onCommandConsole
    BY <1>2, <2>1 DEF onCommandConsole, Show, mapVars, syncVars, scoreVars, Planned, Undecided
  <2>2. CASE onNetworkConsole
    BY <1>2, <2>2 DEF onNetworkConsole, Show, syncVars, scoreVars
  <2>3. CASE onStorageConsole
    BY <1>2, <2>3 DEF onStorageConsole, Show, mapVars, syncVars, scoreVars
  <2>4. CASE onCutoverConsole
    <3>1. state = "PRE_SNAPSHOT" /\ state' = "FULL_SYNC"
      BY <2>4, WhereTo
    <3>2. QED
      BY <1>2, <2>4, <3>1 DEF onCutoverConsole, mapVars, uiVars, scoreVars, Planned, Undecided
  <2>5. QED
    BY <1>3, <2>1, <2>2, <2>3, <2>4 DEF Consoles
<1>4. CASE Answers
  <2>1. CASE submitVCenterLogin
    <3>1. state = "IDLE" /\ state' = "ENV_SCAN"
      BY <2>1, WhereTo
    <3>2. QED
      BY <1>2, <2>1, <3>1 DEF submitVCenterLogin, Submit, Panels, mapVars, syncVars, scoreVars, Planned, Undecided
  <2>2. CASE acknowledgeScanResults
    <3>1. faults' \subseteq FaultTypes /\ resolutions' = <<>> /\ DOMAIN resolutions' = {}
      BY <2>2 DEF acknowledgeScanResults, kSubset
    <3>2. UNCHANGED <<applied, hudScore, storage, state, challenged>> /\ ("challenge" \in awaited' => "challenge" \in awaited)
      BY <2>2 DEF acknowledgeScanResults, Submit, mapVars, syncVars, scoreVars
    <3>3. QED
      BY <1>1, <3>1, <3>2, NothingNew
  <2>3. CASE acknowledgeCompatibility
    <3>1. state = "COMPATIBILITY_CHECK" /\ state' = "NETWORK_MAPPING"
      BY <2>3, WhereTo
    <3>2. QED
      BY <1>2, <2>3, <3>1 DEF acknowledgeCompatibility, Submit, mapVars, syncVars, scoreVars, Planned, Undecided
  <2>4. CASE submitNetworkMapping
    <3>1. state = "NETWORK_MAPPING" /\ state' = "STORAGE_MAPPING"
      BY <2>4, WhereTo
    <3>2. QED
      BY <1>2, <2>4, <3>1 DEF submitNetworkMapping, Submit, mapVars, syncVars, scoreVars, Planned, Undecided
  <2>5. ASSUME NEW f \in FaultTypes, NEW action, Pick(f, action) PROVE Scored'
    <3>1. faults' = faults /\ DOMAIN resolutions' = DOMAIN resolutions \cup {f}
      BY <2>5 DEF Pick
    <3>2. UNCHANGED <<applied, hudScore, storage, state, challenged, awaited>>
      BY <2>5 DEF Pick, mapVars, syncVars, scoreVars
    <3>3. QED
      BY <1>1, <3>1, <3>2, NothingNew
  <2>6. ASSUME NEW s, NEW b, tryMap(s, b) PROVE Scored'
    BY <1>2, <2>6 DEF tryMap, mapVars, syncVars, scoreVars
  <2>7. QED
    BY <1>4, <2>1, <2>2, <2>3, <2>4, <2>5, <2>6, FaultsCounted, StorageCounted, ChallengeCounted DEF Answers
<1>5. CASE Timers
  <2>1. PICK h \in running : ScanEnds(h) \/ CompatEnds(h) \/ RoundEnds(h) \/ InjectionEnds(h)
                             \/ CutoverEnds(h) \/ PostCheckEnds(h) \/ StepEnds(h)
    BY <1>5 DEF Timers
  <2>2. CASE ScanEnds(h) \/ CompatEnds(h) \/ StepEnds(h)
    BY <1>2, <2>2 DEF ScanEnds, CompatEnds, StepEnds, Show, uiVars, mapVars, syncVars, scoreVars
  <2>3. CASE RoundEnds(h) \/ InjectionEnds(h) \/ CutoverEnds(h)
    <3>1. \/ state' = state
          \/ state \in Planned \ {"COMPLETED"} /\ state' \in Planned /\ state' \notin Undecided
      <4>1. \/ state = "INCREMENTAL_SYNC" /\ state' \in {state, "DRIVER_INJECTION"}
            \/ state = "DRIVER_INJECTION" /\ state' = "CUTOVER_EXECUTING"
            \/ state = "CUTOVER_EXECUTING" /\ state' = "POST_CHECK"
        BY <2>3, WhereTo
      <4>2. QED
        BY <4>1 DEF Planned, Undecided
    <3>2. QED
      BY <1>2, <2>3, <3>1 DEF RoundEnds, InjectionEnds, CutoverEnds, uiVars, mapVars, syncVars, scoreVars
  <2>4. QED
    BY <2>1, <2>2, <2>3, EndCounted
<1>6. CASE Tick
  <2>1. /\ UNCHANGED <<applied, hudScore, storage, faults, resolutions>>
        /\ \/ UNCHANGED <<challenged, awaited>>
           \/ ~challenged /\ challenged' = TRUE
    BY <1>6 DEF Tick, TickWhen, mapVars, scoreVars
  <2>2. state' = state \/ (state = "FULL_SYNC" /\ state' = "INCREMENTAL_SYNC")
    BY <1>6, WhereTo
  <2>3. /\ state' \in Undecided => state \in Undecided
        /\ state' \in Planned <=> state \in Planned
        /\ state = "COMPLETED" => state' = "COMPLETED"
    BY <2>2 DEF Planned, Undecided
  <2>4. QED
    BY <1>1, <2>1, <2>3, NothingNew
<1>7. QED
  BY <1>3, <1>4, <1>5, <1>6 DEF FlowNext

\* Nothing is scored twice, no fault both ways, the storage scores go with
\* the mapping, and the HUD shows their total.
THEOREM ScoresCorrect == Spec => []ScoredOnce
<1>1. Init => Scored
  <2> SUFFICES ASSUME Init PROVE Scored
    OBVIOUS
  <2>1. applied = [r \in Rules |-> 0] /\ hudScore = 0
    BY DEF Init, FlowInit
  <2>2. hudScore = Total(applied)
    BY <2>1, NothingScored
  <2>3. \A r \in Rules : applied[r] = 0
    BY <2>1
  <2>4. state = "none" /\ faults = {} /\ DOMAIN resolutions = {} /\ awaited = {}
    BY DEF Init, FlowInit
  <2>5. FaultsScored
    BY <2>3, <2>4, RulesDiffer DEF FaultsScored
  <2>6. StorageScored /\ ChallengeScored /\ EndScored
    BY <2>3, <2>4, RulesDiffer DEF StorageScored, ChallengeScored, EndScored, Planned
  <2>7. QED
    BY <2>1, <2>2, <2>5, <2>6 DEF Scored
<1>2. Inv /\ Scored /\ [Next]_clientVars => Scored'
  <2> SUFFICES ASSUME Inv, Scored, [Next]_clientVars PROVE Scored'
    OBVIOUS
  <2>1. CASE UNCHANGED flowVars
    BY <2>1, NothingNew DEF flowVars, uiVars, mapVars, syncVars, scoreVars, Scored, FaultsScored, ChallengeScored
  <2>2. CASE FlowNext
    BY <2>2, ClientScores
  <2>3. QED
    BY <2>1, <2>2 DEF Next, Interact, clientVars, FlowNext
<1>3. Scored => ScoredOnce
  <2> SUFFICES ASSUME Scored PROVE ScoredOnce
    OBVIOUS
  <2>1. applied \in [Rules -> Nat]
    BY DEF Scored
  <2>2. \A f \in DOMAIN fixRule : applied[fixRule[f]] <= 1 /\ applied[ignoreRule[f]] <= 1
    BY <2>1, RulesDiffer DEF Scored, FaultsScored
  <2>3. \A r \in Rules : applied[r] <= 1
    BY <2>2, RulesDiffer DEF Scored, StorageScored, ChallengeScored, EndScored
  <2>4. \A f \in FaultTypes : applied[fixRule[f]] + applied[ignoreRule[f]] <= 1
    BY FaultsAssumption DEF Scored, FaultsScored
  <2>5. QED
    BY <2>3, <2>4 DEF Scored, StorageScored, ScoredOnce
<1>4. QED
  BY <1>1, <1>2, <1>3, Invariance, PTL DEF Spec

=============================================================================
