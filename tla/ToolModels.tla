----------------------------- MODULE ToolModels -----------------------------
(***************************************************************************)
(* The models of the client: AssetLoader with its cache of promises, the   *)
(* level that is dressed with them before the game can be played, and the  *)
(* tool in the player's hand, whose model arrives when the player may have *)
(* taken another one.                                                      *)
(***************************************************************************)
EXTENDS Integers

CONSTANTS Tools,       \* the tools of TOOL_SLOTS; each is also an asset key
          MaxSwitches  \* bound: how often the player changes the tool

ASSUME ToolAssumption ==
  /\ MaxSwitches \in Nat
  /\ Tools \cap {"none", "console_terminal", "rack"} = {}

VARIABLES
  level,     \* what buildTutorialLevelAsync waits for: "consoles", "racks", or "built"
  cache,     \* AssetLoader's cache: key -> "absent", "loading" or how it ended
  equipped,  \* ToolSystem's tool, or "none"
  viewed,    \* ToolViewmodel's currentTool, or "none"
  generation,\* loadGeneration
  mounted,   \* the object in the hand: its tool, and whether it is the model or the box
  arriving   \* calls of ToolViewmodel.equip that wait for a model

handVars == <<equipped, viewed, generation, mounted, arriving>>
modelVars == <<level, cache, handVars>>

Keys == Tools \cup {"console_terminal", "rack"}

\* How the level looks in the end is left out: for its own models only that
\* the fetch has ended is kept.
Outcomes(key) == IF key \in Tools THEN {"loaded", "failed"} ELSE {"settled"}

Settled(key) == cache[key] \notin {"absent", "loading"}

\* loadGLTF: the first request of a key fetches it, later ones share its
\* promise, the promise of a failure included.
loadGLTF(key) == cache' = [cache EXCEPT ![key] = IF @ = "absent" THEN "loading" ELSE @]

\* bootstrap starts to build the level; its four consoles ask for one model.
ModelInit ==
  /\ level = "consoles"
  /\ cache = [key \in Keys |-> IF key = "console_terminal" THEN "loading" ELSE "absent"]
  /\ equipped = "none" /\ viewed = "none" /\ generation = 0
  /\ mounted = [tool |-> "none", model |-> FALSE] /\ arriving = {}

\* A defect: whoever waited for a model mounts it.
ArrivesLate(key, outcome) ==
  LET calls == {a \in arriving : a.tool = key}
  IN /\ arriving' = arriving \ calls
     /\ mounted' = IF calls # {} /\ outcome = "loaded" THEN [tool |-> key, model |-> TRUE] ELSE mounted
     /\ UNCHANGED <<equipped, viewed, generation>>

\* The model of a tool that arrives is mounted only by the latest call; a
\* failure leaves the box in place.
Arrives(key, outcome) ==
  LET calls == {a \in arriving : a.tool = key}
      latest == \E a \in calls : a.generation = generation
  IN /\ arriving' = arriving \ calls
     /\ mounted' = IF latest /\ outcome = "loaded" THEN [tool |-> key, model |-> TRUE] ELSE mounted
     /\ UNCHANGED <<equipped, viewed, generation>>

\* A fetch ends, well or not, and whoever waits for its promise goes on.  The
\* level asks for the racks after the consoles, and is built after them.
Settle(key, outcome) ==
  /\ cache[key] = "loading"
  /\ cache' = [[cache EXCEPT ![key] = outcome] EXCEPT !["rack"] = IF key = "console_terminal" THEN "loading" ELSE @]
  /\ level' = CASE key = "console_terminal" -> "racks"
                [] key = "rack"             -> "built"
                [] OTHER                    -> level
  /\ Arrives(key, outcome)

\* A number key: ToolSystem.equip and, through tool:switch, the view model's.
\* The box is mounted first; a model that is in the cache follows at once.
equip(tool) ==
  /\ level = "built" /\ generation < MaxSwitches
  /\ equipped # tool
  /\ equipped' = tool /\ viewed' = tool
  /\ generation' = generation + 1
  /\ mounted' = [tool |-> tool, model |-> cache[tool] = "loaded"]
  /\ arriving' = arriving \cup
       (IF Settled(tool) THEN {} ELSE {[tool |-> tool, generation |-> generation + 1]})
  /\ loadGLTF(tool)
  /\ UNCHANGED level

Settles(key) == \E outcome \in Outcomes(key) : Settle(key, outcome)

Equips == \E tool \in Tools : equip(tool)

\* What is in the hand belongs to the tool that is equipped, in whatever
\* order models arrive; and a model that is there is shown.
HandShowsTool ==
  /\ mounted.tool = equipped /\ viewed = equipped
  /\ mounted.model => cache[equipped] = "loaded"
  /\ equipped # "none" /\ cache[equipped] = "loaded" => mounted.model

=============================================================================
