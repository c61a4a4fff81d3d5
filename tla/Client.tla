------------------------------- MODULE Client -------------------------------
(***************************************************************************)
(* main.ts's bootstrap: the flow of the migration and the models of the    *)
(* level and the tools, in one browser tab.  The consoles answer to E and  *)
(* the number keys to the tools only when the level is built.              *)
(***************************************************************************)
EXTENDS MigrationFlow, ToolModels

clientVars == <<flowVars, modelVars>>

Init == FlowInit /\ ModelInit

\* InteractionSystem: E at one of the registered consoles.
Interact == level = "built" /\ Consoles /\ UNCHANGED modelVars

Next ==
  \/ Interact
  \/ (Answers \/ Timers \/ Tick) /\ UNCHANGED modelVars
  \/ ((\E key \in Keys : Settles(key)) \/ Equips) /\ UNCHANGED flowVars

\* The browser runs every timer; the player owes nothing.
Spec ==
  /\ Init /\ [][Next]_clientVars
  /\ WF_clientVars(Timers /\ UNCHANGED modelVars)
  /\ WF_clientVars(Tick /\ UNCHANGED modelVars)

=============================================================================
