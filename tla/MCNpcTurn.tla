----------------------------- MODULE MCNpcTurn -----------------------------
(***************************************************************************)
(* NpcTurn for TLC: a coward and a brave NPC, either backend, and a        *)
(* language model that forgets arguments, has a line besides a say action, *)
(* leaves the line blank, or asks for tools it may not use.                *)
(***************************************************************************)
EXTENDS NpcTurn

MCCast == {[courage |-> 30, sociability |-> 70, quiet |-> 0],
           [courage |-> 60, sociability |-> 40, quiet |-> 20]}

Bare(tool) == Action(tool, NoArgs)
MCDecisions ==
  {Decision("none", "text", <<Bare("face"), Action("say", Arg("text", "number"))>>),
   Decision("away", "blank", <<Bare("follow"), Bare("attack")>>)}

MCIncidents == [b \in Backends |-> IF b = "rule" THEN 2 ELSE 1]

Flags(story) == [f \in SafetyFlags |-> IF f \in MustHold THEN "yes"
                                       ELSE IF f = "is_story_character" THEN story ELSE "no"]
Ped(story, listed, quest) ==
  [flags |-> Flags(story), named |-> TRUE, critical |-> FALSE, listed |-> listed, quest |-> quest]
MCPeds == {Ped("no", FALSE, FALSE), Ped("no", TRUE, FALSE), Ped("no", FALSE, TRUE),
           Ped("yes", FALSE, TRUE)}
=============================================================================
