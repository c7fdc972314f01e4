----------------------------- MODULE Decisions -----------------------------
(***************************************************************************)
(* What an NPC decides: the rule backend's ladder (backend/rule.go), what  *)
(* the runtime adds to any backend's decision when the event is urgent     *)
(* (applyBehaviorGuardrails), and whether it may speak                     *)
(* (applySpeechPolicy, both agent/decision.go).                            *)
(***************************************************************************)
EXTENDS Actions

\* The events a decision tells apart: "threat" is a threat, an attack or damage,
\* "helped" PLAYER_HELPED_NPC, "noticed" an approach or a look, "sighted" a body
\* or a fight, "failed" and "done" an action's result, "goal" GOAL_COMPLETED.
Events == {"threat", "helped", "gunshot", "spoke", "noticed", "sighted", "goal", "failed", "done"}

\* Why the runtime asks for a decision.
Reasons == {"meaningful", "player_spoke", "quest_dialogue", "action_failed", "promoted", "idle"}

Goals == {"away", "stand", "alert", "leave", "own"}
Places == {"none", "point", "pair"}

\* A decision: mood, emotion and wording are left out, and a blank line is one
\* with an empty text.
Decision(goal, speech, actions) ==
    [goal |-> goal, speech |-> speech, actions |-> actions, internal |-> "none"]

\* What is assumed of a decision: a goal, and a list of actions, whatever they ask for.
IsActions(s) ==
    /\ s \in Seq({s[i] : i \in DOMAIN s})
    /\ \A i \in DOMAIN s : {"tool", "args"} \subseteq DOMAIN s[i]
IsDecision(d) ==
    /\ {"goal", "speech", "actions", "internal"} \subseteq DOMAIN d
    /\ d.goal \in Goals \cup {"none"}
    /\ IsActions(d.actions)

\* Courage and sociability in hundredths; quiet is the silence probability.
Natures == [courage : 0 .. 100, sociability : 0 .. 100, quiet : 0 .. 100]

-----------------------------------------------------------------------------
(* The rule backend.  ctx holds what it reads of the agent context: whether    *)
(* the recent events hold a threat or a help, the trigger, and the goal.       *)

\* shouldSpeak: an answer never rolls the dice, small talk does unless the
\* probability is zero.
Answers(nature) == nature.quiet <= 90
SmallTalk(nature) == IF nature.quiet = 0 THEN {TRUE} ELSE IF nature.quiet = 100 THEN {FALSE} ELSE BOOLEAN

OnThreat(nature) ==
    IF nature.courage < 48
    THEN Decision("away", "text", <<ToPlayer("flee_from")>>)
    ELSE Decision("stand", "text", <<ToPlayer("look_at")>>)

OnGunshot(nature, ctx) ==
    IF nature.courage >= 55 /\ Truthy(ctx.place)
    THEN Decision("alert", "text", <<Action("investigate", Arg("position", ctx.place))>>)
    ELSE IF nature.courage < 40
    THEN Decision("leave", "none", <<Action("wander", Arg("radius", "number"))>>)
    ELSE Decision(ctx.goal, "none", << >>)

\* Seeded fault: the fallback for a failed action follows the failure of any tool.
OnFailureOfAny(ctx) ==
    Decision(ctx.goal, "none", <<Action("wander", Arg("radius", "number"))>>)

\* A failed go_to falls back to wandering about, any other failure to nothing.
OnFailure(ctx) ==
    Decision(ctx.goal, "none",
             IF ctx.tool = "go_to" THEN <<Action("wander", Arg("radius", "number"))>> ELSE << >>)

\* Decide: the possible decisions; the trigger is looked at only when no recent
\* event is a threat or a help.
RuleDecisions(nature, ctx) ==
    LET silent == Decision(ctx.goal, "none", << >>)
        hail   == Decision(ctx.goal, "text", <<ToPlayer("look_at")>>)
    IN  CASE ctx.threat -> {OnThreat(nature)}
          [] ~ ctx.threat /\ ctx.friend -> {hail}
          [] ~ ctx.threat /\ ~ ctx.friend /\ ctx.event = "gunshot" -> {OnGunshot(nature, ctx)}
          [] ~ ctx.threat /\ ~ ctx.friend /\ ctx.event = "spoke" ->
                IF Answers(nature) THEN {hail, silent} ELSE {silent}
          [] ~ ctx.threat /\ ~ ctx.friend /\ ctx.event = "noticed" ->
                {IF talk /\ nature.sociability >= 62 THEN hail ELSE silent :
                    talk \in SmallTalk(nature)}
          [] ~ ctx.threat /\ ~ ctx.friend /\ ctx.event = "failed" -> {OnFailure(ctx)}
          [] OTHER -> {silent}

-----------------------------------------------------------------------------
(* The guardrails. *)

Has(actions, tools) == \E i \in DOMAIN actions : actions[i].tool \in tools
Without(actions, tools) == Picked(actions, {i \in DOMAIN actions : actions[i].tool \notin tools})
GoalOr(goal, default) == IF goal = "none" THEN default ELSE goal

Approaching == {"go_to", "follow", "wander", "investigate"}

\* Seeded fault: the flight is added beside whatever the backend chose.
FleeingToo(d) ==
    [d EXCEPT !.actions = IF Has(@, {"flee_from"}) THEN @ ELSE <<ToPlayer("flee_from")>> \o @,
              !.goal = GoalOr(@, "away")]

\* A coward under threat flees, and does not approach.
Fleeing(d) ==
    LET rest == Without(d.actions, Approaching)
    IN  [d EXCEPT !.actions = IF Has(rest, {"flee_from"}) THEN rest
                              ELSE <<ToPlayer("flee_from")>> \o rest,
                  !.goal = GoalOr(@, "away")]

Facing(d) ==
    IF Has(d.actions, {"face", "look_at"}) THEN d
    ELSE [d EXCEPT !.actions = Append(@, ToPlayer("face"))]

\* A brave NPC looks into a gunshot whose position is known.
Investigating(d, place) ==
    [d EXCEPT !.actions =
                  IF Has(@, {"investigate"}) THEN @
                  ELSE Append(Without(@, {"wander", "go_to", "follow", "flee_from"}),
                              Action("investigate", Arg("position", place))),
              !.goal = GoalOr(@, "alert")]

Leaving(d) ==
    IF Has(d.actions, {"wander", "go_to", "flee_from"}) THEN d
    ELSE [d EXCEPT !.actions = Append(@, Action("wander", Arg("radius", "number")))]

\* applyBehaviorGuardrails, by the trigger and the NPC's courage.
Guarded(nature, d, event, place) ==
    CASE event = "threat" /\ nature.courage < 48 -> Fleeing(d)
      [] event = "threat" /\ nature.courage >= 48 -> Facing(d)
      [] event = "gunshot" /\ nature.courage >= 55 /\ place = "point" -> Investigating(d, place)
      [] event = "gunshot" /\ nature.courage < 40 -> Leaving(d)
      [] OTHER -> d

-----------------------------------------------------------------------------
(* The speech policy. *)

\* Answers and urgent reactions do not wait for the cooldowns.
Urgent(why, event) ==
    why = "player_spoke" \/ (why = "meaningful" /\ event \in {"threat", "gunshot"})

Voiced(d, why, event, rested) ==
    IF Urgent(why, event) \/ rested THEN d ELSE [d EXCEPT !.speech = "none"]
=============================================================================
