------------------------------ MODULE Actions ------------------------------
(***************************************************************************)
(* What happens to one action of a decision on its way to a ped: the       *)
(* runtime repairs or drops it (normalizeAction, agent/decision.go), the   *)
(* tool registry's handler picks the arguments it forwards (tools/*.go),   *)
(* and the bridge's executor starts a task for it or fails it              *)
(* (bridge/src/action_executor.cpp).                                       *)
(***************************************************************************)
EXTENDS Naturals, Sequences, FiniteSets, Selection

\* JSON values by what the three of them tell apart: strings, numbers, lists of
\* three or more numbers, of fewer, of none, and objects without a position.
Values == {"text", "blank", "number", "point", "pair", "nothing", "object"}

\* isTruthy and ruleTruthy.
Truthy(v) == v \notin {"none", "blank", "nothing"}

\* StringFrom: what is neither a string nor a number becomes the empty string.
AsText(v) == IF v \in {"text", "number"} THEN "text" ELSE "blank"

\* An action is a tool and the arguments given, nil ones left out.
Action(tool, args) == [tool |-> tool, args |-> args]
NoArgs == [k \in {} |-> "none"]
Given(args, k) == IF k \in DOMAIN args THEN args[k] ELSE "none"
Put(args, k, v) == [j \in DOMAIN args \cup {k} |-> IF j = k THEN v ELSE args[j]]
Arg(k, v) == Put(NoArgs, k, v)

ToPlayer(tool) == Action(tool, Arg("entity", "text"))

-----------------------------------------------------------------------------
(* The runtime: normalizeAction. *)

Attending == {"look_at", "face", "follow", "flee_from"}
Supported == Attending \cup {"say", "wander", "go_to", "investigate", "wait", "gesture", "stop",
                             "clear_attention"}

\* A say beside a spoken line is dropped without a word; other actions that
\* cannot be repaired are dropped with an ACTION_FAILED event.
Duplicate(a, d) == a.tool = "say" /\ d.speech = "text"

Lost(a, d, place) ==
    \/ a.tool \notin Supported
    \/ a.tool = "say" /\ AsText(Given(a.args, "text")) = "blank"
    \/ /\ a.tool = "go_to" /\ ~ Truthy(Given(a.args, "destination"))
       /\ ~ Truthy(d.internal) /\ d.goal = "none"
    \/ a.tool = "investigate" /\ ~ Truthy(Given(a.args, "position")) /\ place = "none"

\* The repaired action: place is the newest position in the NPC's timeline.
Repaired(a, d, place) ==
    CASE a.tool \in Attending /\ "entity" \notin DOMAIN a.args ->
            [a EXCEPT !.args = Put(@, "entity", "text")]
      [] a.tool = "wander" -> [a EXCEPT !.args = Put(@, "radius", "number")]
      [] a.tool = "wait" -> [a EXCEPT !.args = Put(@, "duration", "number")]
      [] a.tool = "gesture" /\ "type" \notin DOMAIN a.args ->
            [a EXCEPT !.args = Put(@, "type", "text")]
      [] a.tool \in {"stop", "clear_attention"} -> Action(a.tool, NoArgs)
      [] a.tool = "go_to" /\ ~ Truthy(Given(a.args, "destination")) ->
            IF Truthy(d.internal)
            THEN [a EXCEPT !.args = Put(@, "destination", d.internal)]
            ELSE Action("wander", Arg("radius", "number"))
      [] a.tool = "investigate" /\ ~ Truthy(Given(a.args, "position")) ->
            [a EXCEPT !.args = Put(@, "position", place)]
      [] OTHER -> a

\* stabilizeDecision: the actions that survive, and how many failures it logs.
Kept(d, place) ==
    LET ok(a) == ~ Duplicate(a, d) /\ ~ Lost(a, d, place)
        fit   == Picked(d.actions, {i \in DOMAIN d.actions : ok(d.actions[i])})
    IN  [i \in DOMAIN fit |-> Repaired(fit[i], d, place)]
LostCount(d, place) ==
    LET lost(a) == ~ Duplicate(a, d) /\ Lost(a, d, place)
    IN  Cardinality({i \in DOMAIN d.actions : lost(d.actions[i])})

-----------------------------------------------------------------------------
(* The registry: one handler for each tool. *)

\* The arguments a handler insists on, those it fills in, and those it passes on.
Tool(needs, fills, takes) == [needs |-> needs, fills |-> fills, takes |-> takes]
MovementTools ==
    [wander |-> Tool({}, {"radius"}, {}),
     go_to  |-> Tool({"destination"}, {}, {"priority"}),
     follow |-> Tool({}, {"entity"}, {"distance"}),
     stop   |-> Tool({}, {}, {})]
AttentionTools ==
    [look_at |-> Tool({}, {"entity"}, {}),
     face    |-> Tool({}, {"entity"}, {}),
     clear_attention |-> Tool({}, {}, {})]
SpeechTools ==
    [say     |-> Tool({"text"}, {}, {"target", "emotion"}),
     gesture |-> Tool({}, {"type"}, {}),
     think   |-> Tool({}, {"style", "duration"}, {})]
ReactionTools ==
    [investigate |-> Tool({"position"}, {}, {}),
     flee_from   |-> Tool({}, {"entity"}, {}),
     wait        |-> Tool({}, {"duration"}, {}),
     react       |-> Tool({}, {}, {"entity", "position", "reaction"}),
     hands_up    |-> Tool({}, {"duration"}, {"face_entity"}),
     cower       |-> Tool({}, {"duration"}, {"from_entity"}),
     duck        |-> Tool({}, {"duration"}, {}),
     jump        |-> Tool({}, {}, {}),
     walk_away   |-> Tool({"entity"}, {}, {})]
InteractionTools ==
    [mount    |-> Tool({"entity"}, {}, {}),
     dismount |-> Tool({}, {}, {}),
     item_interaction   |-> Tool({"item", "interaction"}, {}, {}),
     animal_interaction |-> Tool({"target", "interaction_type", "interaction_model"}, {}, {}),
     horse_action       |-> Tool({"action"}, {}, {"target"})]
CombatTools ==
    [aim_at     |-> Tool({}, {"duration"}, {"entity", "position"}),
     shoot_at   |-> Tool({}, {"duration"}, {"entity", "position"}),
     attack     |-> Tool({"entity"}, {}, {}),
     take_cover |-> Tool({}, {"duration"}, {"from_entity", "from_position"})]

\* The three perception tools answer at once and are left out.
Tools == DOMAIN MovementTools \cup DOMAIN AttentionTools \cup DOMAIN SpeechTools
         \cup DOMAIN ReactionTools \cup DOMAIN InteractionTools \cup DOMAIN CombatTools
With(f, g) == [k \in DOMAIN f \cup DOMAIN g |-> IF k \in DOMAIN f THEN f[k] ELSE g[k]]
Catalog == With(MovementTools, With(AttentionTools, With(SpeechTools,
             With(ReactionTools, With(InteractionTools, CombatTools)))))

NumberArgs == {"radius", "distance", "duration", "action"}
RawArgs == {"destination", "position", "from_position"}

\* Whether a handler finds the argument usable, and the value it forwards.
Provided(args, k) ==
    /\ k \in DOMAIN args
    /\ k \in NumberArgs => args[k] = "number"
Converted(args, k) ==
    IF k \in RawArgs THEN args[k] ELSE IF k \in NumberArgs THEN "number" ELSE AsText(args[k])

\* Registry.Call: a handler that misses an argument fails without dispatching.
Accepted(a) ==
    /\ a.tool \in Tools
    /\ \A k \in Catalog[a.tool].needs : Provided(a.args, k)
    /\ a.tool = "say" => AsText(a.args["text"]) = "text"
    /\ a.tool = "investigate" => a.args["position"] # "nothing"

\* Seeded fault: only what was given as a string is forwarded.
ForwardedTexts(a) ==
    LET spec == Catalog[a.tool]
        sent == {k \in spec.needs \cup spec.takes : Provided(a.args, k)} \ RawArgs
    IN  Action(a.tool, [k \in sent \cup spec.fills |->
            IF Provided(a.args, k) THEN Converted(a.args, k)
            ELSE IF k \in NumberArgs THEN "number" ELSE "text"])

Forwarded(a) ==
    LET spec == Catalog[a.tool]
        sent == {k \in spec.needs \cup spec.takes : Provided(a.args, k)}
    IN  Action(a.tool, [k \in sent \cup spec.fills |->
            IF Provided(a.args, k) THEN Converted(a.args, k)
            ELSE IF k \in NumberArgs THEN "number" ELSE "text"])

-----------------------------------------------------------------------------
(* The bridge: dispatch_common.  known says whether the names of the request *)
(* are those of entities the game has; places have no names it could look up *)
(* (resolveDestination).                                                     *)

Entity(args, k, known) == Given(args, k) = "number" \/ (Given(args, k) = "text" /\ known)
Point(args, k) == Given(args, k) = "point"
Text(args, k) == Given(args, k) = "text"

StartsMovement(tool, args, known) ==
    \/ tool \in {"wander", "stop", "wait"}
    \/ /\ tool = "go_to"
       /\ \/ Point(args, "destination") \/ Point(args, "position")
          \/ Entity(args, "destination", known) \/ Entity(args, "entity", known)
    \/ tool = "follow" /\ Entity(args, "entity", known)

StartsAttention(tool, args, known) ==
    \/ /\ tool \in {"look_at", "face"}
       /\ IF "entity" \in DOMAIN args THEN Entity(args, "entity", known)
          ELSE Point(args, "position")
    \/ tool \in {"clear_attention", "gesture", "think"}
    \/ tool = "say" /\ Text(args, "text")

StartsReaction(tool, args, known) ==
    \/ tool = "investigate" /\ Point(args, "position")
    \/ tool = "flee_from" /\ (Entity(args, "entity", known) \/ Point(args, "position"))
    \/ tool = "walk_away" /\ Entity(args, "entity", known)
    \/ tool \in {"react", "hands_up", "cower", "duck", "jump"}

StartsInteraction(tool, args, known) ==
    \/ tool = "mount" /\ Entity(args, "entity", known)
    \/ tool \in {"dismount", "horse_action"}
    \/ tool = "item_interaction" /\ Text(args, "item") /\ Text(args, "interaction")
    \/ /\ tool = "animal_interaction" /\ Text(args, "target") /\ known
       /\ Text(args, "interaction_type") /\ Text(args, "interaction_model")

StartsCombat(tool, args, known) ==
    \/ /\ tool \in {"aim_at", "shoot_at"}
       /\ Entity(args, "entity", known) \/ Point(args, "position")
    \/ tool = "attack" /\ Entity(args, "entity", known)
    \/ /\ tool = "take_cover"
       /\ Entity(args, "from_entity", known) \/ Point(args, "from_position")

Starts(a, known) ==
    \/ StartsMovement(a.tool, a.args, known)
    \/ StartsAttention(a.tool, a.args, known)
    \/ StartsReaction(a.tool, a.args, known)
    \/ StartsInteraction(a.tool, a.args, known)
    \/ StartsCombat(a.tool, a.args, known)
=============================================================================
