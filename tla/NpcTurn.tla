------------------------------ MODULE NpcTurn ------------------------------
(***************************************************************************)
(* One NPC, turn by turn: what it remembers of its timeline, the decision  *)
(* of a turn (scheduleReasoning and executeDecision, agent/scheduler.go    *)
(* and agent/decision.go), the requests the dispatcher sends to the bridge *)
(* and the results that come back, some of which are a reason to decide    *)
(* again.  A message is handled whole under the runtime's lock, so each    *)
(* is one step; the bridge executes requests on its own.                   *)
(*                                                                         *)
(* Other NPCs appear as their effects: they speak, so that this one may    *)
(* not, and they take or leave the scheduler's slots.  Story freezes, and  *)
(* the scheduler itself, are modelled in AgentRuntime.                     *)
(***************************************************************************)
EXTENDS Decisions, Eligibility, OwnershipRules

CONSTANTS
  Cast,              \* the natures the NPC may have
  Backends,          \* "rule", "model" or both
  ModelDecisions,    \* the decisions a language model may return
  Peds,              \* the snapshots scans may show of it
  BlockIfUncertain,  \* story_safety.block_if_uncertain
  Window,            \* the events a backend is shown (20 in the code)
  PlaceWindow,       \* the events searched for a position (30 in the code)
  MaxIncidents,      \* bound: game events and losses of the connection, for each backend
  MaxRequests        \* bound: requests unanswered at a time

ASSUME TurnAssumption ==
  /\ Cast \subseteq Natures
  /\ Backends \subseteq {"rule", "model"}
  /\ \A d \in ModelDecisions : IsDecision(d)
  /\ Peds \subseteq Snapshots
  /\ BlockIfUncertain \in BOOLEAN
  /\ MaxIncidents \in [Backends -> Nat]
  /\ {Window, PlaceWindow, MaxRequests} \subseteq Nat
  /\ Window > 0 /\ PlaceWindow > 0

VARIABLES
  nature,   \* the NPC's personality
  backend,  \* who decides for it
  npc,      \* the runtime's view of it (see Views)
  flight,   \* its requests on the way to the bridge, in its hands, or answered
  lost,     \* requests whose request or result went down with a connection
  turn,     \* the tools called for in the last step, if it answered a threat
  budget    \* incidents still to come

vars == <<nature, backend, npc, flight, lost, turn, budget>>

GameEvents == {"threat", "helped", "gunshot", "spoke", "noticed", "sighted", "goal"}
Ids == 1 .. MaxRequests
Transient == {"think", "gesture", "clear_attention"}
Stages == {"sent", "running"}
\* The tools a turn sends requests for, when it answers a threat to an NPC whose
\* body is the runtime's; other turns are not told apart.
NoTurn == {"none"}

\* The newest event of the timeline, as far as an untriggered turn looks at it.
Latest(event, place, tool) == [event |-> event, place |-> place, tool |-> tool]
Unremarkable == Latest("other", "none", "none")
Remarkable(l) == IF l.event \in {"gunshot", "spoke", "noticed", "failed"} THEN l ELSE Unremarkable

\* The event that triggers a turn; idle turns and promotions have none.
Untriggered == Latest("none", "none", "none")

Views ==
  [own : OwnStates, overlay : BOOLEAN, goal : Goals \cup {"none"},
   threat : 0 .. Window, helped : 0 .. Window, place : 0 .. PlaceWindow,
   latest : [event : Events \cup {"other"}, place : Places,
             tool : Tools \cup {"none"}],
   waiting : BOOLEAN, pending : SUBSET Ids]

-----------------------------------------------------------------------------
(* The timeline: how many events ago a threat, a help and a position were, up *)
(* to the window in which they are looked for; and what the newest event was. *)
(* A model may decide anything, so what only the rule backend looks for is    *)
(* kept for the rule backend, and the position, which only repairs what a     *)
(* model forgets, for the model.                                              *)

\* Seeded fault: an age grows past its window.
OlderForever(age, n, window) == age + n

Older(age, n, window) == IF age + n < window THEN age + n ELSE window

Aged(v, n) ==
  IF n = 0 THEN v
  ELSE [v EXCEPT !.threat = Older(@, n, Window), !.helped = Older(@, n, Window),
                 !.place = Older(@, n, PlaceWindow), !.latest = Unremarkable]

Logged(v, l) ==
  LET aged == Aged(v, 1)
  IN  IF backend = "model"
      THEN [aged EXCEPT !.place = IF l.place = "point" THEN 0 ELSE @]
      ELSE [aged EXCEPT !.threat = IF l.event = "threat" THEN 0 ELSE @,
                        !.helped = IF l.event = "helped" THEN 0 ELSE @,
                        !.latest = Remarkable(l)]

RecentPosition(v) == IF v.place < PlaceWindow THEN "point" ELSE "none"

-----------------------------------------------------------------------------
(* A turn. *)

\* The context the rule backend reads: without a trigger the newest event counts.
RuleContext(v, trigger) ==
  LET l == IF trigger = Untriggered THEN v.latest ELSE trigger
  IN  [threat |-> v.threat < Window, friend |-> v.helped < Window,
       event |-> l.event, place |-> l.place, tool |-> l.tool, goal |-> v.goal]

Choices(v, trigger) ==
  IF backend = "rule" THEN RuleDecisions(nature, RuleContext(v, trigger)) ELSE ModelDecisions

\* The guardrails, which leave quest NPCs alone, and the speech policy; rested is
\* whether both speech cooldowns are over, this NPC's and the one of all of them.
Permitted(v, d, why, trigger, rested) ==
  LET guarded == IF v.overlay THEN d ELSE Guarded(nature, d, trigger.event, trigger.place)
  IN  Voiced(guarded, why, trigger.event, rested)

\* What executeDecision calls the registry with: the spoken line, if the NPC may
\* speak, then the actions, without a say action beside a line.  Of a quest NPC's
\* actions only what it says is let through, as it stands.
Spoken(v, d) ==
  IF d.speech # "none" /\ CanSpeak(v.own) THEN <<Action("say", Arg("text", d.speech))>> ELSE << >>

Calls(v, d) ==
  LET body == IF v.overlay
              THEN Picked(d.actions, {i \in DOMAIN d.actions : d.actions[i].tool = "say"})
              ELSE Kept(d, RecentPosition(v))
  IN  Spoken(v, d) \o Picked(body, {i \in DOMAIN body : body[i].tool # "say" \/ d.speech = "none"})

Refused(v, d) ==
  IF v.overlay THEN Cardinality({i \in DOMAIN d.actions : d.actions[i].tool # "say"})
  ELSE LostCount(d, RecentPosition(v))

\* The calls a handler accepts, as it forwards them to the bridge.
Sent(v, d) ==
  LET calls    == Calls(v, d)
      accepted == Picked(calls, {i \in DOMAIN calls : Accepted(calls[i])})
  IN  [i \in DOMAIN accepted |-> Forwarded(accepted[i])]

\* emitWaitGesture: a language model takes its time, and the NPC shows it.
Gestures(v) == backend = "model" /\ ~ v.overlay /\ v.own \in SlotStates
Think == Action("think", Put(Arg("style", "text"), "duration", "number"))

\* What a decision leaves of the view, but for the requests: the goal and the
\* events logged, a started action being one and a spoken line two.
AfterTurn(v, d, sent) ==
  LET news == d.goal \notin {"none", v.goal}
      says == Cardinality({i \in DOMAIN sent : sent[i].tool = "say"})
  IN  [Aged(v, Refused(v, d) + (IF news THEN 1 ELSE 0) + Len(sent) + says) EXCEPT
         !.goal = IF news THEN d.goal ELSE @]

\* Dispatch: the requests go out under new ids, and all but the transient ones
\* are pending.  tries counts the failures in a row that led to a request.
Numberings(v, f, sent) ==
  {ids \in [DOMAIN sent -> Ids \ (DOMAIN f \cup v.pending)] :
     \A i, j \in DOMAIN sent : ids[i] = ids[j] => i = j}

Dispatch(v, f, sent, tries) ==
  LET ids   == CHOOSE ids \in Numberings(v, f, sent) : TRUE
      new   == {ids[i] : i \in DOMAIN sent}
      at(k) == CHOOSE i \in DOMAIN sent : ids[i] = k
  IN  [npc    |-> [v EXCEPT !.pending = @ \cup {k \in new : sent[at(k)].tool \notin Transient}],
       flight |-> [k \in DOMAIN f \cup new |->
                     IF k \in new THEN [action |-> sent[at(k)], stage |-> "sent", tries |-> tries]
                     ELSE f[k]]]

\* scheduleReasoning: the outcomes of a turn, among those the bound on requests
\* has room for.
Outcome(v, f, taken) == [npc |-> v, flight |-> f, turn |-> taken]
Idle(v, f) == {Outcome(v, f, NoTurn)}

Taken(v, f, d, event, first, tries) ==
  LET sent == Sent(v, d)
      out  == Dispatch(AfterTurn(v, d, sent), f, first \o sent, tries)
  IN  IF Numberings(v, f, first \o sent) = {} THEN {}
      ELSE {Outcome(out.npc, out.flight,
                    IF event = "threat" /\ ~ v.overlay THEN {sent[i].tool : i \in DOMAIN sent}
                    ELSE NoTurn)}

ReasonAfter(v, f, why, trigger, tries) ==
  IF ~ CanReason(v.own) THEN Idle(v, f)
  ELSE LET first == IF Gestures(v) THEN <<Think>> ELSE << >>
           seen  == Aged(v, Len(first))
       IN  UNION {Taken(seen, f, d, trigger.event, first, tries) :
                  d \in {Permitted(seen, c, why, trigger, rested) :
                         c \in Choices(seen, trigger), rested \in BOOLEAN}}

Reason(v, f, why, trigger) == ReasonAfter(v, f, why, trigger, 0)

-----------------------------------------------------------------------------
(* The steps. *)

Init ==
  /\ nature \in Cast
  /\ backend \in Backends
  /\ npc = [own |-> "ROCKSTAR", overlay |-> FALSE, goal |-> "none",
            threat |-> Window, helped |-> Window, place |-> PlaceWindow, latest |-> Unremarkable,
            waiting |-> FALSE, pending |-> {}]
  /\ flight = [id \in {} |-> "none"]
  /\ lost = {}
  /\ turn = NoTurn
  /\ budget = MaxIncidents[backend]

\* A message leaves one of the outcomes.
Settle(outcomes) ==
  /\ \E o \in outcomes : npc' = o.npc /\ flight' = o.flight /\ turn' = o.turn
  /\ UNCHANGED <<nature, backend, lost>>

\* The manager moves the NPC and the runtime records it; a release is completed
\* at once.
Moved(v, to) ==
  IF to = NoMove THEN v
  ELSE LET told == IF EventName(v.own, to) # NoEvent \/ to = "AI_CONVERSATION" THEN 1 ELSE 0
           w    == [Aged(v, told) EXCEPT !.own = to]
       IN  IF to \in {"RELEASE", "ROCKSTAR"}
           THEN [w EXCEPT !.own = "ROCKSTAR", !.overlay = FALSE, !.waiting = FALSE]
           ELSE w

\* makeMeaningful: an AWARE NPC is activated if the scheduler has a slot free, and
\* otherwise queued, which is logged, and not asked.
Meaningful(v, f, why, trigger, free) ==
  IF v.own = "AWARE" /\ ~ free THEN Idle([Aged(v, 1) EXCEPT !.waiting = TRUE], f)
  ELSE Reason(IF v.own = "AWARE" THEN Moved(v, ScanTarget("AWARE", "close", TRUE, TRUE)) ELSE v,
              f, why, trigger)

\* handleGameEvent: the event is logged, then reacted to.
React(v, f, l, free) ==
  CASE l.event \in {"threat", "gunshot", "sighted"} -> Meaningful(v, f, "meaningful", l, free)
    [] l.event = "spoke" ->
         Reason(IF v.own = "AI_CONVERSATION" THEN v ELSE Moved(v, TalkTarget(v.own)),
                f, "player_spoke", l)
    [] l.event = "noticed" /\ v.overlay -> Reason(v, f, "quest_dialogue", l)
    [] l.event = "noticed" /\ ~ v.overlay /\ v.own = "AWARE" ->
         Meaningful(v, f, "meaningful", l, free)
    [] l.event = "goal" -> Idle([v EXCEPT !.goal = "none"], f)
    [] OTHER -> Idle(v, f)

GameEvent(event, place, free) ==
  LET l == Latest(event, place, "none")
      f == [id \in DOMAIN flight |-> [flight[id] EXCEPT !.tries = 0]]
  IN  /\ budget > 0
      /\ budget' = budget - 1
      /\ Settle(React(Logged(npc, l), f, l, free))

\* maybeScheduleIdleThinking, when the NPC's idle time may be up.
IdleThinking(v, f) ==
  IF v.own = "AI_ACTIVE" /\ ~ v.overlay /\ v.pending = {}
  THEN Idle(v, f) \cup Reason(v, f, "idle", Untriggered) ELSE Idle(v, f)

\* A scan shows the NPC, unless the bridge's own filter hides it.
Scanned(v, ped, band) ==
  LET q == [v EXCEPT !.overlay = TRUE]
  IN  CASE MaySpeakForQuest(ped) /\ band = "far" ->
             IF v.own \in {"QUEST_DIALOGUE"} \cup SlotStates THEN Moved(q, ReleaseTarget(v.own))
             ELSE q
        [] MaySpeakForQuest(ped) /\ band = "near" -> q
        [] MaySpeakForQuest(ped) /\ band = "close" -> Moved(q, QuestTarget(v.own))
        [] ~ MaySpeakForQuest(ped) /\ v.overlay -> Moved(v, ReleaseTarget(v.own))
        [] OTHER -> Moved(v, ScanTarget(v.own, band, CanActivate(ped, BlockIfUncertain), FALSE))

PedScan(ped, band) ==
  /\ StoryGate(ped)
  /\ Settle(IdleThinking(Scanned(npc, ped, band), flight))
  /\ UNCHANGED budget

\* A world update, or a scan that does not show the NPC.
WorldUpdate(far) ==
  /\ Settle(IdleThinking(IF far THEN Moved(npc, ScanTarget(npc.own, "far", TRUE, FALSE)) ELSE npc,
                         flight))
  /\ UNCHANGED budget

\* Push-to-talk; a conversation also ends for another one to start.
TalkStart ==
  /\ Settle(Idle(IF npc.own = "AI_CONVERSATION" THEN Aged(npc, 1)
                 ELSE Moved(npc, TalkTarget(npc.own)), flight))
  /\ UNCHANGED budget

TalkStop ==
  /\ Settle(Idle(Aged(Moved(npc, HushTarget(npc.own)), 1), flight))
  /\ UNCHANGED budget

\* promoteNextDeferred gives the NPC the slot it was waiting for.
Promoted ==
  /\ npc.waiting
  /\ LET v == [npc EXCEPT !.waiting = FALSE]
     IN  Settle(IF npc.own = "AWARE" THEN Meaningful(v, flight, "promoted", Untriggered, TRUE)
                ELSE Idle(v, flight))
  /\ UNCHANGED budget

-----------------------------------------------------------------------------
(* The bridge. *)

\* onIpcMessage: a request starts a task in the game, which knows the entities it
\* names.
Start(id) ==
  /\ flight[id].stage = "sent"
  /\ Starts(flight[id].action, TRUE)
  /\ flight' = [flight EXCEPT ![id].stage = "running"]
  /\ turn' = NoTurn
  /\ UNCHANGED <<nature, backend, npc, lost, budget>>

\* handleActionResult, for results in any order: a result is logged, pending or
\* not, and a failure is a reason to decide.
Report(id, event) ==
  LET request == flight[id]
      l == Latest(event, "none", request.action.tool)
      v == [Logged(npc, l) EXCEPT !.pending = @ \ {id}]
      f == [k \in DOMAIN flight \ {id} |-> flight[k]]
  IN  /\ Settle(IF event = "failed"
                THEN ReasonAfter(v, f, "action_failed", l,
                                 IF backend = "rule" THEN request.tries + 1 ELSE 0)
                ELSE Idle(v, f))
      /\ UNCHANGED budget

\* Seeded fault: a request that cannot be started is forgotten.
FailSilently(id, there, known) ==
  /\ flight[id].stage = "sent"
  /\ ~ (there /\ Starts(flight[id].action, known))
  /\ flight' = [k \in DOMAIN flight \ {id} |-> flight[k]]
  /\ turn' = NoTurn
  /\ UNCHANGED <<nature, backend, npc, lost, budget>>

\* A request that cannot be started is answered at once: there is whether the game
\* still has the ped, known whether it has what the request names.
Fail(id, there, known) ==
  /\ flight[id].stage = "sent"
  /\ ~ (there /\ Starts(flight[id].action, known))
  /\ Report(id, "failed")

\* tick: a task is reported completed after an estimated time, whatever became of
\* it.  On its way, neither report is anything anyone looks at.
Complete(id) == flight[id].stage = "running" /\ Report(id, "done")

\* The connection goes down, with some of the requests and reports on their way,
\* and the NPC is Rockstar's again; what runs in the game goes on.
LinkLost ==
  /\ budget > 0
  /\ budget' = budget - 1
  /\ \E down \in SUBSET DOMAIN flight :
       /\ flight' = [k \in DOMAIN flight \ down |-> flight[k]]
       /\ lost' = lost \cup (down \cap npc.pending)
  /\ npc' = IF npc.own = "ROCKSTAR" THEN npc ELSE Moved(npc, ReleaseTarget(npc.own))
  /\ turn' = NoTurn
  /\ UNCHANGED <<nature, backend>>

Message ==
  \/ \E event \in GameEvents, place \in Places, free \in BOOLEAN :
       /\ place # "none" => event = "gunshot"
       /\ GameEvent(event, place, free)
  \/ \E ped \in Peds, band \in Bands : PedScan(ped, band)
  \/ \E far \in BOOLEAN : WorldUpdate(far)
  \/ TalkStart \/ TalkStop \/ Promoted

Bridge ==
  \E id \in DOMAIN flight :
    \/ Start(id)
    \/ \E there, known \in BOOLEAN : Fail(id, there, known)
    \/ Complete(id)

Next == Message \/ Bridge \/ LinkLost

Spec == Init /\ [][Next]_vars

-----------------------------------------------------------------------------
(* Properties. *)

TypeOK ==
  /\ nature \in Natures /\ backend \in {"rule", "model"}
  /\ npc \in Views /\ turn \subseteq Tools \cup {"none"}
  /\ DOMAIN flight \subseteq Ids
  /\ \A id \in DOMAIN flight :
       /\ flight[id].action.tool \in Tools
       /\ flight[id].stage \in Stages
       /\ flight[id].tries \in Nat
  /\ lost \subseteq npc.pending
  /\ budget \in 0 .. MaxIncidents[backend]

\* The dispatcher's pending requests are the ones the bridge still owes an answer
\* to, and those whose answer can no longer come because a connection took them
\* down; the latter keep the NPC from idle thinking for ever.
PendingIsOwed ==
  npc.pending = {id \in DOMAIN flight : flight[id].action.tool \notin Transient} \cup lost

\* "Low-courage NPC must try to escape. Remove conflicting movement intentions":
\* whatever the backend decides, and however it is repaired on the way, a coward
\* under threat is sent fleeing and is sent nowhere else.
CowardFlees ==
  turn # NoTurn /\ nature.courage < 48 => "flee_from" \in turn /\ turn \cap Approaching = {}

\* What the runtime repairs, the handlers forward and the executor reads fit
\* together: a request whose arguments are of a usable kind fails to start only
\* for a ped or an entity the game does not have, never for an argument missing.
Usable(args) ==
  \A k \in DOMAIN args : IF k = "position" THEN args[k] = "point"
                         ELSE args[k] \in {"text", "number", "point"}
NothingMissingSent ==
  \A id \in DOMAIN flight :
    Usable(flight[id].action.args) => Starts(flight[id].action, TRUE)

\* "choose a modest local fallback rather than infinite retries": with the rule
\* backend a failure leads to a bounded number of failing requests in a row while
\* nothing new happens, even when the ped is gone and everything fails: what the
\* retries themselves log pushes the threat or help they answer out of the window.
RetriesEnd ==
  backend = "rule" => \A id \in DOMAIN flight : 2 * flight[id].tries <= Window
=============================================================================
