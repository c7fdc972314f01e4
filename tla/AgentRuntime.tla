---------------------------- MODULE AgentRuntime ----------------------------
(***************************************************************************)
(* The agent runtime: the handlers of bridge messages, the scheduler that  *)
(* caps active agents and defers the rest, the dialogue-only overlay of    *)
(* quest NPCs, the pending actions of the dispatcher, and the release of   *)
(* every NPC when the bridge goes away.                                    *)
(*                                                                         *)
(* One mutex is held for the whole of HandleMessage, backend call and      *)
(* sends included, so a message is one step.  ReleaseAll is a loop that    *)
(* may stop half-way; it is one step per NPC, during which the lock keeps  *)
(* every message out.  What a handler computes is the set of runtime       *)
(* states it may leave: the backend, the timeline on disk and the idle     *)
(* clock are the sources of the choice.                                    *)
(***************************************************************************)
EXTENDS OwnershipRules, Naturals, Sequences, FiniteSets

CONSTANTS
  NPC,               \* the NPC ids
  SeenOrder,         \* the order the NPCs were first seen in (OwnedNPCs)
  MaxAgents,         \* scheduler.max_reasoning_agents
  MaxConversations,  \* scheduler.max_conversation_agents
  WaitGestures,      \* thinking_policy.wait_gestures, with a backend that wants them
  MaxPending,        \* bound: unanswered actions per NPC
  BodyActions,       \* bound: the kinds of body actions decisions ask for
  Traffic,           \* bound: the kinds of messages the bridge sends
  BackendMayFail,    \* Decide may return an error
  AppendMayFail,     \* a timeline append may fail
  HostTicks          \* the host calls Tick (main.go does not)

MessageKinds == {"scan", "quest", "world", "spoke", "threat", "approach", "failure",
                 "hush", "fact", "result", "talk", "safety", "disconnect"}

ASSUME ConfigAssumption ==
  /\ SeenOrder \in Seq(NPC) \ {<<>>}
  /\ \A n \in NPC : \E i \in DOMAIN SeenOrder : SeenOrder[i] = n
  /\ \A i, j \in DOMAIN SeenOrder : SeenOrder[i] = SeenOrder[j] => i = j
  /\ MaxAgents \in Nat \ {0}
  /\ MaxConversations \in Nat
  /\ MaxPending \in Nat
  /\ BodyActions \subseteq {"task", "transient"}
  /\ Traffic \subseteq MessageKinds
  /\ {WaitGestures, BackendMayFail, AppendMayFail, HostTicks} \subseteq BOOLEAN

VARIABLES
  rt,      \* the Runtime, its ownership manager and its dispatcher (see Runtimes)
  link,    \* the bridge connection: "up", "releasing" or "down"
  swept    \* how many NPCs ReleaseAll has gone through

vars == <<rt, link, swept>>

Runtimes ==
  [own      : [NPC -> OwnStates],                \* ownership.State
   prev     : [NPC -> OwnStates \cup {NoState}], \* ownership PreviousState
   overlay  : [NPC -> BOOLEAN],                  \* DialogueOnly
   deferred : Seq(NPC),                          \* deferredOrder
   pending  : [NPC -> 0..MaxPending],            \* requests awaiting a result
   said     : SUBSET NPC,                        \* spoke in the last step
   acted    : SUBSET NPC,                        \* moved or gestured in the last step
   failed   : BOOLEAN]                           \* the last step returned an error

TypeOK == /\ rt \in Runtimes
          /\ link \in {"up", "releasing", "down"}
          /\ swept \in 0..Len(SeenOrder)

Init == /\ rt = [own      |-> [n \in NPC |-> "ROCKSTAR"],
                 prev     |-> [n \in NPC |-> NoState],
                 overlay  |-> [n \in NPC |-> FALSE],
                 deferred |-> <<>>,
                 pending  |-> [n \in NPC |-> 0],
                 said     |-> {},
                 acted    |-> {},
                 failed   |-> FALSE]
        /\ link = "down"
        /\ swept = 0

Fail(s) == [s EXCEPT !.failed = TRUE]

\* The runtime at the start of a handler.
Fresh == [rt EXCEPT !.said = {}, !.acted = {}, !.failed = FALSE]

\* An append of one fact to the timeline, whose error the caller returns.
Recorded(s) == {s} \cup (IF AppendMayFail THEN {Fail(s)} ELSE {})

-----------------------------------------------------------------------------
(* Reasoning: one backend decision and what the runtime lets through.      *)

\* What a decision asks for: speech of its own or a say action (a decision
\* with both says only its speech), and at most one body action, a task or one
\* of the transient tools that nobody waits for.
Decisions == [speech : {"none", "speech", "say"}, act : {"none"} \cup BodyActions]

Speaks(s, n, d) == \/ d.speech = "speech" /\ CanSpeak(s.own[n])
                   \/ d.speech = "say"

Acts(s, n, d) == d.act # "none" /\ ~s.overlay[n]

Gestures(s, n) == WaitGestures /\ ~s.overlay[n] /\ s.own[n] \in SlotStates

\* The requests that stay pending until the bridge reports their result.
Requests(s, n, d) == (IF Speaks(s, n, d) THEN 1 ELSE 0)
                     + (IF Acts(s, n, d) /\ d.act = "task" THEN 1 ELSE 0)

\* Every way the NPCs of P may each decide within the bound on pending actions.
Plans(s, P) ==
  {D \in [P -> Decisions] : \A n \in P : s.pending[n] + Requests(s, n, D[n]) <= MaxPending}

\* The NPCs of P execute the decisions of D.  A request is pending whether or
\* not a bridge is there to receive it.
Deliver(s, P, D) ==
  LET load(n) == IF n \in P THEN Requests(s, n, D[n]) ELSE 0
  IN  [s EXCEPT !.pending = [n \in NPC |-> s.pending[n] + load(n)],
                !.said    = @ \cup {n \in P : Speaks(s, n, D[n])},
                !.acted   = @ \cup {n \in P : Acts(s, n, D[n]) \/ Gestures(s, n)}]

ReasoningMayFail == BackendMayFail \/ AppendMayFail

\* A decision that errs: the wait gesture has already been sent.
Stall(s, n) == Fail([s EXCEPT !.acted = @ \cup {m \in {n} : Gestures(s, m)}])

\* Seeded fault: an NPC is asked whether or not it may reason.
ReasonUnguarded(s, n) ==
  IF s.failed THEN {s} ELSE {Deliver(s, {n}, D) : D \in Plans(s, {n})}

Reason(s, n) ==
  IF s.failed \/ ~CanReason(s.own[n]) THEN {s}
  ELSE {Deliver(s, {n}, D) : D \in Plans(s, {n})}
       \cup (IF ReasoningMayFail THEN {Stall(s, n)} ELSE {})

\* maybeScheduleIdleThinking: a loop, in any order, over the AI_ACTIVE NPCs with
\* nothing pending; those whose idle time is up decide, and an error ends it.
IdleAgents(s) == {n \in NPC : s.own[n] = "AI_ACTIVE" /\ s.pending[n] = 0 /\ ~s.overlay[n]}

IdleThinking(s) ==
  IF s.failed THEN {s}
  ELSE UNION {UNION {{Deliver(s, P, D)} \cup
                     {Stall(Deliver(s, P, D), n) : n \in {m \in IdleAgents(s) \ P : ReasoningMayFail}}
                     : D \in Plans(s, P)}
              : P \in SUBSET IdleAgents(s)}

-----------------------------------------------------------------------------
(* The scheduler: active-agent slots and the deferred queue.               *)

Active(s) == {n \in NPC : s.own[n] \in SlotStates}

CanPromote(s) == Cardinality(Active(s)) < MaxAgents

Queued(s) == {s.deferred[i] : i \in DOMAIN s.deferred}

Defer(s, n) == IF n \in Queued(s) THEN s ELSE [s EXCEPT !.deferred = Append(@, n)]

Without(q, n) ==
  IF \E i \in DOMAIN q : q[i] = n
  THEN LET i == CHOOSE i \in DOMAIN q : q[i] = n
       IN  SubSeq(q, 1, i - 1) \o SubSeq(q, i + 1, Len(q))
  ELSE q

\* The AWARE NPCs among the first k entries of the queue.
AwareAhead(s, k) == {n \in NPC : s.own[n] = "AWARE" /\ \E i \in 1..k : s.deferred[i] = n}

\* How many entries the promotion loop pops: it stops at a full house or an
\* empty queue, and skips entries that are no longer AWARE.
Full(s, k) == Cardinality(Active(s)) + Cardinality(AwareAhead(s, k)) >= MaxAgents

PopCounts(s) == {k \in 0..Len(s.deferred) : /\ k = Len(s.deferred) \/ Full(s, k)
                                            /\ \A j \in 0..(k - 1) : ~Full(s, j)}

\* Seeded fault: the newest entries are popped instead of the oldest.
ActivateNewest(s, k) ==
  LET newest == {s.deferred[i] : i \in (Len(s.deferred) - k + 1)..Len(s.deferred)}
  IN  [s EXCEPT !.own = [n \in NPC |-> IF n \in newest /\ s.own[n] = "AWARE"
                                        THEN "AI_ACTIVE" ELSE s.own[n]],
                !.deferred = SubSeq(@, 1, Len(@) - k)]

\* The first k entries are popped and the AWARE ones among them activated.
Activate(s, k) ==
  [s EXCEPT !.own = [n \in NPC |-> IF n \in AwareAhead(s, k) THEN "AI_ACTIVE" ELSE s.own[n]],
            !.deferred = SubSeq(@, k + 1, Len(@))]

\* promoteNextDeferred: every promoted NPC reasons in turn, and the first
\* error, at its activation event or in its decision, ends the loop.
Promoted(s, k) == {Deliver(Activate(s, k), AwareAhead(s, k), D) :
                   D \in Plans(Activate(s, k), AwareAhead(s, k))}

PromotionCut(s, k) ==
  LET ahead == AwareAhead(s, k) \ {s.deferred[k]}
  IN  UNION {{Stall(Deliver(Activate(s, k), ahead, D), s.deferred[k]),
              Fail(Deliver(Activate(s, k), ahead, D))} : D \in Plans(Activate(s, k), ahead)}

PromoteNextDeferred(s) ==
  LET cuts == {j \in 1..Len(s.deferred) : /\ ReasoningMayFail
                                          /\ s.own[s.deferred[j]] = "AWARE"
                                          /\ \E p \in PopCounts(s) : j <= p}
  IN  UNION ({Promoted(s, k) : k \in PopCounts(s)} \cup {PromotionCut(s, k) : k \in cuts})

\* Seeded faults: a release that keeps its queue entry, one that stops at the
\* transient state, and one that leaves the slot it frees empty.
HandOffKeepsEntry(s, n, to) ==
  IF s.failed \/ to # "RELEASE" THEN {s}
  ELSE PromoteNextDeferred([s EXCEPT !.own[n] = "ROCKSTAR", !.overlay[n] = FALSE])

HandOffUnfinished(s, n, to) ==
  IF s.failed \/ to # "RELEASE" THEN {s}
  ELSE PromoteNextDeferred([s EXCEPT !.deferred = Without(@, n), !.overlay[n] = FALSE])

HandOffAlone(s, n, to) ==
  IF s.failed \/ to # "RELEASE" THEN {s}
  ELSE {[s EXCEPT !.own[n] = "ROCKSTAR", !.deferred = Without(@, n), !.overlay[n] = FALSE]}

\* recordTransition: the event, the clean-up of a release, the slot it frees.
HandOff(s, n, to) ==
  LET c == [s EXCEPT !.deferred = Without(@, n), !.overlay[n] = FALSE]
  IN  CASE s.failed                      -> {s}
        [] ~s.failed /\ to = "RELEASE"   -> PromoteNextDeferred([c EXCEPT !.own[n] = "ROCKSTAR"])
        [] ~s.failed /\ to = "ROCKSTAR"  -> {c}
        [] OTHER                         -> {s}

RecordTransition(s, n, from, to) ==
  UNION {HandOff(t, n, to) :
         t \in IF EventName(from, to) # NoEvent \/ to = "AI_CONVERSATION"
               THEN Recorded(s) ELSE {s}}

\* The manager moves n and the runtime records it; a nil transition does nothing.
Move(s, n, to) == IF s.failed \/ to = NoMove THEN {s}
                  ELSE RecordTransition([s EXCEPT !.own[n] = to], n, s.own[n], to)

\* Seeded fault: a trigger activates without asking for a slot.
MakeMeaningfulUncapped(s, n) ==
  UNION {Reason(t, n) : t \in IF s.own[n] = "AWARE" THEN Move(s, n, "AI_ACTIVE") ELSE {s}}

\* makeMeaningful: a trigger promotes an AWARE NPC, or queues it when no slot
\* is free; whatever may reason then does.
MakeMeaningful(s, n) ==
  IF s.own[n] = "AWARE" /\ ~CanPromote(s)
  THEN Recorded(Defer(s, n))
  ELSE UNION {Reason(t, n) :
              t \in IF s.own[n] = "AWARE" THEN Move(s, n, ScanTarget("AWARE", "close", TRUE, TRUE))
                                          ELSE {s}}

-----------------------------------------------------------------------------
(* Conversations.                                                          *)

Rank(n) == CHOOSE i \in DOMAIN SeenOrder : SeenOrder[i] = n

\* The conversations ensureSingleConversation ends for one with n to start:
\* the first-seen ones beyond the cap.
Partners(s, n) == {m \in NPC \ {n} : s.own[m] = "AI_CONVERSATION"}

\* Seeded fault: one conversation too few is ended.
ExcessButOne(s, n) == {m \in Partners(s, n) :
                       Cardinality({x \in Partners(s, n) : Rank(x) < Rank(m)}) + MaxConversations
                         < Cardinality(Partners(s, n))}

Excess(s, n) == {m \in Partners(s, n) :
                 Cardinality({x \in Partners(s, n) : Rank(x) < Rank(m)}) + MaxConversations
                   <= Cardinality(Partners(s, n))}

\* ConversationEnded for each NPC of E; their transitions have no event.
Hush(s, E) ==
  LET Quiet(m) == m \in E /\ HushTarget(s.own[m]) # NoMove
  IN  [s EXCEPT !.own = [m \in NPC |-> IF Quiet(m) THEN HushTarget(s.own[m]) ELSE s.own[m]]]

UpTo(T, m) == {n \in T : Rank(n) <= Rank(m)}

\* Each ended conversation is logged, first-seen first, and an error stops it.
EnsureSingleConversation(s, n) ==
  LET E == Excess(s, n)
  IN  {Hush(s, E)} \cup
      (IF AppendMayFail THEN {Fail(Hush(s, UpTo(E, m))) : m \in E} ELSE {})

\* A conversation with n starts, or continues: push-to-talk then records the
\* barge-in, speech records nothing.
Converse(s, n, bargeIn) ==
  UNION {CASE t.failed -> {t}
           [] ~t.failed /\ t.own[n] = "AI_CONVERSATION" -> IF bargeIn THEN Recorded(t) ELSE {t}
           [] OTHER -> Move(t, n, TalkTarget(t.own[n]))
         : t \in EnsureSingleConversation(s, n)}

-----------------------------------------------------------------------------
(* The handlers of bridge messages.                                        *)

\* A message arrives on the bridge connection and its handler leaves one of
\* the runtimes of S; a handler error ends the connection.
Handle(kind, S) == /\ link = "up"
                   /\ kind \in Traffic
                   /\ rt' \in S
                   /\ link' = IF rt'.failed THEN "releasing" ELSE "up"
                   /\ UNCHANGED swept

\* Seeded fault: entering quest dialogue forgets the overlay.
ScanPedBare(s, n, band, eligible, quest) ==
  IF quest /\ band = "close" THEN Move(s, n, QuestTarget(s.own[n]))
  ELSE Move(s, n, ScanTarget(s.own[n], band, eligible, FALSE))

\* handleQuestDialoguePed, and the ownership update of an ordinary ped.
ScanPed(s, n, band, eligible, quest) ==
  LET q == [s EXCEPT !.overlay[n] = TRUE]
  IN  CASE quest /\ band = "far" ->
             IF s.own[n] \in {"QUEST_DIALOGUE", "AI_ACTIVE", "AI_CONVERSATION"}
             THEN Move(q, n, ReleaseTarget(s.own[n])) ELSE {q}
        [] quest /\ band = "near"       -> {q}
        [] quest /\ band = "close"      -> Move(q, n, QuestTarget(s.own[n]))
        [] ~quest /\ s.overlay[n]       -> Move(s, n, ReleaseTarget(s.own[n]))
        [] OTHER                        -> Move(s, n, ScanTarget(s.own[n], band, eligible, FALSE))

\* One ped of a ped_scan.  The loop over the peds of a scan keeps nothing from
\* one ped to the next, so a scan of several is a sequence of these in which
\* idle thinking happens to find nobody due until the last.
PedScan(n) == \E band \in Bands, eligible \in BOOLEAN, quest \in BOOLEAN :
  Handle(IF quest THEN "quest" ELSE "scan",
         UNION {IdleThinking(t) : t \in ScanPed(Fresh, n, band, eligible, quest)})

WorldUpdate(n) == \E far \in BOOLEAN :
  Handle("world", UNION {IdleThinking(t) :
    t \in IF far THEN Move(Fresh, n, ScanTarget(rt.own[n], "far", TRUE, FALSE)) ELSE {Fresh}})

\* handleGameEvent: the fact is appended before reactToEvent sees it.
React(s, n, kind) ==
  CASE kind = "spoke"    -> UNION {Reason(t, n) : t \in Converse(s, n, FALSE)}
    [] kind = "threat"   -> MakeMeaningful(s, n)
    [] kind = "approach" -> CASE s.overlay[n] -> Reason(s, n)
                              [] ~s.overlay[n] /\ s.own[n] = "AWARE" -> MakeMeaningful(s, n)
                              [] OTHER -> {s}
    [] kind = "failure"  -> Reason(s, n)
    [] kind = "hush"     -> {Hush(s, {n})}
    [] kind = "fact"     -> {s}

GameEvent(n, kind) ==
  Handle(kind, UNION {IF t.failed THEN {t} ELSE React(t, n, kind) : t \in Recorded(Fresh)})

\* Seeded fault: a result nobody waits for is counted as an answer.
ActionResultUnmatched(n) ==
  Handle("result", Recorded([Fresh EXCEPT !.pending[n] = @ - 1]))

\* handleActionResult: known is whether the result names a pending request.
ActionResult(n) == \E known, failure \in BOOLEAN :
  LET r == IF known THEN [Fresh EXCEPT !.pending[n] = @ - 1] ELSE Fresh
  IN  /\ known => rt.pending[n] > 0
      /\ Handle("result", UNION {IF failure THEN Reason(t, n) ELSE {t} : t \in Recorded(r)})

PushToTalkStart(n) == Handle("talk", Converse(Fresh, n, TRUE))

PushToTalkStop(n) ==
  Handle("talk", Recorded(Hush(Fresh, {n})))

\* handleStorySafety over the NPCs of T, the first-seen first.
Freeze(s, T) ==
  LET F == {n \in T : SuspendTarget(s.own[n]) # NoMove}
  IN  [s EXCEPT !.own  = [n \in NPC |-> IF n \in F THEN SuspendTarget(s.own[n]) ELSE s.own[n]],
                !.prev = [n \in NPC |-> IF n \in F THEN s.own[n] ELSE s.prev[n]]]

Thaw(s, T) ==
  LET F == {n \in T : ResumeTarget(s.own[n], s.prev[n]) # NoMove}
  IN  [s EXCEPT !.own  = [n \in NPC |-> IF n \in F THEN ResumeTarget(s.own[n], s.prev[n])
                                                   ELSE s.own[n]],
                !.prev = [n \in NPC |-> IF n \in F THEN NoState ELSE s.prev[n]]]

StorySafety(T, active) ==
  LET Turn(U) == IF active THEN Freeze(Fresh, U) ELSE Thaw(Fresh, U)
  IN  Handle("safety", {Turn(T)} \cup
        (IF AppendMayFail
         THEN {Fail(Turn(UpTo(T, m))) : m \in {n \in T : Turn(UpTo(T, n)).own[n] # rt.own[n]}}
         ELSE {}))

-----------------------------------------------------------------------------
(* The connection, ReleaseAll and the host.                                *)

Connect == /\ link = "down"
           /\ link' = "up"
           /\ rt' = Fresh
           /\ UNCHANGED swept

Disconnect == /\ link = "up"
              /\ "disconnect" \in Traffic
              /\ link' = "releasing"
              /\ rt' = Fresh
              /\ UNCHANGED swept

\* Seeded fault: the sweep passes over frozen NPCs as well.
ReleaseNextAwake ==
  LET n == SeenOrder[swept + 1]
  IN  /\ link = "releasing"
      /\ rt' \in IF rt.own[n] \in {"ROCKSTAR", "RELEASE", "SUSPENDED"} THEN {Fresh}
                 ELSE Move(Fresh, n, ReleaseTarget(rt.own[n]))
      /\ IF rt'.failed \/ swept + 1 = Len(SeenOrder)
         THEN link' = "down" /\ swept' = 0
         ELSE swept' = swept + 1 /\ UNCHANGED link

\* One round of ReleaseAll's loop over OwnedNPCs; an error ends the loop.
ReleaseNext ==
  LET n == SeenOrder[swept + 1]
  IN  /\ link = "releasing"
      /\ rt' \in IF rt.own[n] \in {"ROCKSTAR", "RELEASE"} THEN {Fresh}
                 ELSE Move(Fresh, n, ReleaseTarget(rt.own[n]))
      /\ IF rt'.failed \/ swept + 1 = Len(SeenOrder)
         THEN link' = "down" /\ swept' = 0
         ELSE swept' = swept + 1 /\ UNCHANGED link

\* Tick ignores the errors of both of its halves.
Unfailed(s) == [s EXCEPT !.failed = FALSE]

Tick == /\ HostTicks
        /\ link # "releasing"
        /\ \E t \in IdleThinking(Fresh) : \E u \in PromoteNextDeferred(Unfailed(t)) :
             rt' = Unfailed(u)
        /\ UNCHANGED <<link, swept>>

Message == \E n \in NPC :
  \/ PedScan(n) \/ WorldUpdate(n) \/ ActionResult(n)
  \/ PushToTalkStart(n) \/ PushToTalkStop(n)
  \/ \E kind \in {"spoke", "threat", "approach", "failure", "hush", "fact"} : GameEvent(n, kind)

Safety == \E active \in BOOLEAN, T \in {NPC} \cup {{n} : n \in NPC} : StorySafety(T, active)

Next == Message \/ Safety \/ Connect \/ Disconnect \/ ReleaseNext \/ Tick

\* The deferred function of a connection's goroutine always runs to its end.
Fairness == WF_vars(ReleaseNext)

Spec == Init /\ [][Next]_vars /\ Fairness

-----------------------------------------------------------------------------
(* Safety.                                                                 *)

\* A quest NPC keeps its dialogue-only overlay for as long as the runtime is in
\* its dialogue state, story freezes included: losing the overlay is what would
\* hand its body to the runtime.
OverlayCoversQuest ==
  \A n \in NPC : \/ rt.own[n] = "QUEST_DIALOGUE"
                 \/ rt.own[n] = "SUSPENDED" /\ rt.prev[n] = "QUEST_DIALOGUE"
                 => rt.overlay[n]

\* Whatever order messages, promotions, idle turns and failures come in, the
\* runtime moves only NPCs it owns the body of, and speaks only through NPCs it
\* may reason for: none that is released, frozen or Rockstar's, and no quest NPC
\* is ever moved.
CommandsOnlyOwned ==
  /\ \A n \in rt.acted : ~rt.overlay[n] /\ rt.own[n] \in {"AWARE"} \cup SlotStates
  /\ \A n \in rt.said : CanReason(rt.own[n])

\* A frozen NPC knows a state to thaw to: no freeze or half-failed handler
\* overwrites what it was before with nothing, with Rockstar's or with frozen.
SuspendedRemembers ==
  \A n \in NPC : rt.own[n] = "SUSPENDED" =>
                   rt.prev[n] \notin {NoState, "ROCKSTAR", "SUSPENDED"}

\* The NPCs ReleaseAll has passed stay released, although each release promotes
\* deferred NPCs, which reason, while the sweep is under way.
SweptStayReleased ==
  link = "releasing" => \A i \in 1..swept : rt.own[SeenOrder[i]] \in {"ROCKSTAR", "RELEASE"}

\* The deferred queue names each NPC once and none the runtime has let go of.
\* A release whose event cannot be appended leaves its entry behind.
QueueSound ==
  /\ \A i, j \in DOMAIN rt.deferred : rt.deferred[i] = rt.deferred[j] => i = j
  /\ \A n \in Queued(rt) :
       rt.own[n] \notin {"ROCKSTAR"} \cup (IF AppendMayFail THEN {} ELSE {"CANDIDATE", "RELEASE"})

\* RELEASE is a transient hand-off: with a timeline that can be written, no
\* handler leaves an NPC there.
ReleaseIsTransient == AppendMayFail \/ \A n \in NPC : rt.own[n] # "RELEASE"

-----------------------------------------------------------------------------
(* What a step may never do.                                               *)

\* Control of an NPC is not taken in one leap: an NPC that is Rockstar's, merely
\* watched or being handed back is neither active nor talking one message later.
ActivationNeedsAwareness ==
  [][\A n \in NPC : rt.own[n] \in {"ROCKSTAR", "CANDIDATE", "RELEASE"}
                      => rt'.own[n] \notin SlotStates]_vars

\* Activating AWARE NPCs, by an event or from the queue and however many at once,
\* never leaves more active agents than max_reasoning_agents.
PromotionRespectsCap ==
  [][(\E n \in NPC : rt.own[n] = "AWARE" /\ rt'.own[n] = "AI_ACTIVE")
       => Cardinality(Active(rt')) <= MaxAgents]_vars

\* Deferred NPCs are promoted in the order they were deferred in: nobody is
\* activated off the queue while somebody ahead stays in it.
FifoPromotion ==
  [][\A i, j \in DOMAIN rt.deferred :
       LET later == rt.deferred[j]
       IN  /\ i < j
           /\ rt.own[later] = "AWARE" /\ rt'.own[later] = "AI_ACTIVE"
           /\ later \notin Queued(rt')
           => rt.deferred[i] \notin Queued(rt')]_vars

\* A release that goes through hands its slot on: afterwards an AWARE NPC waits
\* in the queue only if every slot is taken.
ReleaseFillsSlots ==
  [][(/\ \E n \in NPC : rt.own[n] \in {"AWARE"} \cup SlotStates /\ rt'.own[n] = "ROCKSTAR"
      /\ ~rt'.failed)
       => \/ ~CanPromote(rt')
          \/ \A n \in Queued(rt') : rt'.own[n] # "AWARE"]_vars

Conversations(s) == {n \in NPC : s.own[n] = "AI_CONVERSATION"}

\* Starting a conversation ends enough others: afterwards there are no more
\* than max_conversation_agents (and always room for the new one).
StartRespectsConversationCap ==
  [][(\E n \in NPC : /\ rt.own[n] \notin {"AI_CONVERSATION", "SUSPENDED"}
                     /\ rt'.own[n] = "AI_CONVERSATION")
       => Cardinality(Conversations(rt')) <= MaxConversations \/ Cardinality(Conversations(rt')) = 1]_vars

-----------------------------------------------------------------------------
(* What comments in the code say, and the code does not do.                *)

\* "ensureSingleConversation enforces the max_conversation_agents scheduler cap":
\* at no time do more NPCs converse.
ConversationCap == Cardinality(Conversations(rt)) <= MaxConversations

\* "promoteNextDeferred promotes the oldest deferred AWARE NPC when a reasoning
\* slot frees up": at rest no AWARE NPC waits beside a free slot.
NoIdleSlot == CanPromote(rt) => \A n \in Queued(rt) : rt.own[n] # "AWARE"

\* "a bridge disconnect releases all temporary AI ownership back to Rockstar AI":
\* without a bridge every NPC is Rockstar's.
DisconnectReturnsAll == link = "down" => \A n \in NPC : rt.own[n] = "ROCKSTAR"

-----------------------------------------------------------------------------
(* What must happen.                                                       *)

\* A lost bridge gives every NPC back to Rockstar, when nothing fails on the way.
DisconnectReleases ==
  link = "releasing" ~> \A n \in NPC : rt.own[n] = "ROCKSTAR"
=============================================================================
