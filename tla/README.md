# A verification project for the RDR2 living-NPC agent

Rockstar's AI owns every ped of the game. This program takes *temporary* ownership of nearby,
eligible NPCs, lets a language model or a rule engine decide what they say and do, and must give
every one of them back: when the player leaves, when a story mission starts, when the game goes
away. These modules model that hand-over and hand-back, the turn in which an NPC decides and acts, the
link to the game and the timeline that remembers it all; they are checked with TLC on small instances,
and their central invariants are proved with TLAPS for every value of the constants.

## 1. The system

The repository has the same runtime twice, in Go (`runtime-go/internal`, the one shipped) and in
Python (`runtime`, the original), and a C++ plug-in that runs inside the game (`bridge`). The models
follow the Go runtime.

| Component | State it keeps | Operations | What is hard about it | What makes it correct |
|---|---|---|---|---|
| Ownership manager (`state/ownership.go`) | per NPC: a state of eight, and the state before a freeze | scan update, quest dialogue, push-to-talk, conversation end, release, finalize, suspend, resume | any caller in any order; freezes nest with everything else | the body of an NPC is lent step by step; a thaw restores what was frozen |
| Message handlers (`agent/runtime.go`) | scans, agent state, world | world update, ped scan, game event, action result, speech, push-to-talk, story safety | an error half-way leaves what was done | nothing is commanded that is not owned |
| Scheduler (`agent/scheduler.go`) | the deferred queue, the dialogue-only overlay | defer, promote, one conversation, idle thinking, release all, tick | promotions nest in releases and reason at once | caps, first-in first-out, freed slots handed on, quest bodies left to Rockstar |
| Decision execution (`agent/decision.go`) | goal, mood, speech clocks | guardrails, argument repair, speech policy, tool calls | several rules about who may speak | only allowed commands reach the bridge |
| Dispatcher (`agent/dispatcher.go`) | pending requests by id | dispatch, resolve | results that never come, come twice or come unasked | a request is answered once; an idle NPC is found idle |
| Bridge server (`ipc/server.go`) | the current connection | accept, serve, send, detach | a new connection attaches before the old is released | a lost bridge gives every NPC back |
| Bridge transport (`bridge/src/ipc_client.cpp`) | outgoing queue, receive buffer | enqueue, send, reconnect | partial sends, an unbounded queue, a write on both sides | lines arrive whole, once and in order |
| Bridge runtime (`bridge/src/bridge_runtime.cpp`, `action_executor.cpp`, `ped_scanner.cpp`, `story_gate.cpp`) | actions under way | scan, execute, complete | two threads on one list; completion by estimated time | every request gets one result |
| Timeline (`timeline/store.go`) | a file per NPC, cached sequence numbers | append, read, delete | torn lines, two ids in one file, delete beside append | sequence numbers grow by one |
| Eligibility (`state/eligibility.go`) | a blacklist | can-activate, glob matching | three-valued fields, a second gate in the bridge | uncertainty blocks activation |
| Backends (`backend/*.go`) | none | decide | a failure is a reason to decide again | retries end |
| Tools (`tools/*.go`) | none | convert, dispatch | repair, conversion and executor name and default arguments apart | what is sent can be started |
| Lore, world store, normalizer, settings | data | | text | |

How they interact: the bridge sends one JSON line per message over TCP; the server's goroutine for
that connection calls `HandleMessage`, which holds the runtime's mutex to its end, the call of the
backend and the writes of action requests included. A handler moves an NPC through the ownership
manager and passes the transition to `recordTransition`, which appends the timeline event, cleans up
a release and promotes deferred NPCs into the freed slot; these reason in turn, nested in the handling
of a message about another NPC. A handler error ends the connection; the deferred function of the
connection's goroutine then detaches it and calls `ReleaseAll`.

## 2. Modules

| Module | What it is |
|---|---|
| `OwnershipRules` | the pure rules of one NPC: for each manager method the state it moves an NPC to, or `NoMove` for a nil transition; `EventName` |
| `Ownership`, `NpcLease` | the manager, one action per method, called in any order; and the abstract promise to Rockstar it implements: what may be lent after what |
| `AgentRuntime` (with `MCAgentRuntime`) | handlers, scheduler, quest overlay, pending counts, connection and `ReleaseAll`, for several NPCs |
| `NpcTurn` (with `MCNpcTurn`) | one NPC turn by turn: its timeline as the backend sees it, decisions, requests, results |
| `Decisions`, `Actions`, `Eligibility` | the pure parts `NpcTurn` composes: the rule backend, guardrails and speech policy; argument repair, tools and executor; the two gates |
| `BridgeLink` | the bridge's IPC worker, its connections, and the server's goroutines |
| `Selection` | filtering a list in its order, as the loops of the runtime do; `Timeline` and the modules of a turn use it |
| `Timeline` (with `MCTimeline`) | the store's files, its cache of sequence numbers, its readers, and the goal found after a restart |
| `OwnershipProofs`, `AgentRuntimeProofs`, `SchedulerProofs`, `NpcTurnProofs`, `BridgeLinkProofs`, `TimelineProofs`, `EligibilityProofs`, `SelectionProofs` | the theorems, each beside its module |

`NpcTurn` takes the ownership rules from `OwnershipRules`, so one NPC moves there as it does in `AgentRuntime`; what the
other NPCs do to it (a slot free or not, the common speech cooldown, a conversation that ends) is nondeterministic there.
`BridgeLink` shrinks the runtime to whether it owns an NPC, and `AgentRuntime` shrinks the link to up, releasing or down.

### Ownership and NpcLease

`state` and `previous` are `Record.State` and `Record.PreviousState`. Distances become the three
bands the code tells apart. `NpcLease` says what the manager promises in terms of five leases: the
body of an NPC is granted only from watching or from dialogue, a freeze keeps what was lent, a thaw
gives exactly that back, and anything unusable thaws to watching. The refinement mapping is `LeaseOf`
applied to both variables.

### AgentRuntime

`rt` is the `Runtime` together with its manager and dispatcher, as one record: `own` and `prev` (the
manager), `overlay` (`AgentRuntimeState.DialogueOnly`), `deferred` (`deferredOrder`), `pending` (the
number of the dispatcher's requests per NPC). `said`, `acted` and `failed` are observations of the
last step: who spoke, who was moved or gestured, and whether the handler returned an error. `link` and
`swept` are the connection and the position of `ReleaseAll`'s loop.

The code is a call tree with early error returns. Each function is an operator from a runtime to the
*set* of runtimes it may leave, the error returns being members with `failed` set; composing functions
is a union over the intermediate runtimes, and every operator leaves a failed runtime as it is. So
`PedScan` is `ScanPed`, then `IdleThinking`, as in `handlePedScan`, and a release inside `ScanPed`
contains the promotions it triggers, and their reasoning.

| Code | Definition |
|---|---|
| `scheduleReasoning`, `emitWaitGesture`, `executeDecision`, `Dispatch` | `Reason`, `Gestures`, `Deliver` |
| `maybeScheduleIdleThinking`, `Tick` | `IdleThinking`, `Tick` |
| `canPromoteAgent`, `setDeferred`, `removeDeferred`, `popDeferred`, `promoteNextDeferred` | `CanPromote`, `Defer`, `Without`, `PopCounts`, `PromoteNextDeferred` |
| `recordTransition` | `RecordTransition`, `HandOff`, `Move` |
| `makeMeaningful`, `reactToEvent` | `MakeMeaningful`, `React` |
| `ensureSingleConversation` | `EnsureSingleConversation`, `Excess`, `Hush` |
| `handleQuestDialoguePed`, `handlePedScan`, `handleWorldUpdate` | `ScanPed`, `PedScan`, `WorldUpdate` |
| `handleGameEvent`, `handlePlayerSpeech`, `handleActionResult` | `GameEvent`, `ActionResult` |
| `handlePushToTalk`, `handleStorySafety` | `PushToTalkStart`, `PushToTalkStop`, `StorySafety` |
| `handleClient`, `ReleaseAll` | `Connect`, `Disconnect`, `Handle`, `ReleaseNext` |

Decisions about the model:

- A message is one step: the mutex is held throughout. `ReleaseAll` holds it too; it is one step per NPC
  so that what the loop has passed can be spoken of, and no other step happens while it runs.
- The backend is any decision or an error. A decision asks for speech, for a `say` action, or neither, and
  for at most one body action, awaited or transient; all rejections by guardrails, by argument repair or by
  the speech cooldowns are decisions already in the set. All timeline appends of a decision come before its
  first command, so a failed decision has sent the wait gesture at most. The gesture is a soft overlay of the
  body and counts as acting.
- `Reasoning` flags are left out: under the mutex they are false between handlers, and inside one handler the
  NPCs reason one after another, so the reasoning cap in `scheduleReasoning` never bites (`MaxAgents` is at
  least 1, as a zero cap lets nobody reason).
- `lastPedScan`, `ConversationActive` and the alignment scores choose the target of a push-to-talk that
  names none; the model lets any NPC be chosen. Goals, moods, profiles and the world store are left out.
- A scan of several peds is a sequence of scans of one: the loop keeps nothing between peds, and idle thinking
  happens to find nobody due in between. The idle clock is nondeterministic, as is the order of the idle loop.
- `SeenOrder` is the order of first sight, fixed in advance: any other order is the same with names exchanged.
  `Init` is the runtime before the first message. An unseen NPC has a `ROCKSTAR` record, as `record` creates it.
- A request is pending whether or not a bridge is connected to receive it: `Send` without a connection is a
  silent no-op.

Bounds, each named: `MaxPending` (in `Plans`) caps unanswered requests per NPC, `BodyActions` (in `Decisions`) the kinds of body
actions a decision asks for, `Traffic` the kinds of messages of a run; `BackendMayFail`, `AppendMayFail`, `WaitGestures` and `HostTicks` switch what they name.
No other counter grows.

### NpcTurn, Decisions, Actions, Eligibility

`npc` is what the runtime knows of the NPC: ownership state, overlay, goal, the pending requests, whether it waits in the
deferred queue, and its timeline reduced to what a backend looks for in it: how many events ago a threat, a help and a
position were, up to the window, and the newest event. `flight` is the requests on their way or running, by id; `lost`
those a connection took down; `turn` the tools sent for in the last step if it answered a threat.

| Code | Definition |
|---|---|
| `Decide` of the rule backend | `RuleDecisions` and its branches |
| `applyBehaviorGuardrails`, `applySpeechPolicy` | `Guarded`, `Voiced` |
| `stabilizeDecision`, `normalizeAction` | `Kept`, `LostCount`, `Lost`, `Repaired` |
| `Register...Tools`, `Registry.Call`, `DispatchAction` | `Catalog`, `Accepted`, `Forwarded` |
| `dispatch_common`, `ActionExecutor::execute` | `Starts`, `Fail` |
| `executeDecision`, `Dispatch` | `Calls`, `Sent`, `AfterTurn`, `Dispatch` |
| `scheduleReasoning`, `emitWaitGesture` | `ReasonAfter`, `Gestures` |
| `handleGameEvent`, `handlePedScan`, `handleWorldUpdate`, `handlePushToTalk` | `GameEvent`, `PedScan`, `WorldUpdate`, `TalkStart`, `TalkStop` |
| `handleActionResult` | `Report` |
| `onIpcMessage`, `tick` of the bridge | `Start`, `Fail`, `Complete` |
| `CanActivate`, `questDialoguePayload`, `StoryGate::can_activate` | `CanActivate`, `MaySpeakForQuest`, `StoryGate` |

Argument values are kinds: a text, a blank text, a number, a list of three or more numbers, of two, of none, an object. That is
what the readers in Go and C++ tell apart. Moods, emotions and wording are left out. The two speech cooldowns are the
nondeterministic `rested`, an idle clock that may be up is nondeterministic, and so is the silence roll. Results come in any order.
A failed report is one step with its handling: between them nothing else reads it. Story freezes are in `AgentRuntime`.

### BridgeLink

`game` is the bridge's process: the phase of `worker_loop`, the socket, the queue, and the batch `send_queued` swapped
out. `net` is each connection: lines on their way up, messages on their way down, whether it broke, whether the bridge left
it. `phase`, `target` are each goroutine's place in `handleClient`, `current` is `Server.conn`, `lock` the runtime's mutex and
`writer` is `writeMu`. A failed send requeues the line whole or its end; the beginning that was sent ends in a connection
nobody answers on, and a fragment read later is a line that is not JSON. `overlap`, `handled`, and `since` are history.

### Timeline

`files` are lines, each whole or not JSON, each with its newline or not; `lastSeq` is the cache; `fileOf` is `PathFor`, and two
ids that differ in characters it replaces share a file. `draft` is an event numbered by `NextSeq` and not appended yet: the
store's lock is free in between. A failed write leaves nothing or a torn line; a crash leaves a torn line or a whole one nobody
was told of. Every append after a torn line in the same process is joined to it (`Put`), and a process that must
scan a file it cannot read refuses to append (`Refuses`). `held` is the goal the runtime has in memory. Only tests call `Delete`;
it is modelled as it could be called. Counting from the end of a file in chunks is modelled with lines of two and three bytes.

## 3. Runs

| Run | Instance | Shows |
|---|---|---|
| `ownership` | 2 NPCs | `TypeOK`, `SuspendedRemembers`, `LeaseSpec` |
| `runtime_faults` | 2 NPCs, 1 slot, 2 pending requests each, every message, every failure | `TypeOK`, `OverlayCoversQuest`, `CommandsOnlyOwned`, `SuspendedRemembers`, `SweptStayReleased`, `ActivationNeedsAwareness` |
| `runtime_scheduler` | 4 NPCs, 2 slots, 1 conversation, ticks, nothing fails | `QueueSound`, `PromotionRespectsCap`, `FifoPromotion`, `ReleaseFillsSlots`, `StartRespectsConversationCap` |
| `runtime_disconnect` | 2 NPCs, scans, quests, talk, story freezes, ticks, no game events, nothing fails | `ReleaseIsTransient`, and `DisconnectReleases`, a liveness property |
| `timeline` | 2 ids in 1 or 2 files, 2 goals, 3 lines, 1 torn write, window 2, chunk 3 | `TypeOK`, `OwnNumbersIncrease`, `NoGaps`, `LossIsBounded`, `TailIsSuffix`, `PagesJoin`, `RestartKeepsGoal` |
| `bridge_link` | 2 connections, 2 lines, 1 reset, room for 1 each way | `TypeOK`, `NothingLostWhileUp`, `HandledInOrder`, `CurrentIsServed`, `OrphansNeedOverlap`, and the liveness properties `MessagesAreRead`, `GoneCloses` |
| `turn` | a coward and a brave NPC, both backends, 1 or 2 incidents, 3 requests | `TypeOK`, `PendingIsOwed`, `CowardFlees`, `NothingMissingSent`, `RetriesEnd` |
| `conversation_cap` | 2 NPCs, 2 slots | violated: two conversations after a thaw |
| `idle_slot` | 2 NPCs, 1 slot | violated: a free slot beside a deferred NPC after a freeze |
| `release_stops` | 2 NPCs, the backend may fail | violated: `ReleaseAll` stops with an NPC still owned |
| `release_logged` | 2 NPCs | violated: releasing a suspended NPC is not reported as a release |
| `bridge_orphans` | as `bridge_link` | violated: an NPC owned after every bridge has gone |

Why the bounds are enough. The rules are local to an NPC except through the slots, the queue and the
conversation cap. Two NPCs and one slot give the interesting cases of failure: one NPC holds the slot, the
other waits, and a release of the first promotes the second inside the same handler. The order of the queue
and several promotions in one handler (two slots freed by freezes, then a release) need two waiting NPCs
beside two that hold the slots: four NPCs. The scheduler's properties do not read `pending`, `said` or
`acted`; with `MaxPending` 0, no gesture and no body action the decisions that remain are the silent ones, and
what a decision does to ownership states (nothing) is unchanged. A decision dispatches two requests at most,
so `MaxPending` 2 lets an idle NPC do all that a decision can.

Two runs state `VIEW LiveState`: it leaves out the `PreviousState` that a release from `SUSPENDED` leaves
behind in a record. `Resume` reads it of suspended NPCs only and `Suspend` overwrites it, so states that
differ in it alone behave alike, and every property of those runs reads it of suspended NPCs only (`TypeOK`, whose
type it has everywhere, excepted). The liveness run has no view.

`timeline`: `MaxSeq`, `MaxLines` and `MaxTears` bound a history to three lines and a tear. A tear, the line joined to it by the
next append, and a line before or behind them fill a file; a restart may come at any point among them. A tear behind a tear is
beyond this run; the theorems cover it. Chunk 3 and lines of
two and three bytes put chunk edges inside lines and on their ends; window 2 is shorter than a file.

`bridge_link`: the second connection is the one that can overlap the first, and the first to see what it left; a second line is
one behind the requeued one. With room for one line and one message both directions fill, so the standstill is
reachable. The game may exit and start again at any time; `MaxResets` 1 lets the network reset a connection as long as none was reset
or left before.

`turn`: a rule decision logs four events at most, so window 5 does not let a turn push out what it answers; the code has 20, where
`RetriesEnd` says ten retries. Three requests hold a gesture, a line and an action of one turn, and one request each of three turns. The
model's two decisions forget arguments, speak besides a `say` action or leave the line blank, follow the player, and ask for an unsupported tool. An
incident (`MaxIncidents`) is a game event or a lost connection; the rule backend gets two, so that its second meets the first in the
window, a model one. `turn` and `bridge_link` turn deadlock checking off: their
bounds on lines, connections and requests are real ends of a run.

Fairness. In `AgentRuntime` only `WF_vars(ReleaseNext)`: a Go `defer` always runs, and its loop takes no lock that anyone holds
for ever. No message, connection, disconnection or tick is ever owed. A runtime without a bridge can always be connected to. In
`BridgeLink`, weak fairness of the worker's loop and of each connection's goroutine: both are loops of threads that run whenever they
are not blocked. The game, its end and the network owe nothing. Each lock is taken by a step that is enabled when it is free;
no strong fairness is assumed, so a goroutine could starve at a lock for as long as others keep taking it, and with finitely many lines none does for ever.

### What the violated runs say

- `ConversationCap`: the comment on `ensureSingleConversation` says it *enforces* `max_conversation_agents`.
  It does when a conversation starts (`StartRespectsConversationCap`), and a thaw restores one past it.
- `NoIdleSlot`: the comment on `promoteNextDeferred` says it promotes *when a reasoning slot frees up*. It
  does when a release frees it (`ReleaseFillsSlots`); a story freeze and quest dialogue free slots as well. `Tick`
  would fill them, and only tests call `Tick`.
- `DisconnectReturnsAll`: a comment of the server says a disconnect *releases all temporary AI ownership*.
  A release promotes, a promoted NPC reasons, its backend may fail, and `ReleaseAll` returns the error.
- `AllGoneReleased`: the comment above `ReleaseAll` in the server. Only the goroutine of the *current* connection releases. The
  goroutine of an older one may still handle a scan it had read, after that release, and its own end releases nothing.
- `ReleaseIsLogged`: a comment says that a `RELEASE` target *always* reports `NPC_RELEASED`; a suspended
  source comes first.

## 4. Proofs

Every invariant and action property that a passing run checks is also a theorem, for every value of the constants the named assumption of
its module admits: any number of NPCs, slots, connections, lines, any window, any decisions. The assumptions give types and say what the code
takes for granted (`ConfigAssumption`, `LinkAssumption`, `TimelineAssumption`, `TurnAssumption`: a window has at least one line, the
backends are the two there are, a model's decision has the fields and list of actions of `AgentDecision`, whatever it says). `NoneAssumption` says
that `None`, which stands for an absent value, is not a sequence of lines.

**Ownership.** `IInv == TypeOK /\ SuspendedRemembers` is inductive. Every action is one of three shapes: a
lawful move (`LawfulStep`, no move to `SUSPENDED`, an allowed pair of leases), a suspend or a resume
(`StepCases`). `TypeCorrect`, `FrozenRemembers` and `KeepsLease` follow; the last needs
`SuspendedRemembers`, for a thaw from a forgotten state maps to no step of `NpcLease`.

**AgentRuntime.** The inductive invariant is

- `Good(rt)`: the type, the overlay over quest dialogue (frozen too), a usable memory of every freeze, and
  commands only to owned NPCs, each with the overlay it had;
- the types of `link` and `swept`, `swept = 0` outside a release, and `SweptStayReleased`.

The four parts of `Good` need each other: a command is legal because of the overlay, the overlay at a thaw is right
because the freeze remembered the quest, and the memory because of the type. There is one lemma per operator, that from a
good runtime it leaves only good ones and how it may have changed ownership states. `Promotes(s, t)`: nothing
but `AWARE` to `AI_ACTIVE`; `Moved`: promotions and one NPC's move; `Tame`: nobody leaps from
`ROCKSTAR`, `CANDIDATE` or `RELEASE` to a slot. `SweepIsFinal` follows from `Promotes`, since promotion
starts from `AWARE` only; `NoLeapToActive` from `Tame`.

Theorems: `TypeCorrect`, `QuestsAreCovered`, `OwnedBeforeCommanded`, `FrozenRemembers`, `SweepIsFinal`,
`NoLeapToActive`.

**The scheduler** (`SchedulerProofs`). The invariant adds `Neat(rt)`: the queue is without repetition; no queued NPC is where
`QueueSound` forbids it, nor frozen from such a state (a thaw would bring it back there); and nobody is in `RELEASE` when appends
cannot fail. `Fair(rt, rt')` is what a step owes the caps and the queue. A step that activates, releases and starts to converse with nobody
is `Calm` and fair at once; what is left is a trigger into a free slot, the promotion loop (`Popped`), the loop after a hand-off
(`Freed`, then `Popped`), and a conversation. For the loop, `PopCaps` counts: it popped its last entry because a slot was free, so it
ends within the cap, and an unfailed one ends at a full house or an empty queue. Order is carried by `WithoutRemoves`
(removing one entry reorders nothing). `KeptFit` is the counting behind `ensureSingleConversation`: if any conversation is kept, the
first-seen kept one has all the ended ones before it, and there are enough of those.

Theorems: `QueueStaysSound`, `HandOffsComplete`, `PromotionsAreCapped`, `PromotionIsFifo`, `ReleasesFillSlots`, `StartsFitTheCap`.

**Timeline.** `IInv == Shape /\ Numbered(files, lastSeq)`. `Numbered` says that only the last line of a file may lack its newline,
that the numbers of one id rise along it, that a cached number covers every complete line of its id, and (`Tight`) that in a file of
one id the lines run without gaps up to the cached number. The cover is what makes the numbers rise: `nextSeqLocked` trusts the cache, and two ids of one
file, a `Delete` in between or a torn line must not let it fall behind. `LastCovers` and `LastIsExact` do the cached and the scanned number at
once, and `WriteKeeps` is the one lemma about a write, whole, torn or unacknowledged. `NumbersIncrease` and `NumbersAreTight` follow. `TearsCostOneEach` adds a balance: acknowledged
events, plus one if the last line is open, are at most the complete lines plus the tears; the append joined to an open line pays for it.

`ChunksFindTheTail` has no inductive invariant: it is `TailIsTheEnd`, a fact about any lines. The chunk where the reader stops has
more newlines behind it than lines wanted, or is the first; either way the first line it has whole is no later than the
first one wanted. `PagesMakeTheTimeline` needs the numbers to rise: then what is up to a number is a beginning of the file and what is past it
the rest, and `PickedHalves` joins the two filters.

`GoalsSurviveRestarts` needs `GInv`: for an NPC alone in its file, the goal in memory is the one the last legible goal event in the
window tells (`Remembers`), unless the process found a torn line in the window and so appends nothing until a delete. `RestartKeepsGoal` alone
says nothing about a process that wrote before it looked, which is why `MarksFirst` is there: while the state is not created, what
this process tore lies behind the last goal event.

**Selection.** A filter is given in closed form: `Picked` takes at each place the element of that rank, and `RanksAreExact` says positions
and ranks match one to one. The prover cannot apply a library induction rule, so what needs induction is by the least counterexample:
`UpTo` says that a set with 0 and each next number has them all. By it the offsets of lines (`EndOf`, a recursive function over one
list) exist and are numbers.

**NpcTurn.** `BooksBalance`: what is pending is exactly the non-transient requests in flight and the lost ones, which are disjoint. One lemma
per operator that touches `pending` or `flight`; every step of the handlers is a composition of those. The other properties share `TurnInv`, which
holds of the view, of every request on its way (`Fits`) and of the turn just taken (`TurnOK`):

- `NothingMissingSent` for every list of actions a model may write: `Sendable` says of each request that its arguments are those the
  repair, the handler of the tool and the executor agree on, by one case for each tool.
- `CowardFlees`: the guardrail leaves `flee_from` in the list and nothing that approaches, and repair, registry and dispatch neither add
  a tool nor drop that one.
- `RetriesEnd` is not inductive: a request says how many failures in a row are behind it, and nothing in that count bounds it. The strengthening
  relates it to the age of what it answers. Under the rule backend every request has `2 * tries <= threat` and `2 * tries <= helped`,
  where these are the numbers of events logged since the last threat and the last help; each retry logs at least two, and once
  both are out of the window the rule engine answers a failure with nothing (`Answerable`). It holds for every window, the 20 of the code among them. The model's own
  decisions keep no such count, and section 5 says what follows.

**BridgeLink.** `TypeCorrect` with `Connected` (a sending or waiting worker has a connection). `NoDyingSocket` and `OneBridgeOrphansNothing` share
an invariant: the current connection has not begun its release, and without overlap at most one connection is served, it is the current one until it
detaches, and what is owned is owned by it until it releases.

`HandledOnceInOrder`: lines carry the number they were queued under, and `Sorted` says that along their whole way, from the queue to the batch, to
each connection and to what was handled there, numbers only fall. It has to say it of all places at once, since a requeued batch goes back
in front of the queue, and from one connection to the next, since what is requeued is sent on the next one. `Opened` says connections are opened in turn and the worker
has the last, so that nothing can be sent behind a line that is ahead of it. `NothingIsLost` adds `Session`: while nothing broke, a batch exists only
during a send, every line is whole, and each line of this bridge is on a connection of its own, so that a line handled, sent or queued is never counted to a bridge before it.

**Eligibility.** For every snapshot: an unknown flag is refused, so `block_if_uncertain` changes no verdict; what the runtime takes
the bridge takes; and of what the bridge lets through the runtime refuses what its story blacklist lists, nothing else.

**Only model-checked.** `DisconnectReleases`, `MessagesAreRead` and `GoneCloses` are liveness, which the prover does not do under fairness.
The five violated properties are false, and TLC's traces are their evidence. No theorem uses the bounds: `MaxLines`, `MaxTears`, `MaxRequests` and the like are any numbers.

## 5. What else the models show

Not violations of anything written down, but worth a reader's time:

- The comment of the guardrail says *put flee_from first*; when a model lists it later it stays where it is. `CowardFlees` asks for the
  flight and for no approach, not for the order.
- With a language model, a wait gesture that fails is an `ACTION_FAILED`, which is a reason to decide, which gestures first: nothing
  ends that loop. `RetriesEnd` holds for the rule backend, whose retries push what they answer out of the window.
- A lost request keeps its NPC pending, and so out of idle thinking, for good; no timeout resolves it (`PendingIsOwed`, `lost`).
- A `say` action beside a line the cooldown muted is spoken.
- `gesture` sends its kind as `type`, the executor reads `style`; a `go_to` to a named place or an object always fails, since the bridge resolves
  neither. Tools beyond those `normalizeAction` knows are offered to the model and then dropped.
- The bridge filters a scan with its own gate, so an NPC that dies, leaves or turns ineligible is never *reported* so: it drops out of the scans and
  keeps its slot until a world update or a disconnect. A quest NPC owned by a mission never reaches the quest overlay.
- A torn line makes a *running* process lose the next event it acknowledges, and a *new* one refuse every append to that file.
- If both buffers are full, the worker is blocked sending and a goroutine is blocked writing under the runtime's lock, and neither reads (`Stuck`, which
  `MessagesAreRead` and `GoneCloses` except).

## 6. Not modelled

- The Python runtime: the same handlers on threads without a lock; a model of it would have a step per statement, and the Go port is the one shipped.
- The bridge's data race on `pending_`, native calls, keys and audio. `Server.Stop`, listener errors, the splitting of received bytes into lines.
- Glob matching of the blacklist (its verdict is an input), `HasTimeline`, ids `PathFor` rejects, read-only tools (world, timeline, lore).
- Settings, lore, quests' text, prompts, LLM clients, world store, command line, scenario runner, installers: text
  and I/O without state that a property could be about.
