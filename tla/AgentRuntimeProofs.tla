------------------------ MODULE AgentRuntimeProofs --------------------------
(***************************************************************************)
(* Theorems about the agent runtime, for any NPCs, caps and bounds.  A     *)
(* handler is a composition of operators from runtimes to sets of          *)
(* runtimes; one lemma per operator says that it leaves only good runtimes *)
(* and what it may have done to the ownership states.                      *)
(***************************************************************************)
EXTENDS AgentRuntime, SequenceTheorems, TLAPS

USE DEF NoMove, NoState, NoEvent

-----------------------------------------------------------------------------
(* Good runtimes.                                                          *)

Covered(s) == \A n \in NPC : \/ s.own[n] = "QUEST_DIALOGUE"
                             \/ s.own[n] = "SUSPENDED" /\ s.prev[n] = "QUEST_DIALOGUE"
                             => s.overlay[n]

Remembers(s) == \A n \in NPC : s.own[n] = "SUSPENDED" =>
                               s.prev[n] \notin {NoState, "ROCKSTAR", "SUSPENDED"}

Commanded(s) ==
  /\ \A n \in s.acted : ~s.overlay[n] /\ s.own[n] \in {"AWARE"} \cup SlotStates
  /\ \A n \in s.said : CanReason(s.own[n])

Sound(s) == s \in Runtimes /\ Covered(s) /\ Remembers(s)

Good(s) == Sound(s) /\ Commanded(s)

Silent(s) == s.said = {} /\ s.acted = {}

\* From s to t the ownership states of s changed by promotions only.
Promotes(s, t) == \A m \in NPC : \/ t.own[m] = s.own[m]
                                 \/ s.own[m] = "AWARE" /\ t.own[m] = "AI_ACTIVE"

-----------------------------------------------------------------------------
(* Records of the type Runtimes, field by field.                           *)

\* The types of a runtime's fields.
LEMMA Fields ==
  ASSUME NEW s \in Runtimes
  PROVE  /\ s.own \in [NPC -> OwnStates]
         /\ s.prev \in [NPC -> OwnStates \cup {NoState}]
         /\ s.overlay \in [NPC -> BOOLEAN]
         /\ s.deferred \in Seq(NPC)
         /\ s.pending \in [NPC -> 0..MaxPending]
         /\ s.said \in SUBSET NPC
         /\ s.acted \in SUBSET NPC
         /\ s.failed \in BOOLEAN
  BY DEF Runtimes

\* An error changes nothing but the reply.
LEMMA FailGood ==
  ASSUME NEW s, Good(s)
  PROVE  /\ Good(Fail(s)) /\ Promotes(s, Fail(s)) /\ (Silent(s) => Silent(Fail(s)))
         /\ Fail(s).failed /\ Fail(s).own = s.own
  BY DEF Good, Sound, Covered, Remembers, Commanded, Promotes, Silent, Fail, Runtimes

\* An append changes nothing but whether the handler failed (appendEvent).
LEMMA RecordedGood ==
  ASSUME NEW s, Good(s), NEW t \in Recorded(s)
  PROVE  /\ Good(t) /\ Promotes(s, t) /\ (Silent(s) => Silent(t)) /\ t.own = s.own
         /\ ~t.failed => t = s
<1>1. CASE t = s
  BY <1>1 DEF Promotes
<1>2. CASE t = Fail(s)
  BY <1>2, FailGood
<1> QED BY <1>1, <1>2 DEF Recorded

\* NPCs that may reason may execute their decisions.
LEMMA DeliverGood ==
  ASSUME NEW s, Good(s), NEW P \in SUBSET NPC, \A n \in P : CanReason(s.own[n]),
         NEW D \in Plans(s, P)
  PROVE  Good(Deliver(s, P, D)) /\ Promotes(s, Deliver(s, P, D))
         /\ Deliver(s, P, D).own = s.own
<1> DEFINE u == Deliver(s, P, D)
           load(n) == IF n \in P THEN Requests(s, n, D[n]) ELSE 0
<1>1. s \in Runtimes /\ D \in [P -> Decisions]
  BY DEF Good, Sound, Plans
<1>2. /\ u.own = s.own /\ u.prev = s.prev /\ u.overlay = s.overlay
      /\ u.deferred = s.deferred /\ u.failed = s.failed
      /\ u.pending = [n \in NPC |-> s.pending[n] + load(n)]
      /\ u.said = s.said \cup {n \in P : Speaks(s, n, D[n])}
      /\ u.acted = s.acted \cup {n \in P : Acts(s, n, D[n]) \/ Gestures(s, n)}
  BY <1>1 DEF Deliver, Runtimes
<1>3. \A n \in NPC : s.pending[n] + load(n) \in 0..MaxPending
  <2> TAKE n \in NPC
  <2>1. s.pending[n] \in 0..MaxPending
    BY <1>1 DEF Runtimes
  <2>2. CASE n \notin P
    BY <2>1, <2>2, ConfigAssumption
  <2>3. CASE n \in P
    <3>1. s.pending[n] + Requests(s, n, D[n]) <= MaxPending
      BY <2>3 DEF Plans
    <3>2. Requests(s, n, D[n]) \in 0..2
      BY DEF Requests
    <3> QED BY <2>1, <2>3, <3>1, <3>2, ConfigAssumption
  <2> QED BY <2>2, <2>3
<1>4. u \in Runtimes
  <2>1. u.pending \in [NPC -> 0..MaxPending]
    BY <1>2, <1>3
  <2>2. u.said \in SUBSET NPC /\ u.acted \in SUBSET NPC
    BY <1>1, <1>2, Fields
  <2> HIDE DEF load
  <2> QED BY <1>1, <2>1, <2>2 DEF Deliver, Runtimes
<1>5. Covered(u) /\ Remembers(u) /\ Promotes(s, u)
  BY <1>2 DEF Good, Sound, Covered, Remembers, Promotes
<1>6. Commanded(u)
  <2>1. ASSUME NEW n \in P, Acts(s, n, D[n]) \/ Gestures(s, n)
        PROVE  ~s.overlay[n] /\ s.own[n] \in {"AWARE"} \cup SlotStates
    BY <2>1 DEF Acts, Gestures, CanReason, Good, Sound, Covered, SlotStates
  <2> QED BY <1>2, <2>1 DEF Good, Commanded
<1> QED BY <1>2, <1>4, <1>5, <1>6 DEF Good, Sound

\* A turn that fails has sent the wait gesture at most (scheduleReasoning).
LEMMA StallGood ==
  ASSUME NEW s, Good(s), NEW n \in NPC
  PROVE  Good(Stall(s, n)) /\ Promotes(s, Stall(s, n)) /\ Stall(s, n).own = s.own
<1> DEFINE u == [s EXCEPT !.acted = @ \cup {m \in {n} : Gestures(s, m)}]
<1>1. Good(u) /\ u.own = s.own
  BY DEF Good, Sound, Covered, Remembers, Commanded, Runtimes, Gestures
<1> QED BY <1>1, FailGood DEF Stall, Promotes

\* A turn moves nobody, and commands an owned NPC only (scheduleReasoning).
LEMMA ReasonGood ==
  ASSUME NEW s, Good(s), NEW n \in NPC, NEW t \in Reason(s, n)
  PROVE  Good(t) /\ Promotes(s, t) /\ t.own = s.own
<1>1. CASE t = s
  BY <1>1 DEF Promotes
<1>2. CASE CanReason(s.own[n]) /\ t \in {Deliver(s, {n}, D) : D \in Plans(s, {n})}
  BY <1>2, DeliverGood
<1>3. CASE t = Stall(s, n)
  BY <1>3, StallGood
<1> QED BY <1>1, <1>2, <1>3 DEF Reason

\* Idle turns are turns (maybeScheduleIdleThinking).
LEMMA IdleThinkingGood ==
  ASSUME NEW s, Good(s), NEW t \in IdleThinking(s)
  PROVE  Good(t) /\ t.own = s.own
<1>1. CASE t = s
  BY <1>1
<1>2. CASE ~s.failed
  <2>0. PICK P \in SUBSET IdleAgents(s) : \E D \in Plans(s, P) :
          t \in {Deliver(s, P, D)} \cup
               {Stall(Deliver(s, P, D), n) : n \in {m \in IdleAgents(s) \ P : ReasoningMayFail}}
    BY <1>2 DEF IdleThinking
  <2>1. PICK D \in Plans(s, P) :
          t \in {Deliver(s, P, D)} \cup
               {Stall(Deliver(s, P, D), n) : n \in {m \in IdleAgents(s) \ P : ReasoningMayFail}}
    BY <2>0
  <2>2. P \in SUBSET NPC /\ \A n \in P : CanReason(s.own[n])
    BY DEF IdleAgents, CanReason
  <2>3. Good(Deliver(s, P, D)) /\ Promotes(s, Deliver(s, P, D)) /\ Deliver(s, P, D).own = s.own
    BY <2>2, DeliverGood
  <2>4. CASE t = Deliver(s, P, D)
    BY <2>3, <2>4
  <2>5. CASE t \in {Stall(Deliver(s, P, D), n) : n \in IdleAgents(s)}
    <3>1. PICK n \in NPC : t = Stall(Deliver(s, P, D), n)
      BY <2>5 DEF IdleAgents
    <3> QED BY <2>3, <3>1, StallGood
  <2> QED BY <2>1, <2>4, <2>5
<1> QED BY <1>1, <1>2 DEF IdleThinking

-----------------------------------------------------------------------------
(* The scheduler.                                                          *)

\* Deferring queues an NPC and moves nobody (setDeferred).
LEMMA DeferGood ==
  ASSUME NEW s, Good(s), NEW n \in NPC
  PROVE  Good(Defer(s, n)) /\ Promotes(s, Defer(s, n)) /\ Defer(s, n).own = s.own
<1>1. Append(s.deferred, n) \in Seq(NPC)
  BY Fields DEF Good, Sound
<1> QED BY <1>1 DEF Defer, Good, Sound, Covered, Remembers, Commanded, Promotes, Runtimes

\* Removing an entry leaves a queue of NPCs (removeDeferred).
LEMMA WithoutType ==
  ASSUME NEW q \in Seq(NPC), NEW n
  PROVE  Without(q, n) \in Seq(NPC)
<1>1. CASE \E i \in DOMAIN q : q[i] = n
  <2> DEFINE i == CHOOSE i \in DOMAIN q : q[i] = n
  <2>1. i \in 1..Len(q)
    BY <1>1
  <2>2. SubSeq(q, 1, i - 1) \in Seq(NPC) /\ SubSeq(q, i + 1, Len(q)) \in Seq(NPC)
    <3>1. \A m \in 1..Len(q) : q[m] \in NPC
      OBVIOUS
    <3>2. i \in Int /\ Len(q) \in Int /\ 1 \in Int
      BY <2>1
    <3> HIDE DEF i
    <3>3. SubSeq(q, 1, i - 1) \in Seq(NPC)
      <4>1. i - 1 \in Int /\ \A m \in 1..(i - 1) : q[m] \in NPC
        BY <2>1, <3>1, <3>2
      <4> QED BY <4>1, <3>2, SubSeqProperties
    <3>4. SubSeq(q, i + 1, Len(q)) \in Seq(NPC)
      <4>1. i + 1 \in Int /\ \A m \in (i + 1)..Len(q) : q[m] \in NPC
        BY <2>1, <3>1, <3>2
      <4> QED BY <4>1, <3>2, SubSeqProperties
    <3> QED BY <3>3, <3>4
  <2> HIDE DEF i
  <2>3. SubSeq(q, 1, i - 1) \o SubSeq(q, i + 1, Len(q)) \in Seq(NPC)
    BY <2>2
  <2> QED BY <1>1, <2>3 DEF Without, i
<1>2. CASE ~\E i \in DOMAIN q : q[i] = n
  BY <1>2 DEF Without
<1> QED BY <1>1, <1>2

\* Activating queued NPCs promotes AWARE ones and disturbs nothing else.
LEMMA ActivateGood ==
  ASSUME NEW s, Good(s), NEW k \in 0..Len(s.deferred)
  PROVE  /\ Good(Activate(s, k)) /\ Promotes(s, Activate(s, k))
         /\ \A n \in AwareAhead(s, k) : CanReason(Activate(s, k).own[n])
<1> DEFINE u == Activate(s, k)
<1>1. s \in Runtimes /\ s.deferred \in Seq(NPC)
  BY Fields DEF Good, Sound
<1>2. SubSeq(s.deferred, k + 1, Len(s.deferred)) \in Seq(NPC)
  BY <1>1, SubSeqProperties
<1>3. /\ u.own = [n \in NPC |-> IF n \in AwareAhead(s, k) THEN "AI_ACTIVE" ELSE s.own[n]]
      /\ u.prev = s.prev /\ u.overlay = s.overlay /\ u.said = s.said /\ u.acted = s.acted
  BY <1>1 DEF Activate, Runtimes
<1>4. u \in Runtimes
  BY <1>1, <1>2 DEF Activate, Runtimes, OwnStates
<1>5. Promotes(s, u) /\ \A n \in AwareAhead(s, k) : CanReason(u.own[n])
  BY <1>3 DEF Promotes, AwareAhead, CanReason
<1>6. Covered(u) /\ Remembers(u)
  BY <1>3 DEF Good, Sound, Covered, Remembers
<1>7. Commanded(u)
  BY <1>1, <1>3, Fields DEF Good, Commanded, AwareAhead, SlotStates, CanReason
<1> QED BY <1>4, <1>5, <1>6, <1>7 DEF Good, Sound

\* The promotions into a freed slot move AWARE NPCs to AI_ACTIVE only (promoteNextDeferred).
LEMMA PromoteNextDeferredGood ==
  ASSUME NEW s, Good(s), NEW t \in PromoteNextDeferred(s)
  PROVE  Good(t) /\ Promotes(s, t)
<1> DEFINE Outcome(k) == \E P \in SUBSET AwareAhead(s, k) : \E D \in Plans(Activate(s, k), P) :
                           LET u == Deliver(Activate(s, k), P, D)
                           IN  \/ t \in {u, Fail(u)}
                               \/ k # 0 /\ t = Stall(u, s.deferred[k])
<1>1. PICK k \in 0..Len(s.deferred) : Outcome(k)
  <2>1. CASE \E k \in PopCounts(s) : t \in Promoted(s, k)
    <3>1. PICK k \in PopCounts(s) : t \in Promoted(s, k)
      BY <2>1
    <3>2. k \in 0..Len(s.deferred) /\ Outcome(k)
      BY <3>1 DEF PopCounts, Promoted
    <3> QED BY <3>2
  <2>2. CASE \E k \in 1..Len(s.deferred) : t \in PromotionCut(s, k)
    <3>1. PICK k \in 1..Len(s.deferred) : t \in PromotionCut(s, k)
      BY <2>2
    <3>2. Len(s.deferred) \in Nat
      BY Fields DEF Good, Sound
    <3>3. Outcome(k)
      BY <3>1, <3>2 DEF PromotionCut
    <3> QED BY <3>2, <3>3
  <2>3. \/ \E k \in PopCounts(s) : t \in Promoted(s, k)
        \/ \E k \in 1..Len(s.deferred) : t \in PromotionCut(s, k)
    BY DEF PromoteNextDeferred
  <2> HIDE DEF Outcome
  <2> QED BY <2>1, <2>2, <2>3
<1>a. PICK P \in SUBSET AwareAhead(s, k) : \E D \in Plans(Activate(s, k), P) :
        LET u == Deliver(Activate(s, k), P, D)
        IN  \/ t \in {u, Fail(u)}
            \/ k # 0 /\ t = Stall(u, s.deferred[k])
  BY <1>1
<1>2. PICK D \in Plans(Activate(s, k), P) :
        LET u == Deliver(Activate(s, k), P, D)
        IN  \/ t \in {u, Fail(u)}
            \/ k # 0 /\ t = Stall(u, s.deferred[k])
  BY <1>a
<1> DEFINE u == Deliver(Activate(s, k), P, D)
<1>3. Good(Activate(s, k)) /\ Promotes(s, Activate(s, k))
  BY ActivateGood
<1>4. P \in SUBSET NPC /\ \A n \in P : CanReason(Activate(s, k).own[n])
  BY ActivateGood DEF AwareAhead
<1>5. Good(u) /\ u.own = Activate(s, k).own
  BY <1>3, <1>4, DeliverGood
<1>6. CASE t \in {u, Fail(u)}
  BY <1>3, <1>5, <1>6, FailGood DEF Promotes
<1>7. CASE k # 0 /\ t = Stall(u, s.deferred[k])
  <2>1. s.deferred[k] \in NPC
    BY <1>7, Fields DEF Good, Sound
  <2> QED BY <1>3, <1>5, <1>7, <2>1, StallGood DEF Promotes
<1> QED BY <1>2, <1>6, <1>7


-----------------------------------------------------------------------------
(* Transitions.                                                            *)

\* From s to t only n moved, as asked or straight on to Rockstar, apart from
\* promotions elsewhere; if nothing was asked, n did not move.
Moved(s, n, to, t) ==
  /\ \A m \in NPC \ {n} : t.own[m] = s.own[m] \/ (s.own[m] = "AWARE" /\ t.own[m] = "AI_ACTIVE")
  /\ IF s.failed \/ to = NoMove THEN t.own[n] = s.own[n]
     ELSE t.own[n] = to \/ (to = "RELEASE" /\ t.own[n] = "ROCKSTAR")

\* What follows a transition moves the NPC no further than the end of its release (recordTransition).
LEMMA HandOffGood ==
  ASSUME NEW s, Good(s), Silent(s), NEW n \in NPC, NEW to,
         to \in {"RELEASE", "ROCKSTAR"} => s.own[n] = to, NEW t \in HandOff(s, n, to)
  PROVE  /\ Good(t)
         /\ \A m \in NPC \ {n} : t.own[m] = s.own[m] \/ (s.own[m] = "AWARE" /\ t.own[m] = "AI_ACTIVE")
         /\ t.own[n] = s.own[n] \/ (to = "RELEASE" /\ t.own[n] = "ROCKSTAR")
<1> DEFINE c == [s EXCEPT !.deferred = Without(@, n), !.overlay[n] = FALSE]
           d == [c EXCEPT !.own[n] = "ROCKSTAR"]
<1>1. CASE t = s
  BY <1>1
<1>2. s \in Runtimes /\ Without(s.deferred, n) \in Seq(NPC)
  BY WithoutType, Fields DEF Good, Sound
<1>3. /\ c \in Runtimes /\ c.own = s.own /\ c.prev = s.prev /\ c.said = {} /\ c.acted = {}
      /\ c.overlay = [s.overlay EXCEPT ![n] = FALSE]
  BY <1>2 DEF Runtimes, Silent
<1>4. CASE to = "ROCKSTAR" /\ t = c
  <2>1. Good(c)
    BY <1>3, <1>4, Fields, <1>2 DEF Good, Sound, Covered, Remembers, Commanded
  <2> QED BY <1>3, <1>4, <2>1
<1>5. CASE to = "RELEASE" /\ t \in PromoteNextDeferred(d)
  <2>1. /\ d \in Runtimes /\ d.own = [s.own EXCEPT ![n] = "ROCKSTAR"] /\ d.prev = s.prev
        /\ d.said = {} /\ d.acted = {} /\ d.overlay = [s.overlay EXCEPT ![n] = FALSE]
    BY <1>3 DEF Runtimes, OwnStates
  <2> HIDE DEF d
  <2>2. Good(d)
    BY <2>1, <1>2, Fields DEF Good, Sound, Covered, Remembers, Commanded
  <2>3. Good(t) /\ Promotes(d, t)
    BY <2>2, <1>5, PromoteNextDeferredGood
  <2>4. d.own[n] = "ROCKSTAR" /\ \A m \in NPC \ {n} : d.own[m] = s.own[m]
    BY <2>1, <1>2, Fields
  <2> QED BY <1>5, <2>3, <2>4 DEF Promotes
<1> QED BY <1>1, <1>4, <1>5 DEF HandOff

\* A transition and what follows it (a manager method and recordTransition).
LEMMA MoveGood ==
  ASSUME NEW s, Good(s), Silent(s), NEW n \in NPC,
         NEW to \in (OwnStates \ {"SUSPENDED"}) \cup {NoMove},
         to = "QUEST_DIALOGUE" => s.overlay[n],
         NEW t \in Move(s, n, to)
  PROVE  Good(t) /\ Moved(s, n, to, t)
<1> DEFINE u == [s EXCEPT !.own[n] = to]
<1>1. CASE s.failed \/ to = NoMove
  BY <1>1 DEF Move, Moved
<1>2. CASE ~(s.failed \/ to = NoMove)
  <2>1. /\ u.own = [s.own EXCEPT ![n] = to] /\ u \in Runtimes /\ u.prev = s.prev
        /\ u.overlay = s.overlay /\ u.said = {} /\ u.acted = {}
    BY <1>2 DEF Good, Sound, Runtimes, Silent
  <2>2. Good(u) /\ Silent(u)
    BY <1>2, <2>1, Fields DEF Good, Sound, Covered, Remembers, Commanded, Silent
  <2>3. u.own[n] = to /\ \A m \in NPC \ {n} : u.own[m] = s.own[m]
    BY <2>1, Fields DEF Good, Sound
  <2> HIDE DEF u
  <2>4. PICK v \in {u} \cup Recorded(u) : t \in HandOff(v, n, to)
    BY <1>2 DEF Move, RecordTransition, u
  <2>5. Good(v) /\ Silent(v) /\ v.own = u.own
    BY <2>2, <2>4, RecordedGood
  <2>6. /\ Good(t)
        /\ \A m \in NPC \ {n} : t.own[m] = v.own[m] \/ (v.own[m] = "AWARE" /\ t.own[m] = "AI_ACTIVE")
        /\ t.own[n] = v.own[n] \/ (to = "RELEASE" /\ t.own[n] = "ROCKSTAR")
    BY <2>3, <2>4, <2>5, HandOffGood
  <2> QED BY <1>2, <2>3, <2>5, <2>6 DEF Moved
<1> QED BY <1>1, <1>2

\* From s to t no NPC got from Rockstar's or watched to a reasoning slot.
Tame(s, t) == \A m \in NPC : s.own[m] \in {"ROCKSTAR", "CANDIDATE", "RELEASE"}
                             => t.own[m] \notin SlotStates

\* One NPC's move and promotions are tame if that move is.
LEMMA MovedTame ==
  ASSUME NEW s, NEW n \in NPC, NEW to, NEW t, Moved(s, n, to, t),
         s.own[n] \in {"ROCKSTAR", "CANDIDATE", "RELEASE"} => to \notin SlotStates
  PROVE  Tame(s, t)
  BY DEF Moved, Tame, SlotStates

\* Where the manager's methods lead: never to SUSPENDED, and from outside not into a slot.
LEMMA Targets ==
  ASSUME NEW s \in OwnStates, NEW band \in Bands, NEW eligible \in BOOLEAN, NEW trigger \in BOOLEAN
  PROVE  \A to \in {ScanTarget(s, band, eligible, trigger), TalkTarget(s), QuestTarget(s),
                    ReleaseTarget(s)} :
           /\ to \in (OwnStates \ {"SUSPENDED"}) \cup {NoMove}
           /\ s \in {"ROCKSTAR", "CANDIDATE", "RELEASE"} => to \notin SlotStates
           /\ to # QuestTarget(s) => to # "QUEST_DIALOGUE"
<1>1. \A to \in {TalkTarget(s), QuestTarget(s), ReleaseTarget(s)} :
           /\ to \in (OwnStates \ {"SUSPENDED"}) \cup {NoMove}
           /\ s \in {"ROCKSTAR", "CANDIDATE", "RELEASE"} => to \notin SlotStates
           /\ to # QuestTarget(s) => to # "QUEST_DIALOGUE"
  BY DEF TalkTarget, QuestTarget, ReleaseTarget, OwnStates, SlotStates
<1>2. ScanTarget(s, band, eligible, trigger)
        \in {"RELEASE", "CANDIDATE", "ROCKSTAR", "AWARE", NoMove} \cup
           (IF s = "AWARE" THEN {"AI_ACTIVE"} ELSE {})
  BY DEF ScanTarget, ScanReleases, OwnStates, Bands
<1> QED BY <1>1, <1>2 DEF OwnStates, SlotStates


\* Activation, or deferral when the slots are taken (makeMeaningful).
LEMMA MakeMeaningfulGood ==
  ASSUME NEW s, Good(s), Silent(s), NEW n \in NPC, NEW t \in MakeMeaningful(s, n)
  PROVE  Good(t) /\ Tame(s, t)
<1> DEFINE to == ScanTarget("AWARE", "close", TRUE, TRUE)
<1>1. CASE s.own[n] = "AWARE" /\ ~CanPromote(s)
  <2>1. t \in Recorded(Defer(s, n))
    BY <1>1 DEF MakeMeaningful
  <2>2. Good(t) /\ t.own = s.own
    BY <2>1, DeferGood, RecordedGood
  <2> QED BY <2>2 DEF Tame, SlotStates
<1>2. CASE s.own[n] = "AWARE" /\ CanPromote(s)
  <2>1. PICK u \in Move(s, n, to) : t \in Reason(u, n)
    BY <1>2 DEF MakeMeaningful
  <2>2. to \in (OwnStates \ {"SUSPENDED"}) \cup {NoMove} /\ to # "QUEST_DIALOGUE"
    BY DEF ScanTarget, ScanReleases, OwnStates
  <2>3. Good(u) /\ Moved(s, n, to, u)
    BY <2>1, <2>2, MoveGood
  <2>4. Tame(s, u)
    BY <1>2, <2>3, MovedTame
  <2>5. Good(t) /\ t.own = u.own
    BY <2>1, <2>3, ReasonGood
  <2> QED BY <2>4, <2>5 DEF Tame
<1>3. CASE s.own[n] # "AWARE"
  <2>1. t \in Reason(s, n)
    BY <1>3 DEF MakeMeaningful
  <2>2. Good(t) /\ t.own = s.own
    BY <2>1, ReasonGood
  <2> QED BY <2>2 DEF Tame, SlotStates
<1> QED BY <1>1, <1>2, <1>3

-----------------------------------------------------------------------------
(* Conversations and story safety.                                         *)

\* Ended conversations leave their NPCs active (ensureSingleConversation).
LEMMA HushGood ==
  ASSUME NEW s, Good(s), Silent(s), NEW E
  PROVE  Good(Hush(s, E)) /\ Silent(Hush(s, E)) /\ Tame(s, Hush(s, E))
<1> DEFINE u == Hush(s, E)
<1>1. /\ u.own = [m \in NPC |-> IF m \in E /\ HushTarget(s.own[m]) # NoMove
                                THEN HushTarget(s.own[m]) ELSE s.own[m]]
      /\ u.prev = s.prev /\ u.overlay = s.overlay /\ u.said = {} /\ u.acted = {}
  BY DEF Good, Sound, Silent, Hush, Runtimes
<1>2. \A m \in NPC : \/ u.own[m] = s.own[m]
                     \/ s.own[m] = "AI_CONVERSATION" /\ u.own[m] = "AI_ACTIVE"
  BY <1>1 DEF HushTarget
<1>3. u \in Runtimes
  BY DEF Good, Sound, Hush, HushTarget, Runtimes, OwnStates
<1> HIDE DEF u
<1>4. Good(u) /\ Silent(u) /\ Tame(s, u)
  BY <1>1, <1>2, <1>3 DEF Good, Sound, Covered, Remembers, Commanded, Silent, Tame, SlotStates
<1> QED BY <1>4 DEF u

\* A conversation starts once the excess ones have ended (handlePushToTalk).
LEMMA ConverseGood ==
  ASSUME NEW s, Good(s), Silent(s), NEW n \in NPC, NEW bargeIn, NEW t \in Converse(s, n, bargeIn)
  PROVE  Good(t) /\ Tame(s, t)
<1>1. PICK u \in EnsureSingleConversation(s, n) :
        \/ t = u
        \/ t \in Recorded(u)
        \/ t \in Move(u, n, TalkTarget(u.own[n]))
  BY DEF Converse
<1>2. PICK E : u \in {Hush(s, E), Fail(Hush(s, E))}
  BY <1>1 DEF EnsureSingleConversation
<1>3. Good(u) /\ Silent(u) /\ u.own = Hush(s, E).own
  BY <1>2, HushGood, FailGood
<1>4. /\ Tame(s, u)
      /\ \A m \in NPC : s.own[m] \in {"ROCKSTAR", "CANDIDATE", "RELEASE"} => u.own[m] = s.own[m]
  <2>1. \A m \in NPC : s.own[m] \in {"ROCKSTAR", "CANDIDATE", "RELEASE"} => u.own[m] = s.own[m]
    BY <1>3 DEF Good, Sound, Hush, HushTarget, Runtimes
  <2> QED BY <2>1 DEF Tame, SlotStates
<1>5. CASE t = u \/ t \in Recorded(u)
  <2>1. Good(t) /\ t.own = u.own
    BY <1>3, <1>5, RecordedGood
  <2> QED BY <1>4, <2>1 DEF Tame
<1>6. CASE t \in Move(u, n, TalkTarget(u.own[n]))
  <2>1. u.own[n] \in OwnStates
    BY <1>3, Fields DEF Good, Sound
  <2>2. /\ TalkTarget(u.own[n]) \in (OwnStates \ {"SUSPENDED"}) \cup {NoMove}
        /\ TalkTarget(u.own[n]) # "QUEST_DIALOGUE"
        /\ u.own[n] \in {"ROCKSTAR", "CANDIDATE", "RELEASE"} => TalkTarget(u.own[n]) \notin SlotStates
    BY <2>1 DEF TalkTarget, OwnStates, SlotStates
  <2>3. Good(t) /\ Moved(u, n, TalkTarget(u.own[n]), t)
    BY <1>3, <1>6, <2>2, MoveGood
  <2>4. Tame(u, t)
    BY <2>2, <2>3, MovedTame
  <2> QED BY <1>4, <2>3, <2>4 DEF Tame
<1> QED BY <1>1, <1>5, <1>6

\* A freeze remembers each state it freezes (Manager.Suspend).
LEMMA FreezeGood ==
  ASSUME NEW s, Good(s), Silent(s), NEW T
  PROVE  Good(Freeze(s, T)) /\ Tame(s, Freeze(s, T))
<1> DEFINE u == Freeze(s, T)
<1>1. u \in Runtimes /\ u.overlay = s.overlay /\ u.said = {} /\ u.acted = {}
  BY DEF Good, Sound, Silent, Freeze, SuspendTarget, Runtimes, OwnStates
<1>2. \A m \in NPC : \/ u.own[m] = s.own[m] /\ u.prev[m] = s.prev[m]
                     \/ /\ s.own[m] \notin {"ROCKSTAR", "SUSPENDED"}
                        /\ u.own[m] = "SUSPENDED" /\ u.prev[m] = s.own[m]
  BY DEF Good, Sound, Freeze, SuspendTarget, Runtimes
<1>3. \A m \in NPC : s.own[m] \in OwnStates
  BY Fields DEF Good, Sound
<1> HIDE DEF u
<1>4. Good(u) /\ Tame(s, u)
  BY <1>1, <1>2, <1>3 DEF Good, Sound, Covered, Remembers, Commanded, Tame, SlotStates, OwnStates
<1> QED BY <1>4 DEF u

\* A thaw restores states the overlay already covers (Manager.Resume).
LEMMA ThawGood ==
  ASSUME NEW s, Good(s), Silent(s), NEW T
  PROVE  Good(Thaw(s, T)) /\ Tame(s, Thaw(s, T))
<1> DEFINE u == Thaw(s, T)
<1>1. \A m \in NPC : s.own[m] = "SUSPENDED" =>
        ResumeTarget(s.own[m], s.prev[m]) = IF s.prev[m] = "RELEASE" THEN "AWARE" ELSE s.prev[m]
  BY DEF Good, Sound, Remembers, ResumeTarget
<1>2. \A m \in NPC : s.own[m] # "SUSPENDED" => ResumeTarget(s.own[m], s.prev[m]) = NoMove
  BY DEF ResumeTarget
<1>3. /\ u.own = [n \in NPC |-> IF n \in T /\ ResumeTarget(s.own[n], s.prev[n]) # NoMove
                                THEN ResumeTarget(s.own[n], s.prev[n]) ELSE s.own[n]]
      /\ u.prev = [n \in NPC |-> IF n \in T /\ ResumeTarget(s.own[n], s.prev[n]) # NoMove
                                THEN NoState ELSE s.prev[n]]
      /\ u.overlay = s.overlay /\ u.said = {} /\ u.acted = {}
  BY DEF Good, Sound, Silent, Thaw, Runtimes
<1>4. \A m \in NPC : s.own[m] \in OwnStates /\ s.prev[m] \in OwnStates \cup {NoState}
  BY Fields DEF Good, Sound
<1>5. \A m \in NPC : \/ u.own[m] = s.own[m] /\ u.prev[m] = s.prev[m]
                     \/ /\ s.own[m] = "SUSPENDED" /\ u.prev[m] = NoState
                        /\ u.own[m] = IF s.prev[m] = "RELEASE" THEN "AWARE" ELSE s.prev[m]
  BY <1>1, <1>2, <1>3
<1>6. u.own \in [NPC -> OwnStates] /\ u.prev \in [NPC -> OwnStates \cup {NoState}]
  <2>1. \A m \in NPC : u.own[m] \in OwnStates /\ u.prev[m] \in OwnStates \cup {NoState}
    BY <1>4, <1>5 DEF Good, Sound, Remembers, OwnStates
  <2> QED BY <1>3, <2>1
<1>7. u \in Runtimes
  BY <1>6 DEF Good, Sound, Thaw, Runtimes
<1> HIDE DEF u
<1>8. Good(u) /\ Tame(s, u)
  BY <1>3, <1>4, <1>5, <1>7 DEF Good, Sound, Covered, Remembers, Commanded, Tame, SlotStates, OwnStates
<1> QED BY <1>8 DEF u


-----------------------------------------------------------------------------
(* The handlers.                                                           *)

\* One ped of a scan (handleQuestDialoguePed, handlePedScan).
LEMMA ScanPedGood ==
  ASSUME NEW s, Good(s), Silent(s), NEW n \in NPC, NEW band \in Bands,
         NEW eligible \in BOOLEAN, NEW quest \in BOOLEAN,
         NEW t \in ScanPed(s, n, band, eligible, quest)
  PROVE  Good(t) /\ Tame(s, t)
<1> DEFINE q == [s EXCEPT !.overlay[n] = TRUE]
<1>1. /\ q \in Runtimes /\ q.own = s.own /\ q.prev = s.prev /\ q.said = {} /\ q.acted = {}
      /\ q.overlay = [s.overlay EXCEPT ![n] = TRUE]
  BY DEF Good, Sound, Silent, Runtimes
<1>2. s.overlay \in [NPC -> BOOLEAN] /\ s.own[n] \in OwnStates
  BY Fields DEF Good, Sound
<1> HIDE DEF q
<1>3. Good(q) /\ Silent(q) /\ q.overlay[n]
  BY <1>1, <1>2 DEF Good, Sound, Covered, Remembers, Commanded, Silent
<1>4. CASE t = q
  BY <1>1, <1>3, <1>4 DEF Tame, SlotStates
<1>5. CASE \E to \in {ReleaseTarget(s.own[n]), QuestTarget(s.own[n])} : t \in Move(q, n, to)
  <2>1. PICK to \in {ReleaseTarget(s.own[n]), QuestTarget(s.own[n])} : t \in Move(q, n, to)
    BY <1>5
  <2>2. /\ to \in (OwnStates \ {"SUSPENDED"}) \cup {NoMove}
        /\ s.own[n] \in {"ROCKSTAR", "CANDIDATE", "RELEASE"} => to \notin SlotStates
    BY <1>2, <2>1, Targets
  <2>3. Good(t) /\ Moved(q, n, to, t)
    BY <1>3, <2>1, <2>2, MoveGood
  <2>4. Tame(q, t)
    BY <1>1, <2>2, <2>3, MovedTame
  <2> QED BY <1>1, <2>3, <2>4 DEF Tame
<1>6. CASE \E to \in {ReleaseTarget(s.own[n]), ScanTarget(s.own[n], band, eligible, FALSE)} :
             t \in Move(s, n, to)
  <2>1. PICK to \in {ReleaseTarget(s.own[n]), ScanTarget(s.own[n], band, eligible, FALSE)} :
          t \in Move(s, n, to)
    BY <1>6
  <2>2. /\ to \in (OwnStates \ {"SUSPENDED"}) \cup {NoMove}
        /\ s.own[n] \in {"ROCKSTAR", "CANDIDATE", "RELEASE"} => to \notin SlotStates
    <3>1. to \in {"RELEASE", "CANDIDATE", "ROCKSTAR", "AWARE", NoMove}
      BY <2>1 DEF ReleaseTarget, ScanTarget
    <3> QED BY <3>1 DEF OwnStates, SlotStates, NoMove
  <2>3. to # "QUEST_DIALOGUE"
    BY <2>1 DEF ReleaseTarget, ScanTarget
  <2>4. Good(t) /\ Moved(s, n, to, t)
    BY <2>1, <2>2, <2>3, MoveGood
  <2> QED BY <2>2, <2>4, MovedTame
<1> QED BY <1>4, <1>5, <1>6 DEF ScanPed, Bands, q

\* What an event does to the NPC it names (reactToEvent).
LEMMA ReactGood ==
  ASSUME NEW s, Good(s), Silent(s), NEW n \in NPC, NEW kind, NEW t \in React(s, n, kind),
         kind \in {"spoke", "threat", "approach", "failure", "hush", "fact"}
  PROVE  Good(t) /\ Tame(s, t)
<1>1. CASE kind = "spoke"
  <2>1. PICK u \in Converse(s, n, FALSE) : t \in Reason(u, n)
    BY <1>1 DEF React
  <2>2. Good(u) /\ Tame(s, u)
    BY <2>1, ConverseGood
  <2> QED BY <2>1, <2>2, ReasonGood DEF Tame
<1>2. CASE t \in MakeMeaningful(s, n)
  BY <1>2, MakeMeaningfulGood
<1>3. CASE t \in Reason(s, n) \/ t = s
  <2>1. Good(t) /\ t.own = s.own
    BY <1>3, ReasonGood
  <2> QED BY <2>1 DEF Tame, SlotStates
<1>4. CASE t = Hush(s, {n})
  BY <1>4, HushGood
<1>5. kind # "spoke" => \/ t \in MakeMeaningful(s, n) \/ t \in Reason(s, n) \/ t = s
                       \/ t = Hush(s, {n})
  BY DEF React
<1> QED BY <1>1, <1>2, <1>3, <1>4, <1>5

-----------------------------------------------------------------------------
(* The inductive invariant.                                                *)

IInv == /\ Good(rt)
        /\ link \in {"up", "releasing", "down"}
        /\ swept \in 0..(Len(SeenOrder) - 1)
        /\ link # "releasing" => swept = 0
        /\ SweptStayReleased

\* A new runtime owns nobody (NewRuntime).
LEMMA IInvInit == Init => IInv
<1> SUFFICES ASSUME Init
             PROVE  IInv
  OBVIOUS
<1>1. rt \in Runtimes
  BY ConfigAssumption DEF Init, Runtimes, OwnStates
<1>2. Good(rt)
  BY <1>1 DEF Init, Good, Sound, Covered, Remembers, Commanded
<1>3. Len(SeenOrder) \in Nat \ {0}
  BY ConfigAssumption, EmptySeq
<1> QED BY <1>2, <1>3 DEF Init, IInv, SweptStayReleased

\* A handler starts with nothing said, done or failed.
LEMMA FreshGood ==
  ASSUME Good(rt)
  PROVE  /\ Good(Fresh) /\ Silent(Fresh) /\ ~Fresh.failed
         /\ Fresh.own = rt.own /\ Fresh.prev = rt.prev
  BY DEF Good, Sound, Covered, Remembers, Commanded, Silent, Fresh, Runtimes

\* A handler is tame from the state before it if it is from its start.
LEMMA FreshTame ==
  ASSUME Good(rt), NEW t, Tame(Fresh, t)
  PROVE  Tame(rt, t)
  BY FreshGood DEF Tame


\* A message whose handler leaves good runtimes keeps the invariant.
LEMMA HandleGood ==
  ASSUME IInv, NEW kind, NEW S, Handle(kind, S), \A t \in S : Good(t) /\ Tame(Fresh, t)
  PROVE  IInv' /\ Tame(rt, rt')
<1>1. Good(rt') /\ Tame(rt, rt')
  BY FreshTame DEF Handle, IInv
<1>2. link' \in {"up", "releasing"} /\ swept' = 0
  BY DEF Handle, IInv
<1>3. SweptStayReleased'
  BY <1>2 DEF SweptStayReleased
<1>4. (Good(rt))'
  BY <1>1 DEF Good, Sound, Covered, Remembers, Commanded
<1> QED BY <1>1, <1>2, <1>3, <1>4 DEF IInv

\* Every message handler (HandleMessage).
LEMMA MessageStep ==
  ASSUME IInv, Message
  PROVE  IInv' /\ Tame(rt, rt')
<1> USE FreshGood
<1>0. Good(rt)
  BY DEF IInv
<1>1. PICK n \in NPC :
        \/ PedScan(n) \/ WorldUpdate(n) \/ ActionResult(n)
        \/ PushToTalkStart(n) \/ PushToTalkStop(n)
        \/ \E kind \in {"spoke", "threat", "approach", "failure", "hush", "fact"} : GameEvent(n, kind)
  BY DEF Message
<1>2. CASE PedScan(n)
  <2>1. PICK band \in Bands, eligible \in BOOLEAN, quest \in BOOLEAN :
          Handle(IF quest THEN "quest" ELSE "scan",
                 UNION {IdleThinking(t) : t \in ScanPed(Fresh, n, band, eligible, quest)})
    BY <1>2 DEF PedScan
  <2>2. ASSUME NEW t \in ScanPed(Fresh, n, band, eligible, quest), NEW u \in IdleThinking(t)
        PROVE  Good(u) /\ Tame(Fresh, u)
    <3>1. Good(t) /\ Tame(Fresh, t)
      BY <1>0, ScanPedGood
    <3> QED BY <3>1, IdleThinkingGood DEF Tame
  <2> QED BY <2>1, <2>2, HandleGood
<1>3. CASE WorldUpdate(n)
  <2> DEFINE to == ScanTarget(rt.own[n], "far", TRUE, FALSE)
  <2>1. PICK far \in BOOLEAN :
          Handle("world", UNION {IdleThinking(t) : t \in IF far THEN Move(Fresh, n, to) ELSE {Fresh}})
    BY <1>3 DEF WorldUpdate
  <2>2. ASSUME NEW t \in IF far THEN Move(Fresh, n, to) ELSE {Fresh}, NEW u \in IdleThinking(t)
        PROVE  Good(u) /\ Tame(Fresh, u)
    <3>1. CASE t = Fresh
      BY <1>0, <3>1, IdleThinkingGood DEF Tame, SlotStates
    <3>2. CASE t \in Move(Fresh, n, to)
      <4>1. rt.own[n] \in OwnStates
        BY <1>0, Fields DEF Good, Sound
      <4>2. /\ to \in (OwnStates \ {"SUSPENDED"}) \cup {NoMove}
            /\ rt.own[n] \in {"ROCKSTAR", "CANDIDATE", "RELEASE"} => to \notin SlotStates
            /\ to # "QUEST_DIALOGUE"
        BY <4>1 DEF ScanTarget, ScanReleases, OwnStates, SlotStates
      <4> HIDE DEF to
      <4>3. Good(t) /\ Moved(Fresh, n, to, t)
        BY <1>0, <3>2, <4>2, MoveGood
      <4>4. Tame(Fresh, t)
        BY <1>0, <4>2, <4>3, MovedTame
      <4> QED BY <4>3, <4>4, IdleThinkingGood DEF Tame
    <3> QED BY <2>2, <3>1, <3>2
  <2> HIDE DEF to
  <2> DEFINE S == UNION {IdleThinking(t) : t \in IF far THEN Move(Fresh, n, to) ELSE {Fresh}}
  <2>3. \A u \in S : Good(u) /\ Tame(Fresh, u)
    BY <2>2
  <2> HIDE DEF S
  <2>4. Handle("world", S)
    BY <2>1 DEF S
  <2> QED BY <2>3, <2>4, HandleGood
<1>4. CASE ActionResult(n)
  <2>1. PICK known \in BOOLEAN, failure \in BOOLEAN :
          LET r == IF known THEN [Fresh EXCEPT !.pending[n] = @ - 1] ELSE Fresh
          IN  /\ known => rt.pending[n] > 0
              /\ Handle("result", UNION {IF failure THEN Reason(t, n) ELSE {t} : t \in Recorded(r)})
    BY <1>4 DEF ActionResult
  <2> DEFINE r == IF known THEN [Fresh EXCEPT !.pending[n] = @ - 1] ELSE Fresh
  <2>2. Good(r) /\ r.own = Fresh.own
    <3>1. CASE known
      <4>1. rt.pending \in [NPC -> 0..MaxPending] /\ rt.pending[n] > 0 /\ Fresh.pending = rt.pending
        BY <1>0, <2>1, <3>1, Fields DEF Fresh, Good, Sound, Runtimes
      <4>2. [rt.pending EXCEPT ![n] = @ - 1] \in [NPC -> 0..MaxPending]
        BY <4>1, ConfigAssumption
      <4> QED BY <1>0, <3>1, <4>1, <4>2 DEF Good, Sound, Covered, Remembers, Commanded, Runtimes
    <3>2. CASE ~known
      BY <1>0, <3>2
    <3> QED BY <3>1, <3>2
  <2> HIDE DEF r
  <2>3. ASSUME NEW t \in Recorded(r), NEW u \in IF failure THEN Reason(t, n) ELSE {t}
        PROVE  Good(u) /\ Tame(Fresh, u)
    <3>1. Good(t) /\ t.own = Fresh.own
      BY <2>2, RecordedGood
    <3>2. Good(u) /\ u.own = t.own
      BY <2>3, <3>1, ReasonGood
    <3> QED BY <3>1, <3>2 DEF Tame, SlotStates
  <2>4. Handle("result", UNION {IF failure THEN Reason(t, n) ELSE {t} : t \in Recorded(r)})
    BY <2>1 DEF r
  <2> QED BY <2>3, <2>4, HandleGood
<1>5. CASE PushToTalkStart(n)
  BY <1>0, <1>5, ConverseGood, HandleGood DEF PushToTalkStart
<1>6. CASE PushToTalkStop(n)
  <2>1. ASSUME NEW t \in Recorded(Hush(Fresh, {n}))
        PROVE  Good(t) /\ Tame(Fresh, t)
    <3>1. Good(Hush(Fresh, {n})) /\ Tame(Fresh, Hush(Fresh, {n}))
      BY <1>0, HushGood
    <3> QED BY <3>1, RecordedGood DEF Tame
  <2> QED BY <1>6, <2>1, HandleGood DEF PushToTalkStop
<1>7. ASSUME NEW kind \in {"spoke", "threat", "approach", "failure", "hush", "fact"},
             GameEvent(n, kind)
      PROVE  IInv' /\ Tame(rt, rt')
  <2>1. ASSUME NEW t \in Recorded(Fresh), NEW u \in IF t.failed THEN {t} ELSE React(t, n, kind)
        PROVE  Good(u) /\ Tame(Fresh, u)
    <3>1. Good(t) /\ Silent(t) /\ t.own = Fresh.own
      BY <1>0, RecordedGood
    <3>2. CASE u = t
      BY <3>1, <3>2 DEF Tame, SlotStates
    <3>3. CASE u \in React(t, n, kind)
      BY <3>1, <3>3, ReactGood DEF Tame
    <3> QED BY <2>1, <3>2, <3>3
  <2> QED BY <1>7, <2>1, HandleGood DEF GameEvent
<1> QED BY <1>1, <1>2, <1>3, <1>4, <1>5, <1>6, <1>7

\* Story safety freezes and thaws its targets (handleStorySafety).
LEMMA SafetyStep ==
  ASSUME IInv, Safety
  PROVE  IInv' /\ Tame(rt, rt')
<1>0. Good(rt) /\ Good(Fresh) /\ Silent(Fresh)
  BY FreshGood DEF IInv
<1>1. PICK active \in BOOLEAN, T \in {NPC} \cup {{n} : n \in NPC} : StorySafety(T, active)
  BY DEF Safety
<1> DEFINE Turn(U) == IF active THEN Freeze(Fresh, U) ELSE Thaw(Fresh, U)
           S == {Turn(T)} \cup (IF AppendMayFail
                  THEN {Fail(Turn(UpTo(T, m))) : m \in {n \in T : Turn(UpTo(T, n)).own[n] # rt.own[n]}}
                  ELSE {})
<1>2. Handle("safety", S)
  BY <1>1 DEF StorySafety
<1>3. ASSUME NEW U
      PROVE  Good(Turn(U)) /\ Tame(Fresh, Turn(U))
  BY <1>0, FreezeGood, ThawGood
<1> HIDE DEF Turn
<1>4. ASSUME NEW t \in S
      PROVE  Good(t) /\ Tame(Fresh, t)
  <2>1. PICK U : t = Turn(U) \/ t = Fail(Turn(U))
    BY <1>4
  <2>2. Good(Turn(U)) /\ Tame(Fresh, Turn(U))
    BY <1>3
  <2> QED BY <2>1, <2>2, FailGood DEF Tame
<1> HIDE DEF S
<1> QED BY <1>2, <1>4, HandleGood


\* The bridge comes and goes: nothing happens to the runtime.
LEMMA LinkStep ==
  ASSUME IInv, Connect \/ Disconnect
  PROVE  IInv' /\ Tame(rt, rt')
<1>1. Good(Fresh) /\ Fresh.own = rt.own
  BY FreshGood DEF IInv
<1>2. Good(rt') /\ rt' = Fresh /\ link' \in {"up", "releasing"} /\ swept' = 0
  BY <1>1 DEF Connect, Disconnect, IInv
<1>3. SweptStayReleased'
  BY <1>2 DEF SweptStayReleased
<1>4. (Good(rt))'
  BY <1>2 DEF Good, Sound, Covered, Remembers, Commanded
<1> QED BY <1>1, <1>2, <1>3, <1>4 DEF IInv, Tame, SlotStates

\* One more NPC is released; the promotions that follow touch no released one.
LEMMA ReleaseNextStep ==
  ASSUME IInv, ReleaseNext
  PROVE  IInv' /\ Tame(rt, rt')
<1> DEFINE n == SeenOrder[swept + 1]
<1>1. /\ Good(rt) /\ Good(Fresh) /\ Silent(Fresh) /\ ~Fresh.failed /\ Fresh.own = rt.own
      /\ link = "releasing" /\ swept \in 0..(Len(SeenOrder) - 1)
      /\ \A i \in 1..swept : rt.own[SeenOrder[i]] \in {"ROCKSTAR", "RELEASE"}
  BY FreshGood DEF IInv, ReleaseNext, SweptStayReleased
<1>2. SeenOrder \in Seq(NPC) /\ \A i \in 1..Len(SeenOrder) : SeenOrder[i] \in NPC
  BY ConfigAssumption
<1>3. n \in NPC /\ rt.own[n] \in OwnStates
  BY <1>1, <1>2, Fields DEF Good, Sound
<1> HIDE DEF n
<1>4. /\ Good(rt') /\ Tame(rt, rt')
      /\ rt'.own[n] \in {"ROCKSTAR", "RELEASE"}
      /\ \A m \in NPC : rt.own[m] \in {"ROCKSTAR", "RELEASE"} => rt'.own[m] \in {"ROCKSTAR", "RELEASE"}
  <2>1. CASE rt.own[n] \in {"ROCKSTAR", "RELEASE"}
    <3>1. rt' = Fresh
      BY <2>1 DEF ReleaseNext, n
    <3> QED BY <1>1, <2>1, <3>1 DEF Tame, SlotStates
  <2>2. CASE rt.own[n] \notin {"ROCKSTAR", "RELEASE"}
    <3>1. rt' \in Move(Fresh, n, ReleaseTarget(rt.own[n])) /\ ReleaseTarget(rt.own[n]) = "RELEASE"
      BY <2>2 DEF ReleaseNext, ReleaseTarget, n
    <3>2. Good(rt') /\ Moved(Fresh, n, "RELEASE", rt')
      BY <1>1, <1>3, <3>1, MoveGood DEF OwnStates
    <3>3. Tame(Fresh, rt')
      BY <1>3, <3>2, MovedTame DEF SlotStates
    <3> QED BY <1>1, <3>2, <3>3, FreshTame DEF Moved
  <2> QED BY <2>1, <2>2
<1>5. \/ link' = "down" /\ swept' = 0
      \/ link' = "releasing" /\ swept' = swept + 1 /\ swept' # Len(SeenOrder)
  BY <1>1 DEF ReleaseNext
<1>6. link' \in {"releasing", "down"} /\ swept' \in 0..(Len(SeenOrder) - 1)
      /\ (link' # "releasing" => swept' = 0)
  BY <1>1, <1>2, <1>5
<1>7. SweptStayReleased'
  <2> SUFFICES ASSUME link' = "releasing", NEW i \in 1..swept'
               PROVE  rt'.own[SeenOrder[i]] \in {"ROCKSTAR", "RELEASE"}
    BY DEF SweptStayReleased
  <2>1. swept' = swept + 1 /\ i \in 1..(swept + 1)
    BY <1>5
  <2>2. CASE i = swept + 1
    BY <1>4, <2>2 DEF n
  <2>3. CASE i \in 1..swept
    <3>1. SeenOrder[i] \in NPC
      BY <1>1, <1>2, <2>3
    <3> QED BY <1>1, <1>4, <2>3, <3>1
  <2> QED BY <1>1, <2>1, <2>2, <2>3
<1>8. (Good(rt))'
  BY <1>4 DEF Good, Sound, Covered, Remembers, Commanded
<1> QED BY <1>4, <1>6, <1>7, <1>8 DEF IInv

\* The host's tick: idle thinking, then promotions (Tick).
LEMMA TickStep ==
  ASSUME IInv, Tick
  PROVE  IInv' /\ Tame(rt, rt')
<1>1. PICK t \in IdleThinking(Fresh) : \E u \in PromoteNextDeferred(Unfailed(t)) : rt' = Unfailed(u)
  BY DEF Tick
<1>2. PICK u \in PromoteNextDeferred(Unfailed(t)) : rt' = Unfailed(u)
  BY <1>1
<1>3. ASSUME NEW s, Good(s)
      PROVE  Good(Unfailed(s)) /\ Unfailed(s).own = s.own
  BY <1>3 DEF Unfailed, Good, Sound, Covered, Remembers, Commanded, Runtimes
<1>4. Good(t) /\ t.own = rt.own
  BY FreshGood, IdleThinkingGood DEF IInv
<1>5. Good(u) /\ Promotes(Unfailed(t), u)
  BY <1>3, <1>4, PromoteNextDeferredGood
<1>6. Good(rt') /\ Tame(rt, rt')
  BY <1>2, <1>3, <1>4, <1>5 DEF Tame, Promotes, SlotStates
<1>7. (Good(rt))'
  BY <1>6 DEF Good, Sound, Covered, Remembers, Commanded
<1>8. SweptStayReleased' /\ link' = link /\ swept' = swept
  BY DEF Tick, SweptStayReleased
<1> QED BY <1>6, <1>7, <1>8 DEF IInv

\* Every step of the runtime.
LEMMA IInvStep ==
  ASSUME IInv, [Next]_vars
  PROVE  IInv' /\ (Next => Tame(rt, rt'))
<1>1. CASE UNCHANGED vars
  <2>1. rt' = rt /\ link' = link /\ swept' = swept
    BY <1>1 DEF vars
  <2>2. (Good(rt))' /\ SweptStayReleased'
    BY <2>1 DEF IInv, Good, Sound, Covered, Remembers, Commanded, SweptStayReleased
  <2> QED BY <2>1, <2>2 DEF IInv, Tame, SlotStates
<1>2. CASE Message
  BY <1>2, MessageStep
<1>3. CASE Safety
  BY <1>3, SafetyStep
<1>4. CASE Connect \/ Disconnect
  BY <1>4, LinkStep
<1>5. CASE ReleaseNext
  BY <1>5, ReleaseNextStep
<1>6. CASE Tick
  BY <1>6, TickStep
<1> QED BY <1>1, <1>2, <1>3, <1>4, <1>5, <1>6 DEF Next

\* The invariant holds in every reachable state.
LEMMA Invariance == Spec => []IInv
<1>1. IInv /\ [Next]_vars => IInv'
  BY IInvStep
<1> QED BY IInvInit, <1>1, PTL DEF Spec

-----------------------------------------------------------------------------
(* The theorems.                                                           *)

\* The runtime's records, queue and counters keep their types, and its pending
\* counts their bound.
THEOREM TypeCorrect == Spec => []TypeOK
<1>1. IInv => TypeOK
  BY ConfigAssumption DEF IInv, Good, Sound, TypeOK
<1> QED BY Invariance, <1>1, PTL

\* A quest NPC is never without its dialogue-only overlay.
THEOREM QuestsAreCovered == Spec => []OverlayCoversQuest
<1>1. IInv => OverlayCoversQuest
  BY DEF IInv, Good, Sound, Covered, OverlayCoversQuest
<1> QED BY Invariance, <1>1, PTL

\* No handler, promotion, idle turn or release ever commands an NPC the runtime
\* does not own, whatever fails on the way.
THEOREM OwnedBeforeCommanded == Spec => []CommandsOnlyOwned
<1>1. IInv => CommandsOnlyOwned
  BY DEF IInv, Good, Commanded, CommandsOnlyOwned
<1> QED BY Invariance, <1>1, PTL

\* Every frozen NPC has a state to thaw to.
THEOREM FrozenRemembers == Spec => []SuspendedRemembers
<1>1. IInv => SuspendedRemembers
  BY DEF IInv, Good, Sound, Remembers, SuspendedRemembers
<1> QED BY Invariance, <1>1, PTL

\* ReleaseAll's promotions never take back what it released.
THEOREM SweepIsFinal == Spec => []SweptStayReleased
<1>1. IInv => SweptStayReleased
  BY DEF IInv
<1> QED BY Invariance, <1>1, PTL

\* No message, tick or release takes an NPC from Rockstar or from merely watched
\* straight to a reasoning slot.
THEOREM NoLeapToActive == Spec => ActivationNeedsAwareness
<1>1. IInv /\ [Next]_vars =>
        [\A n \in NPC : rt.own[n] \in {"ROCKSTAR", "CANDIDATE", "RELEASE"}
                         => rt'.own[n] \notin SlotStates]_vars
  <2> SUFFICES ASSUME IInv, Next
               PROVE  \A n \in NPC : rt.own[n] \in {"ROCKSTAR", "CANDIDATE", "RELEASE"}
                                       => rt'.own[n] \notin SlotStates
    OBVIOUS
  <2>1. Tame(rt, rt')
    BY IInvStep
  <2> QED BY <2>1 DEF Tame
<1> QED BY Invariance, <1>1, PTL DEF Spec, ActivationNeedsAwareness

=============================================================================
