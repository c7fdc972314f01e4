-------------------------- MODULE SchedulerProofs ---------------------------
(***************************************************************************)
(* Theorems about the scheduler, for any NPCs, caps and bounds: what the   *)
(* deferred queue holds, who is promoted off it, and what a release and a  *)
(* new conversation leave behind.  A step of the runtime has one of five   *)
(* shapes as far as the scheduler is concerned (see Shape); each operator  *)
(* gets a lemma that says which, and each property follows from the shape. *)
(***************************************************************************)
EXTENDS AgentRuntimeProofs, FiniteSetTheorems

USE DEF NoMove, NoState, NoEvent

-----------------------------------------------------------------------------
(* Queues.                                                                 *)

Entries(q) == {q[i] : i \in DOMAIN q}

Distinct(q) == \A i, j \in DOMAIN q : q[i] = q[j] => i = j

\* Two entries of q that are still in w stand in the same order.
Ordered(q, w) ==
  \A i, j \in DOMAIN q : i < j /\ q[i] \in Entries(w) /\ q[j] \in Entries(w) =>
    \E k, l \in DOMAIN w : k < l /\ w[k] = q[i] /\ w[l] = q[j]

\* An NPC is queued at the end, once (setDeferred).
LEMMA AppendDistinct ==
  ASSUME NEW q \in Seq(NPC), Distinct(q), NEW n \in NPC \ Entries(q)
  PROVE  Distinct(Append(q, n)) /\ Entries(Append(q, n)) = Entries(q) \cup {n}
<1> DEFINE w == Append(q, n)
<1>1. Len(q) \in Nat /\ DOMAIN q = 1..Len(q)
  OBVIOUS
<1>2. /\ w \in Seq(NPC) /\ Len(w) = Len(q) + 1 /\ DOMAIN w = 1..(Len(q) + 1)
      /\ w[Len(q) + 1] = n /\ \A i \in 1..Len(q) : w[i] = q[i]
  OBVIOUS
<1> HIDE DEF w
<1>3. Distinct(w)
  BY <1>1, <1>2 DEF Distinct, Entries
<1>4. Entries(w) = Entries(q) \cup {n}
  BY <1>1, <1>2 DEF Entries
<1> QED BY <1>3, <1>4 DEF w

\* Popping the front keeps the rest, in order (promoteNextDeferred).
LEMMA PopKeeps ==
  ASSUME NEW q \in Seq(NPC), NEW k \in 0..Len(q)
  PROVE  LET w == SubSeq(q, k + 1, Len(q))
         IN  /\ w \in Seq(NPC) /\ Len(w) = Len(q) - k
             /\ \A i \in 1..(Len(q) - k) : w[i] = q[k + i]
             /\ Entries(w) \subseteq Entries(q)
             /\ Distinct(q) => Distinct(w)
<1> DEFINE w == SubSeq(q, k + 1, Len(q))
<1>1. Len(q) \in Nat /\ DOMAIN q = 1..Len(q) /\ \A i \in 1..Len(q) : q[i] \in NPC
  OBVIOUS
<1>2. w \in Seq(NPC) /\ Len(w) = Len(q) - k /\ \A i \in 1..(Len(q) - k) : w[i] = q[k + i]
  <2>1. k + 1 \in Int /\ Len(q) \in Int /\ \A i \in (k + 1)..Len(q) : q[i] \in NPC
    BY <1>1
  <2>2. /\ w \in Seq(NPC)
        /\ Len(w) = IF k + 1 <= Len(q) THEN Len(q) - (k + 1) + 1 ELSE 0
        /\ \A i \in 1..(Len(q) - (k + 1) + 1) : w[i] = q[(k + 1) + i - 1]
    BY <2>1, SubSeqProperties
  <2> HIDE DEF w
  <2>3. Len(w) = Len(q) - k
    <3>1. k \in Int /\ Len(q) \in Int /\ 0 <= k /\ k <= Len(q)
      BY <1>1
    <3>2. CASE k < Len(q)
      <4>1. k + 1 <= Len(q) /\ Len(q) - (k + 1) + 1 = Len(q) - k
        BY <3>1, <3>2
      <4> QED BY <2>2, <4>1
    <3>3. CASE k = Len(q)
      <4>1. ~(k + 1 <= Len(q)) /\ Len(q) - k = 0
        BY <3>1, <3>3
      <4> QED BY <2>2, <4>1
    <3> QED BY <3>1, <3>2, <3>3
  <2>4. ASSUME NEW i \in 1..(Len(q) - k)
        PROVE  w[i] = q[k + i]
    <3>1. i \in 1..(Len(q) - (k + 1) + 1) /\ (k + 1) + i - 1 = k + i
      BY <1>1
    <3> QED BY <2>2, <3>1
  <2> QED BY <2>2, <2>3, <2>4
<1> HIDE DEF w
<1>3. DOMAIN w = 1..(Len(q) - k)
  BY <1>2
<1>4. Entries(w) \subseteq Entries(q)
  <2>1. \A i \in 1..(Len(q) - k) : k + i \in 1..Len(q)
    BY <1>1
  <2> QED BY <1>1, <1>2, <1>3, <2>1 DEF Entries
<1>5. ASSUME Distinct(q)
      PROVE  Distinct(w)
  <2> SUFFICES ASSUME NEW i \in 1..(Len(q) - k), NEW j \in 1..(Len(q) - k), w[i] = w[j]
               PROVE  i = j
    BY <1>3 DEF Distinct
  <2>1. k + i \in DOMAIN q /\ k + j \in DOMAIN q /\ q[k + i] = q[k + j]
    BY <1>1, <1>2
  <2>2. k + i = k + j
    BY <1>5, <2>1 DEF Distinct
  <2> QED BY <1>1, <2>2
<1> QED BY <1>2, <1>4, <1>5 DEF w

\* Removing an NPC removes it, and nobody and no order else (removeDeferred).
LEMMA WithoutRemoves ==
  ASSUME NEW q \in Seq(NPC), Distinct(q), NEW n
  PROVE  LET w == Without(q, n)
         IN  /\ w \in Seq(NPC) /\ Distinct(w)
             /\ Entries(w) = Entries(q) \ {n}
             /\ Ordered(q, w)
<1> DEFINE w == Without(q, n)
<1>1. Len(q) \in Nat /\ DOMAIN q = 1..Len(q) /\ \A i \in 1..Len(q) : q[i] \in NPC
  OBVIOUS
<1>2. CASE n \notin Entries(q)
  <2>1. w = q
    BY <1>2 DEF Without, Entries
  <2> HIDE DEF w
  <2> QED BY <1>2, <2>1 DEF Entries, Ordered, w
<1>3. CASE n \in Entries(q)
  <2> DEFINE i == CHOOSE i \in DOMAIN q : q[i] = n
             a == SubSeq(q, 1, i - 1)
             b == SubSeq(q, i + 1, Len(q))
  <2>1. i \in 1..Len(q) /\ q[i] = n
    BY <1>1, <1>3 DEF Entries
  <2>2. w = a \o b
    BY <1>3 DEF Without, Entries
  <2> HIDE DEF i
  <2>3. a \in Seq(NPC) /\ Len(a) = i - 1 /\ \A m \in 1..(i - 1) : a[m] = q[m]
    <3>1. 1 \in Int /\ i - 1 \in Int /\ \A m \in 1..(i - 1) : q[m] \in NPC
      BY <1>1, <2>1
    <3>2. /\ a \in Seq(NPC)
          /\ Len(a) = IF 1 <= i - 1 THEN (i - 1) - 1 + 1 ELSE 0
          /\ \A m \in 1..((i - 1) - 1 + 1) : a[m] = q[1 + m - 1]
      BY <3>1, SubSeqProperties
    <3> HIDE DEF a
    <3> QED BY <2>1, <3>2
  <2>4. b \in Seq(NPC) /\ Len(b) = Len(q) - i /\ \A m \in 1..(Len(q) - i) : b[m] = q[i + m]
    BY <2>1, PopKeeps
  <2> HIDE DEF a, b
  <2>5. /\ w \in Seq(NPC) /\ Len(w) = Len(q) - 1
        /\ \A m \in 1..(Len(q) - 1) : w[m] = IF m < i THEN q[m] ELSE q[m + 1]
    <3>1. /\ a \o b \in Seq(NPC) /\ Len(a \o b) = Len(a) + Len(b)
          /\ \A m \in 1..(Len(a) + Len(b)) :
               (a \o b)[m] = IF m <= Len(a) THEN a[m] ELSE b[m - Len(a)]
      BY <2>3, <2>4, ConcatProperties
    <3> HIDE DEF w
    <3> QED BY <1>1, <2>1, <2>2, <2>3, <2>4, <3>1
  <2> HIDE DEF w
  <2>6. DOMAIN w = 1..(Len(q) - 1)
    BY <2>5
  <2>7. Distinct(w)
    BY <1>1, <2>1, <2>5, <2>6 DEF Distinct
  <2>8. ASSUME NEW j \in 1..Len(q), j # i
        PROVE  LET p == IF j < i THEN j ELSE j - 1
               IN  p \in DOMAIN w /\ w[p] = q[j]
    BY <1>1, <2>1, <2>5, <2>6, <2>8
  <2>9. Entries(w) = Entries(q) \ {n}
    <3>1. Entries(w) \subseteq Entries(q) \ {n}
      BY <1>1, <2>1, <2>5, <2>6 DEF Entries, Distinct
    <3>2. ASSUME NEW x \in Entries(q) \ {n}
          PROVE  x \in Entries(w)
      <4>1. PICK j \in 1..Len(q) : q[j] = x
        BY <1>1 DEF Entries
      <4> QED BY <2>1, <2>8, <4>1 DEF Entries
    <3> QED BY <3>1, <3>2
  <2>10. Ordered(q, w)
    <3> SUFFICES ASSUME NEW j \in 1..Len(q), NEW l \in 1..Len(q), j < l,
                        q[j] \in Entries(w), q[l] \in Entries(w)
                 PROVE  \E k, m \in DOMAIN w : k < m /\ w[k] = q[j] /\ w[m] = q[l]
      BY <1>1 DEF Ordered
    <3>1. j # i /\ l # i
      BY <2>1, <2>9
    <3> DEFINE J == IF j < i THEN j ELSE j - 1
               L == IF l < i THEN l ELSE l - 1
    <3>2. J \in DOMAIN w /\ L \in DOMAIN w /\ w[J] = q[j] /\ w[L] = q[l]
      BY <2>8, <3>1
    <3>3. J < L
      BY <2>1, <3>1
    <3> QED BY <3>2, <3>3
  <2> QED BY <2>5, <2>7, <2>9, <2>10 DEF w
<1> QED BY <1>2, <1>3

-----------------------------------------------------------------------------
(* What the scheduler sees of a runtime, and what a step may do to it.     *)

Same(s, t) == t.own = s.own /\ t.prev = s.prev /\ t.deferred = s.deferred

\* Where no queued NPC may be.
Gone == {"ROCKSTAR"} \cup (IF AppendMayFail THEN {} ELSE {"CANDIDATE", "RELEASE"})

\* The queue is sound, also for the NPCs a story freeze holds, and nobody is left
\* half-way through a hand-off.
Neat(s) ==
  /\ Distinct(s.deferred)
  /\ \A n \in Entries(s.deferred) : /\ s.own[n] \notin Gone
                                    /\ s.own[n] = "SUSPENDED" => s.prev[n] \notin Gone
  /\ AppendMayFail \/ \A n \in NPC : s.own[n] # "RELEASE"

Capped(s, t) == (\E n \in NPC : s.own[n] = "AWARE" /\ t.own[n] = "AI_ACTIVE")
                => Cardinality(Active(t)) <= MaxAgents

InOrder(s, t) ==
  \A i, j \in DOMAIN s.deferred :
    /\ i < j
    /\ s.own[s.deferred[j]] = "AWARE" /\ t.own[s.deferred[j]] = "AI_ACTIVE"
    /\ s.deferred[j] \notin Entries(t.deferred)
    => s.deferred[i] \notin Entries(t.deferred)

Filled(s, t) == (/\ \E n \in NPC : s.own[n] \in {"AWARE"} \cup SlotStates /\ t.own[n] = "ROCKSTAR"
                 /\ ~t.failed)
                => ~CanPromote(t) \/ \A n \in Entries(t.deferred) : t.own[n] # "AWARE"

Starts(s, t) == \E n \in NPC : /\ s.own[n] \notin {"AI_CONVERSATION", "SUSPENDED"}
                               /\ t.own[n] = "AI_CONVERSATION"

Roomy(s, t) == Starts(s, t) => \/ Cardinality(Conversations(t)) <= MaxConversations
                               \/ Cardinality(Conversations(t)) = 1

Fair(s, t) == Capped(s, t) /\ InOrder(s, t) /\ Filled(s, t) /\ Roomy(s, t)

\* From s to t nobody is activated, released or begins to converse.
Calm(s, t) == \A n \in NPC : /\ ~(s.own[n] = "AWARE" /\ t.own[n] = "AI_ACTIVE")
                             /\ ~(s.own[n] \in {"AWARE"} \cup SlotStates /\ t.own[n] = "ROCKSTAR")
                             /\ ~(/\ s.own[n] \notin {"AI_CONVERSATION", "SUSPENDED"}
                                  /\ t.own[n] = "AI_CONVERSATION")

\* A calm step is fair.
LEMMA CalmFair ==
  ASSUME NEW s \in Runtimes, NEW t, Calm(s, t)
  PROVE  Fair(s, t)
<1>1. \A j \in DOMAIN s.deferred : s.deferred[j] \in NPC
  BY Fields
<1> QED BY <1>1 DEF Calm, Fair, Capped, InOrder, Filled, Roomy, Starts

\* Turns before and after a fair step leave it fair, if they do not hide its failure.
LEMMA FairBetween ==
  ASSUME NEW r, NEW s, NEW t, NEW u, Same(r, s), Fair(s, t), Same(t, u), ~u.failed => ~t.failed
  PROVE  Fair(r, u)
<1>1. /\ s.own = r.own /\ s.deferred = r.deferred /\ u.own = t.own /\ u.deferred = t.deferred
      /\ Active(u) = Active(t) /\ Conversations(u) = Conversations(t)
  BY DEF Same, Active, Conversations
<1> QED BY <1>1 DEF Fair, Capped, InOrder, Filled, Roomy, Starts, CanPromote

\* They leave the queue as it was, too.
LEMMA SameNeat ==
  ASSUME NEW s, NEW t, Same(s, t), Neat(s)
  PROVE  Neat(t)
  BY DEF Same, Neat

\* The states an NPC may move to whether it is queued or not.
LEMMA ChangeNeat ==
  ASSUME NEW s \in Runtimes, NEW t, Neat(s), t.deferred = s.deferred,
         \A m \in NPC :
           \/ t.own[m] = s.own[m] /\ t.prev[m] = s.prev[m]
           \/ t.own[m] \notin Gone \cup {"RELEASE", "SUSPENDED"}
           \/ t.own[m] = "SUSPENDED" /\ t.prev[m] = s.own[m]
           \/ t.own[m] # "RELEASE" /\ m \notin Entries(s.deferred)
           \/ t.own[m] = "RELEASE" /\ AppendMayFail
  PROVE  Neat(t)
<1>1. Entries(s.deferred) \subseteq NPC
  BY Fields DEF Entries
<1>2. \A m \in Entries(t.deferred) : /\ t.own[m] \notin Gone
                                     /\ t.own[m] = "SUSPENDED" => t.prev[m] \notin Gone
  BY <1>1 DEF Neat, Gone
<1>3. AppendMayFail \/ \A m \in NPC : t.own[m] # "RELEASE"
  BY DEF Neat
<1> QED BY <1>2, <1>3 DEF Neat

\* An error leaves the queue and the states alone.
LEMMA FailSame ==
  ASSUME NEW s \in Runtimes
  PROVE  Same(s, Fail(s)) /\ Fail(s) \in Runtimes /\ Fail(s).failed
  BY DEF Same, Fail, Runtimes

\* So does an append, which fails only if appends may (appendEvent).
LEMMA RecordedSame ==
  ASSUME NEW s \in Runtimes, NEW t \in Recorded(s)
  PROVE  /\ Same(s, t) /\ t \in Runtimes
         /\ t = s \/ (t.failed /\ AppendMayFail)
  BY FailSame DEF Same, Recorded

\* So does what a decision asks for (executeDecision).
LEMMA DeliverSame ==
  ASSUME NEW s \in Runtimes, NEW P, NEW D
  PROVE  Same(s, Deliver(s, P, D)) /\ Deliver(s, P, D).failed = s.failed
  BY DEF Same, Deliver, Runtimes

\* And a turn that fails (scheduleReasoning).
LEMMA StallSame ==
  ASSUME NEW s \in Runtimes, NEW n
  PROVE  Same(s, Stall(s, n)) /\ Stall(s, n).failed
<1> DEFINE u == [s EXCEPT !.acted = @ \cup {m \in {n} : Gestures(s, m)}]
<1>1. Same(s, u) /\ "failed" \in DOMAIN u /\ DOMAIN u = DOMAIN s
  BY DEF Same, Runtimes
<1> HIDE DEF u
<1>2. Same(u, [u EXCEPT !.failed = TRUE]) /\ [u EXCEPT !.failed = TRUE].failed
  BY <1>1 DEF Same, Runtimes
<1> QED BY <1>1, <1>2 DEF Stall, Fail, Same, u

\* A turn, and a turn does not hide an earlier failure (scheduleReasoning).
LEMMA ReasonSame ==
  ASSUME NEW s, Good(s), NEW n \in NPC, NEW t \in Reason(s, n)
  PROVE  Same(s, t) /\ (~t.failed => ~s.failed)
<1>1. s \in Runtimes
  BY DEF Good, Sound
<1>2. CASE t = s
  BY <1>2 DEF Same
<1>3. CASE \E D \in Plans(s, {n}) : t = Deliver(s, {n}, D)
  BY <1>1, <1>3, DeliverSame
<1>4. CASE t = Stall(s, n)
  BY <1>1, <1>4, StallSame
<1> QED BY <1>2, <1>3, <1>4 DEF Reason

\* Idle turns are turns (maybeScheduleIdleThinking).
LEMMA IdleThinkingSame ==
  ASSUME NEW s, Good(s), NEW t \in IdleThinking(s)
  PROVE  Same(s, t) /\ (~t.failed => ~s.failed)
<1>1. CASE t = s
  BY <1>1 DEF Same
<1>2. CASE ~s.failed
  <2>0. PICK P \in SUBSET IdleAgents(s) : \E D \in Plans(s, P) :
          t \in {Deliver(s, P, D)} \cup
               {Stall(Deliver(s, P, D), n) : n \in {m \in IdleAgents(s) \ P : ReasoningMayFail}}
    BY <1>2 DEF IdleThinking
  <2>1. PICK D \in Plans(s, P) :
          t \in {Deliver(s, P, D)} \cup
               {Stall(Deliver(s, P, D), n) : n \in {m \in IdleAgents(s) \ P : ReasoningMayFail}}
    BY <2>0
  <2>2. P \in SUBSET NPC /\ \A n \in P : CanReason(s.own[n])
    BY DEF IdleAgents, CanReason
  <2> DEFINE u == Deliver(s, P, D)
  <2>3. u \in Runtimes /\ Same(s, u)
    BY <2>2, DeliverGood, DeliverSame DEF Good, Sound
  <2> HIDE DEF u
  <2>4. CASE t = u
    BY <1>2, <2>3, <2>4
  <2>5. CASE \E n \in NPC : t = Stall(u, n)
    BY <1>2, <2>3, <2>5, StallSame DEF Same
  <2>6. t = u \/ \E n \in NPC : t = Stall(u, n)
    BY <2>1 DEF u, IdleAgents
  <2> QED BY <2>4, <2>5, <2>6
<1> QED BY <1>1, <1>2 DEF IdleThinking

-----------------------------------------------------------------------------
(* Promotions.                                                             *)

\* From s to t the first k entries were popped and the AWARE ones activated; the
\* loop went on only while a slot was free, and an unfailed one went to its end.
Popped(s, t, k) ==
  /\ k \in 0..Len(s.deferred)
  /\ Same(Activate(s, k), t)
  /\ \A j \in 0..(k - 1) : ~Full(s, j)
  /\ t.failed \/ k \in PopCounts(s)

\* The promotion loop pops the front of the queue (promoteNextDeferred).
LEMMA PromotePops ==
  ASSUME NEW s, Good(s), NEW t \in PromoteNextDeferred(s)
  PROVE  \E k \in 0..Len(s.deferred) : Popped(s, t, k)
<1>1. s \in Runtimes /\ Len(s.deferred) \in Nat
  BY Fields DEF Good, Sound
<1>2. ASSUME NEW k \in 0..Len(s.deferred), NEW P \in SUBSET AwareAhead(s, k),
             NEW D \in Plans(Activate(s, k), P)
      PROVE  LET u == Deliver(Activate(s, k), P, D)
             IN  u \in Runtimes /\ Same(Activate(s, k), u)
  <2>1. Good(Activate(s, k)) /\ \A n \in AwareAhead(s, k) : CanReason(Activate(s, k).own[n])
    BY ActivateGood
  <2>2. P \in SUBSET NPC
    BY DEF AwareAhead
  <2> QED BY <2>1, <2>2, DeliverGood, DeliverSame DEF Good, Sound
<1>3. CASE \E k \in PopCounts(s) : t \in Promoted(s, k)
  <2>1. PICK k \in PopCounts(s) : t \in Promoted(s, k)
    BY <1>3
  <2>2. PICK D \in Plans(Activate(s, k), AwareAhead(s, k)) :
          t = Deliver(Activate(s, k), AwareAhead(s, k), D)
    BY <2>1 DEF Promoted
  <2>3. k \in 0..Len(s.deferred) /\ \A j \in 0..(k - 1) : ~Full(s, j)
    BY <2>1 DEF PopCounts
  <2>4. Popped(s, t, k)
    BY <1>2, <2>1, <2>2, <2>3 DEF Popped
  <2> QED BY <2>3, <2>4
<1>4. CASE \E k \in 1..Len(s.deferred) : /\ \E p \in PopCounts(s) : k <= p
                                         /\ t \in PromotionCut(s, k)
  <2>1. PICK k \in 1..Len(s.deferred) : /\ \E p \in PopCounts(s) : k <= p
                                        /\ t \in PromotionCut(s, k)
    BY <1>4
  <2> DEFINE ahead == AwareAhead(s, k) \ {s.deferred[k]}
  <2>2. PICK D \in Plans(Activate(s, k), ahead) :
          LET u == Deliver(Activate(s, k), ahead, D)
          IN  t = Stall(u, s.deferred[k]) \/ t = Fail(u)
    BY <2>1 DEF PromotionCut
  <2> DEFINE u == Deliver(Activate(s, k), ahead, D)
  <2>3. k \in 0..Len(s.deferred)
    BY <1>1, <2>1
  <2>4. u \in Runtimes /\ Same(Activate(s, k), u)
    BY <1>2, <2>3
  <2> HIDE DEF u
  <2>5. Same(u, t) /\ t.failed
    BY <2>2, <2>4, StallSame, FailSame DEF u
  <2>6. \A j \in 0..(k - 1) : ~Full(s, j)
    <3>1. PICK p \in 0..Len(s.deferred) : k <= p /\ \A j \in 0..(p - 1) : ~Full(s, j)
      BY <2>1 DEF PopCounts
    <3> QED BY <2>1, <3>1
  <2>7. Popped(s, t, k)
    BY <2>3, <2>4, <2>5, <2>6 DEF Popped, Same
  <2> QED BY <2>3, <2>7
<1> QED BY <1>3, <1>4 DEF PromoteNextDeferred

\* There are finitely many NPCs: all of them were seen.
LEMMA FiniteNPC == IsFiniteSet(NPC)
<1>1. Len(SeenOrder) \in Nat /\ SeenOrder \in Surjection(1..Len(SeenOrder), NPC)
  BY ConfigAssumption DEF Surjection
<1> QED BY <1>1, FS_NatSurjection DEF ExistsSurjection

\* Cardinalities of disjoint sets add up.
LEMMA DisjointCardinality ==
  ASSUME NEW S, NEW T, IsFiniteSet(S), IsFiniteSet(T), S \cap T = {}
  PROVE  /\ IsFiniteSet(S \cup T)
         /\ Cardinality(S \cup T) = Cardinality(S) + Cardinality(T)
<1>1. /\ IsFiniteSet(S \cup T)
      /\ Cardinality(S \cup T) = Cardinality(S) + Cardinality(T) - Cardinality(S \cap T)
  BY FS_Union
<1>2. Cardinality(S \cap T) = 0
  BY FS_EmptySet
<1>3. Cardinality(S) \in Nat /\ Cardinality(T) \in Nat
  BY FS_CardinalityType
<1> QED BY <1>1, <1>2, <1>3

\* One more candidate makes a set larger by one at most.
LEMMA OneMore ==
  ASSUME NEW S, IsFiniteSet(S), NEW x, NEW T, T \subseteq S \cup {x}
  PROVE  IsFiniteSet(T) /\ Cardinality(T) <= Cardinality(S) + 1
<1> DEFINE U == S \cup {x}
<1>1. IsFiniteSet(U) /\ Cardinality(U) = IF x \in S THEN Cardinality(S) ELSE Cardinality(S) + 1
  BY FS_AddElement
<1> HIDE DEF U
<1>2. T \in SUBSET U
  BY DEF U
<1>3. IsFiniteSet(T) /\ Cardinality(T) <= Cardinality(U)
  BY <1>1, <1>2, FS_Subset
<1>4. Cardinality(S) \in Nat /\ Cardinality(T) \in Nat
  BY <1>3, FS_CardinalityType
<1> QED BY <1>1, <1>3, <1>4

\* A popped queue is as sound as it was.
LEMMA PopNeat ==
  ASSUME NEW s \in Runtimes, Neat(s), NEW t, NEW k, Popped(s, t, k)
  PROVE  Neat(t)
<1>1. k \in 0..Len(s.deferred) /\ s.deferred \in Seq(NPC)
  BY Fields DEF Popped
<1>2. /\ t.own = [n \in NPC |-> IF n \in AwareAhead(s, k) THEN "AI_ACTIVE" ELSE s.own[n]]
      /\ t.prev = s.prev
      /\ t.deferred = SubSeq(s.deferred, k + 1, Len(s.deferred))
  BY DEF Popped, Same, Activate, Runtimes
<1>3. /\ t.deferred \in Seq(NPC) /\ Entries(t.deferred) \subseteq Entries(s.deferred)
      /\ Distinct(t.deferred)
  BY <1>1, <1>2, PopKeeps DEF Neat
<1>4. Entries(s.deferred) \subseteq NPC
  BY <1>1 DEF Entries
<1>5. \A n \in Entries(t.deferred) : /\ t.own[n] \notin Gone
                                     /\ t.own[n] = "SUSPENDED" => t.prev[n] \notin Gone
  BY <1>2, <1>3, <1>4 DEF Neat, Gone
<1>6. AppendMayFail \/ \A n \in NPC : t.own[n] # "RELEASE"
  BY <1>2 DEF Neat
<1> QED BY <1>3, <1>5, <1>6 DEF Neat

\* Promotions stop at the cap, and at a free slot only when nobody waits for it.
LEMMA PopCaps ==
  ASSUME NEW s \in Runtimes, NEW t, NEW k, Popped(s, t, k)
  PROVE  /\ (\E n \in NPC : s.own[n] = "AWARE" /\ t.own[n] = "AI_ACTIVE")
            => Cardinality(Active(t)) <= MaxAgents
         /\ ~t.failed => ~CanPromote(t) \/ Entries(t.deferred) = {}
<1>1. k \in 0..Len(s.deferred) /\ s.deferred \in Seq(NPC) /\ Len(s.deferred) \in Nat
  BY Fields DEF Popped
<1>2. /\ t.own = [n \in NPC |-> IF n \in AwareAhead(s, k) THEN "AI_ACTIVE" ELSE s.own[n]]
      /\ t.deferred = SubSeq(s.deferred, k + 1, Len(s.deferred))
  BY DEF Popped, Same, Activate, Runtimes
<1>3. Active(t) = Active(s) \cup AwareAhead(s, k) /\ Active(s) \cap AwareAhead(s, k) = {}
  BY <1>2 DEF Active, AwareAhead, SlotStates
<1>4. \A j \in Nat : IsFiniteSet(AwareAhead(s, j)) /\ Cardinality(AwareAhead(s, j)) \in Nat
  <2>1. \A j \in Nat : AwareAhead(s, j) \in SUBSET NPC
    BY DEF AwareAhead
  <2> QED BY <2>1, FiniteNPC, FS_Subset, FS_CardinalityType
<1>5. IsFiniteSet(Active(s)) /\ Cardinality(Active(s)) \in Nat
  <2>1. Active(s) \in SUBSET NPC
    BY DEF Active
  <2> QED BY <2>1, FiniteNPC, FS_Subset, FS_CardinalityType
<1>6. Cardinality(Active(t)) = Cardinality(Active(s)) + Cardinality(AwareAhead(s, k))
  <2> DEFINE A == Active(s)
             B == AwareAhead(s, k)
  <2>1. IsFiniteSet(A) /\ IsFiniteSet(B) /\ A \cap B = {} /\ Active(t) = A \cup B
    BY <1>1, <1>3, <1>4, <1>5
  <2> HIDE DEF A, B
  <2>2. Cardinality(A \cup B) = Cardinality(A) + Cardinality(B)
    BY <2>1, DisjointCardinality
  <2> QED BY <2>1, <2>2 DEF A, B
<1>7. ASSUME NEW n \in NPC, s.own[n] = "AWARE", t.own[n] = "AI_ACTIVE"
      PROVE  Cardinality(Active(t)) <= MaxAgents
  <2>1. n \in AwareAhead(s, k)
    BY <1>2, <1>7
  <2>2. k # 0
    BY <2>1 DEF AwareAhead
  <2>3. k - 1 \in 0..(k - 1) /\ k - 1 \in Nat
    BY <1>1, <2>2
  <2>4. ~Full(s, k - 1)
    BY <2>3 DEF Popped
  <2>5. AwareAhead(s, k) \subseteq AwareAhead(s, k - 1) \cup {s.deferred[k]}
    BY <1>1, <2>2 DEF AwareAhead
  <2>6. Cardinality(AwareAhead(s, k)) <= Cardinality(AwareAhead(s, k - 1)) + 1
    <3> DEFINE B == AwareAhead(s, k - 1)
               A == AwareAhead(s, k)
               x == s.deferred[k]
    <3>1. IsFiniteSet(B) /\ A \subseteq B \cup {x}
      BY <1>4, <2>3, <2>5
    <3> HIDE DEF A, B, x
    <3>2. Cardinality(A) <= Cardinality(B) + 1
      BY <3>1, OneMore
    <3> QED BY <3>2 DEF A, B
  <2>7. Cardinality(AwareAhead(s, k)) \in Nat /\ Cardinality(AwareAhead(s, k - 1)) \in Nat
    BY <1>1, <1>4, <2>3
  <2> QED BY <1>5, <1>6, <2>4, <2>6, <2>7, ConfigAssumption DEF Full
<1>8. ASSUME ~t.failed
      PROVE  ~CanPromote(t) \/ Entries(t.deferred) = {}
  <2>1. k = Len(s.deferred) \/ Full(s, k)
    BY <1>8 DEF Popped, PopCounts
  <2>2. CASE k = Len(s.deferred)
    <3>1. Len(t.deferred) = 0 /\ t.deferred \in Seq(NPC)
      BY <1>1, <1>2, <2>2, PopKeeps
    <3> QED BY <3>1 DEF Entries
  <2>3. CASE Full(s, k)
    BY <1>1, <1>4, <1>5, <1>6, <2>3, ConfigAssumption DEF Full, CanPromote
  <2> QED BY <2>1, <2>2, <2>3
<1> QED BY <1>7, <1>8

\* From s to d somebody may have been handed back and left the queue.
Freed(s, d) ==
  /\ d \in Runtimes /\ Distinct(d.deferred)
  /\ Entries(d.deferred) \subseteq Entries(s.deferred) /\ Ordered(s.deferred, d.deferred)
  /\ \A m \in NPC : d.own[m] = s.own[m] \/ d.own[m] = "ROCKSTAR"
  /\ \A m \in Entries(s.deferred) \ Entries(d.deferred) : d.own[m] = "ROCKSTAR"

\* Promotions into the slot a release frees are fair, and so are promotions alone.
LEMMA PopFair ==
  ASSUME NEW s \in Runtimes, NEW d, Freed(s, d), NEW t, NEW k, Popped(d, t, k)
  PROVE  Fair(s, t)
<1> DEFINE q == s.deferred
           w == d.deferred
<1>1. /\ q \in Seq(NPC) /\ w \in Seq(NPC) /\ Len(w) \in Nat /\ DOMAIN w = 1..Len(w)
      /\ k \in 0..Len(w) /\ \A i \in DOMAIN q : q[i] \in NPC
  BY Fields DEF Popped, Freed
<1>2. /\ t.own = [n \in NPC |-> IF n \in AwareAhead(d, k) THEN "AI_ACTIVE" ELSE d.own[n]]
      /\ t.deferred = SubSeq(w, k + 1, Len(w))
  BY DEF Popped, Same, Activate, Runtimes, Freed
<1>3. \A n \in NPC : \/ t.own[n] = d.own[n]
                     \/ d.own[n] = "AWARE" /\ s.own[n] = "AWARE" /\ t.own[n] = "AI_ACTIVE"
  BY <1>2 DEF AwareAhead, Freed
<1>4. /\ Len(t.deferred) = Len(w) - k /\ DOMAIN t.deferred = 1..(Len(w) - k)
      /\ \A i \in 1..(Len(w) - k) : t.deferred[i] = w[k + i]
      /\ Entries(t.deferred) \subseteq Entries(w)
  BY <1>1, <1>2, PopKeeps
<1>5. Capped(s, t)
  <2>1. ASSUME NEW n \in NPC, s.own[n] = "AWARE", t.own[n] = "AI_ACTIVE"
        PROVE  d.own[n] = "AWARE"
    BY <1>3, <2>1 DEF Freed
  <2> QED BY <2>1, PopCaps DEF Capped, Freed
<1>6. Filled(s, t)
  BY PopCaps DEF Filled, Freed
<1>7. Roomy(s, t)
  BY <1>3 DEF Roomy, Starts, Freed
<1>8. InOrder(s, t)
  <2> SUFFICES ASSUME NEW i \in DOMAIN q, NEW j \in DOMAIN q, i < j,
                      s.own[q[j]] = "AWARE", t.own[q[j]] = "AI_ACTIVE",
                      q[j] \notin Entries(t.deferred),
                      q[i] \in Entries(t.deferred)
               PROVE  FALSE
    BY DEF InOrder
  <2>1. d.own[q[j]] # "ROCKSTAR"
    BY <1>1, <1>3
  <2>2. q[i] \in Entries(w) /\ q[j] \in Entries(w)
    BY <1>4, <2>1 DEF Freed, Entries
  <2>3. PICK a \in DOMAIN w, b \in DOMAIN w : a < b /\ w[a] = q[i] /\ w[b] = q[j]
    BY <2>2 DEF Freed, Ordered
  <2>4. PICK p \in 1..(Len(w) - k) : t.deferred[p] = q[i]
    BY <1>4 DEF Entries
  <2>5. k + p \in DOMAIN w /\ w[k + p] = w[a]
    BY <1>1, <1>4, <2>3, <2>4
  <2>6. k + p = a
    BY <2>5 DEF Freed, Distinct
  <2>7. b - k \in 1..(Len(w) - k) /\ k + (b - k) = b
    BY <1>1, <2>3, <2>4, <2>6
  <2>8. b - k \in DOMAIN t.deferred /\ t.deferred[b - k] = q[j]
    BY <1>4, <2>3, <2>7
  <2> QED BY <2>8 DEF Entries
<1> QED BY <1>5, <1>6, <1>7, <1>8 DEF Fair

-----------------------------------------------------------------------------
(* Transitions.                                                            *)

\* What every operator of a handler keeps.
Keeps(s, t) == Neat(t) /\ Fair(s, t)

\* A transition to a state that frees no slot is the state and, if it may fail,
\* the failure (recordTransition).
LEMMA PlainMove ==
  ASSUME NEW s, Good(s), NEW n \in NPC, NEW to \in OwnStates \ {"RELEASE", "ROCKSTAR"},
         ~s.failed, NEW t \in Move(s, n, to)
  PROVE  /\ t.own = [s.own EXCEPT ![n] = to] /\ t.prev = s.prev /\ t.deferred = s.deferred
         /\ AppendMayFail \/ ~t.failed
<1> DEFINE u == [s EXCEPT !.own[n] = to]
<1>1. to # NoMove
  BY DEF OwnStates
<1>2. /\ u \in Runtimes /\ u.own = [s.own EXCEPT ![n] = to] /\ u.prev = s.prev
      /\ u.deferred = s.deferred /\ u.failed = s.failed
  BY DEF Good, Sound, Runtimes
<1> HIDE DEF u
<1>3. PICK v \in {u} \cup Recorded(u) : t \in HandOff(v, n, to)
  BY <1>1 DEF Move, RecordTransition, u
<1>4. t = v
  BY <1>3 DEF HandOff
<1>5. v = u \/ (Same(u, v) /\ AppendMayFail)
  BY <1>2, <1>3, RecordedSame
<1> QED BY <1>2, <1>4, <1>5 DEF Same

\* Handing an NPC back takes it off the queue and fills its slot (recordTransition).
LEMMA ReleaseMove ==
  ASSUME NEW s, Good(s), Silent(s), Neat(s), NEW n \in NPC, ~s.failed,
         NEW t \in Move(s, n, "RELEASE")
  PROVE  Keeps(s, t)
<1> DEFINE u == [s EXCEPT !.own[n] = "RELEASE"]
           c == [u EXCEPT !.deferred = Without(@, n), !.overlay[n] = FALSE]
           d == [c EXCEPT !.own[n] = "ROCKSTAR"]
<1>0. s \in Runtimes /\ s.deferred \in Seq(NPC) /\ s.own \in [NPC -> OwnStates]
  BY Fields DEF Good, Sound
<1>1. /\ u \in Runtimes /\ u.own = [s.own EXCEPT ![n] = "RELEASE"] /\ u.prev = s.prev
      /\ u.deferred = s.deferred /\ ~u.failed /\ u.said = {} /\ u.acted = {}
      /\ u.overlay = s.overlay
  BY <1>0 DEF Runtimes, OwnStates, Silent
<1>2. EventName(s.own[n], "RELEASE") # NoEvent
  BY DEF EventName
<1>3. PICK v \in Recorded(u) : t \in HandOff(v, n, "RELEASE")
  BY <1>2 DEF Move, RecordTransition
<1>4. CASE v.failed
  <2>1. t = v /\ Same(u, v) /\ AppendMayFail
    BY <1>1, <1>3, <1>4, RecordedSame DEF HandOff
  <2>2. /\ t.deferred = s.deferred
        /\ \A m \in NPC : (t.own[m] = s.own[m] /\ t.prev[m] = s.prev[m]) \/ t.own[m] = "RELEASE"
    BY <1>0, <1>1, <2>1 DEF Same
  <2>3. Neat(t)
    BY <1>0, <2>1, <2>2, ChangeNeat
  <2>4. Calm(s, t)
    BY <2>2 DEF Calm, SlotStates
  <2> QED BY <1>0, <2>3, <2>4, CalmFair DEF Keeps
<1>5. CASE ~v.failed
  <2>1. v = u
    BY <1>1, <1>3, <1>5, RecordedSame
  <2>2. t \in PromoteNextDeferred(d)
    BY <1>1, <1>3, <2>1 DEF HandOff
  <2>3. /\ Without(s.deferred, n) \in Seq(NPC) /\ Distinct(Without(s.deferred, n))
        /\ Entries(Without(s.deferred, n)) = Entries(s.deferred) \ {n}
        /\ Ordered(s.deferred, Without(s.deferred, n))
    BY <1>0, WithoutRemoves DEF Neat
  <2>4. /\ c \in Runtimes /\ c.own = u.own /\ c.prev = s.prev
        /\ c.deferred = Without(s.deferred, n) /\ c.said = {} /\ c.acted = {}
        /\ c.overlay = [s.overlay EXCEPT ![n] = FALSE]
    BY <1>1, <2>3 DEF Runtimes
  <2> HIDE DEF u, c
  <2>5. /\ d \in Runtimes /\ d.own = [s.own EXCEPT ![n] = "ROCKSTAR"] /\ d.prev = s.prev
        /\ d.deferred = Without(s.deferred, n) /\ d.said = {} /\ d.acted = {}
        /\ d.overlay = [s.overlay EXCEPT ![n] = FALSE]
    BY <1>0, <1>1, <2>4 DEF Runtimes, OwnStates
  <2> HIDE DEF d
  <2>6. Good(d)
    BY <1>0, <2>5, Fields DEF Good, Sound, Covered, Remembers, Commanded
  <2>7. Neat(d)
    <3>1. \A m \in NPC \ {n} : d.own[m] = s.own[m]
      BY <1>0, <2>5
    <3>2. Entries(d.deferred) \subseteq NPC \ {n}
      <4>1. Entries(s.deferred) \subseteq NPC
        BY <1>0 DEF Entries
      <4> QED BY <2>3, <2>5, <4>1
    <3>3. d.own[n] = "ROCKSTAR"
      BY <1>0, <2>5
    <3> QED BY <2>3, <2>5, <3>1, <3>2, <3>3 DEF Neat
  <2>8. Freed(s, d)
    BY <1>0, <2>3, <2>5 DEF Freed
  <2>9. PICK k \in 0..Len(d.deferred) : Popped(d, t, k)
    BY <2>2, <2>6, PromotePops
  <2> QED BY <1>0, <2>5, <2>7, <2>8, <2>9, PopNeat, PopFair DEF Keeps
<1> QED BY <1>4, <1>5

\* Letting go of an NPC the runtime no longer wants takes it off the queue.
LEMMA RockstarMove ==
  ASSUME NEW s, Good(s), Silent(s), Neat(s), NEW n \in NPC, ~s.failed,
         s.own[n] \in {"CANDIDATE", "RELEASE"}, NEW t \in Move(s, n, "ROCKSTAR")
  PROVE  Keeps(s, t)
<1> DEFINE u == [s EXCEPT !.own[n] = "ROCKSTAR"]
           c == [u EXCEPT !.deferred = Without(@, n), !.overlay[n] = FALSE]
<1>0. s \in Runtimes /\ s.deferred \in Seq(NPC) /\ s.own \in [NPC -> OwnStates]
  BY Fields DEF Good, Sound
<1>1. EventName(s.own[n], "ROCKSTAR") = NoEvent
  BY DEF EventName
<1>2. t \in HandOff(u, n, "ROCKSTAR")
  BY <1>1 DEF Move, RecordTransition
<1>3. u \in Runtimes /\ u.own = [s.own EXCEPT ![n] = "ROCKSTAR"] /\ u.prev = s.prev
      /\ u.deferred = s.deferred /\ ~u.failed
  BY <1>0 DEF Runtimes, OwnStates
<1> HIDE DEF u
<1>4. t = c
  BY <1>2, <1>3 DEF HandOff
<1>5. t.own = [s.own EXCEPT ![n] = "ROCKSTAR"] /\ t.prev = s.prev
      /\ t.deferred = Without(s.deferred, n)
  BY <1>3, <1>4 DEF Runtimes
<1>6. /\ Distinct(t.deferred) /\ Entries(t.deferred) = Entries(s.deferred) \ {n}
      /\ Entries(s.deferred) \subseteq NPC
  <2>1. Entries(s.deferred) \subseteq NPC
    BY <1>0 DEF Entries
  <2> QED BY <1>0, <1>5, <2>1, WithoutRemoves DEF Neat
<1>7. \A m \in NPC : t.own[m] = IF m = n THEN "ROCKSTAR" ELSE s.own[m]
  BY <1>0, <1>5
<1>8. Neat(t)
  <2>1. \A m \in Entries(t.deferred) : /\ t.own[m] \notin Gone
                                       /\ t.own[m] = "SUSPENDED" => t.prev[m] \notin Gone
    BY <1>5, <1>6, <1>7 DEF Neat
  <2> QED BY <1>6, <1>7, <2>1 DEF Neat
<1>9. Calm(s, t)
  BY <1>7 DEF Calm, SlotStates
<1> QED BY <1>0, <1>8, <1>9, CalmFair DEF Keeps

\* A transition that is neither an activation nor a conversation keeps the
\* scheduler in order (a manager method and recordTransition).
LEMMA MoveKeeps ==
  ASSUME NEW s, Good(s), Silent(s), Neat(s), NEW n \in NPC,
         NEW to \in (OwnStates \ ({"SUSPENDED"} \cup SlotStates)) \cup {NoMove},
         to = "CANDIDATE" => s.own[n] \in {"ROCKSTAR", "RELEASE"},
         to = "ROCKSTAR" => s.own[n] \in {"CANDIDATE", "RELEASE"},
         NEW t \in Move(s, n, to)
  PROVE  Keeps(s, t)
<1>0. s \in Runtimes /\ s.own \in [NPC -> OwnStates]
  BY Fields DEF Good, Sound
<1>1. CASE s.failed \/ to = NoMove
  <2>1. t = s
    BY <1>1 DEF Move
  <2>2. Calm(s, s)
    BY DEF Calm, SlotStates
  <2> QED BY <1>0, <2>1, <2>2, CalmFair DEF Keeps
<1>2. CASE ~s.failed /\ to = "RELEASE"
  BY <1>2, ReleaseMove
<1>3. CASE ~s.failed /\ to = "ROCKSTAR"
  BY <1>3, RockstarMove
<1>4. CASE ~s.failed /\ to \in OwnStates \ ({"SUSPENDED", "RELEASE", "ROCKSTAR"} \cup SlotStates)
  <2>1. t.own = [s.own EXCEPT ![n] = to] /\ t.prev = s.prev /\ t.deferred = s.deferred
    BY <1>4, PlainMove
  <2>2. \A m \in NPC : t.own[m] = IF m = n THEN to ELSE s.own[m]
    BY <1>0, <2>1
  <2>3. to \in Gone => n \notin Entries(s.deferred)
    BY <1>4 DEF Neat, Gone
  <2>4. Neat(t)
    BY <1>0, <1>4, <2>1, <2>2, <2>3, ChangeNeat
  <2>5. Calm(s, t)
    BY <1>4, <2>2 DEF Calm, SlotStates
  <2> QED BY <1>0, <2>4, <2>5, CalmFair DEF Keeps
<1> QED BY <1>1, <1>2, <1>3, <1>4 DEF NoMove

-----------------------------------------------------------------------------
(* Activations, conversations and freezes.                                 *)

\* A step that changes neither states nor queue keeps the scheduler in order.
LEMMA SameKeeps ==
  ASSUME NEW s \in Runtimes, Neat(s), NEW t, Same(s, t)
  PROVE  Keeps(s, t)
<1>1. Calm(s, t)
  BY DEF Calm, Same, SlotStates
<1> QED BY <1>1, CalmFair, SameNeat DEF Keeps

\* So do such steps before and after one that does.
LEMMA KeepsBetween ==
  ASSUME NEW r, NEW s, NEW t, NEW u, Same(r, s), Keeps(s, t), Same(t, u), ~u.failed => ~t.failed
  PROVE  Keeps(r, u)
  BY FairBetween, SameNeat DEF Keeps

\* A trigger activates only into a free slot, and queues otherwise (makeMeaningful).
LEMMA MakeMeaningfulKeeps ==
  ASSUME NEW s, Good(s), Silent(s), Neat(s), NEW n \in NPC, NEW t \in MakeMeaningful(s, n)
  PROVE  Keeps(s, t)
<1>0. /\ s \in Runtimes /\ s.own \in [NPC -> OwnStates] /\ s.deferred \in Seq(NPC)
      /\ Same(s, s)
  BY Fields DEF Good, Sound, Same
<1>1. CASE s.own[n] = "AWARE" /\ ~CanPromote(s)
  <2> DEFINE u == Defer(s, n)
  <2>1. t \in Recorded(u)
    BY <1>1 DEF MakeMeaningful
  <2>2. u \in Runtimes /\ u.own = s.own
    BY DeferGood DEF Good, Sound
  <2>3. u = s \/ (n \notin Entries(s.deferred) /\ u.deferred = Append(s.deferred, n)
                    /\ u.prev = s.prev)
    BY <1>0 DEF Defer, Queued, Entries, Runtimes
  <2> HIDE DEF u
  <2>4. Neat(u)
    <3>1. CASE n \notin Entries(s.deferred) /\ u.deferred = Append(s.deferred, n) /\ u.prev = s.prev
      <4>1. Distinct(u.deferred) /\ Entries(u.deferred) = Entries(s.deferred) \cup {n}
        BY <1>0, <3>1, AppendDistinct DEF Neat
      <4> QED BY <1>1, <2>2, <3>1, <4>1 DEF Neat, Gone
    <3> QED BY <2>3, <3>1
  <2>5. Calm(s, u)
    BY <2>2 DEF Calm, SlotStates
  <2>6. Same(u, t) /\ (~t.failed => ~u.failed)
    BY <2>1, <2>2, RecordedSame
  <2> QED BY <1>0, <2>4, <2>5, <2>6, CalmFair, KeepsBetween DEF Keeps
<1>2. CASE s.own[n] = "AWARE" /\ CanPromote(s)
  <2>1. PICK u \in Move(s, n, "AI_ACTIVE") : t \in Reason(u, n)
    BY <1>2 DEF MakeMeaningful, ScanTarget, ScanReleases
  <2>2. Good(u)
    BY <2>1, MoveGood DEF OwnStates
  <2>3. Same(u, t) /\ (~t.failed => ~u.failed)
    BY <2>1, <2>2, ReasonSame
  <2>4. CASE s.failed
    BY <1>0, <2>1, <2>3, <2>4, SameKeeps DEF Move
  <2>5. CASE ~s.failed
    <3>1. u.own = [s.own EXCEPT ![n] = "AI_ACTIVE"] /\ u.prev = s.prev /\ u.deferred = s.deferred
      BY <2>1, <2>5, PlainMove DEF OwnStates
    <3>2. \A m \in NPC : u.own[m] = IF m = n THEN "AI_ACTIVE" ELSE s.own[m]
      BY <1>0, <3>1
    <3>3. Neat(u)
      BY <1>0, <3>1, <3>2, ChangeNeat DEF Gone
    <3>4. Cardinality(Active(u)) <= MaxAgents
      <4> DEFINE A == Active(s)
                 B == Active(u)
      <4>1. IsFiniteSet(A) /\ B \subseteq A \cup {n}
        <5>1. A \in SUBSET NPC /\ B \subseteq A \cup {n}
          BY <3>2 DEF Active
        <5> QED BY <5>1, FiniteNPC, FS_Subset
      <4>2. Cardinality(A) < MaxAgents
        BY <1>2 DEF CanPromote
      <4> HIDE DEF A, B
      <4>3. IsFiniteSet(B) /\ Cardinality(B) <= Cardinality(A) + 1
        BY <4>1, OneMore
      <4>4. Cardinality(A) \in Nat /\ Cardinality(B) \in Nat
        BY <4>1, <4>3, FS_CardinalityType
      <4> QED BY <4>2, <4>3, <4>4, ConfigAssumption DEF B
    <3>5. Fair(s, u)
      <4>1. \A j \in DOMAIN s.deferred : s.deferred[j] \in Entries(u.deferred)
        BY <3>1 DEF Entries
      <4>2. InOrder(s, u)
        BY <4>1 DEF InOrder
      <4>3. Filled(s, u) /\ Roomy(s, u)
        BY <3>2 DEF Filled, Roomy, Starts, SlotStates
      <4> QED BY <3>4, <4>2, <4>3 DEF Fair, Capped
    <3> QED BY <1>0, <2>3, <3>3, <3>5, KeepsBetween DEF Keeps
  <2> QED BY <2>4, <2>5
<1>3. CASE s.own[n] # "AWARE"
  <2>1. t \in Reason(s, n)
    BY <1>3 DEF MakeMeaningful
  <2> QED BY <1>0, <2>1, ReasonSame, SameKeeps
<1> QED BY <1>1, <1>2, <1>3

\* Ended conversations leave queue and slots as they are (ConversationEnded).
LEMMA HushKeeps ==
  ASSUME NEW s, Good(s), Neat(s), NEW E
  PROVE  /\ Keeps(s, Hush(s, E)) /\ Calm(s, Hush(s, E))
         /\ Hush(s, E).deferred = s.deferred /\ Hush(s, E).failed = s.failed
         /\ \A m \in NPC : Hush(s, E).own[m] = IF m \in E /\ s.own[m] = "AI_CONVERSATION"
                                               THEN "AI_ACTIVE" ELSE s.own[m]
<1> DEFINE u == Hush(s, E)
<1>0. s \in Runtimes
  BY DEF Good, Sound
<1>1. /\ u.own = [m \in NPC |-> IF m \in E /\ HushTarget(s.own[m]) # NoMove
                                THEN HushTarget(s.own[m]) ELSE s.own[m]]
      /\ u.prev = s.prev /\ u.deferred = s.deferred /\ u.failed = s.failed
  BY <1>0 DEF Hush, Runtimes
<1> HIDE DEF u
<1>2. \A m \in NPC : u.own[m] = IF m \in E /\ s.own[m] = "AI_CONVERSATION"
                                THEN "AI_ACTIVE" ELSE s.own[m]
  BY <1>1 DEF HushTarget
<1>3. Neat(u)
  BY <1>0, <1>1, <1>2, ChangeNeat DEF Gone
<1>4. Calm(s, u)
  BY <1>2 DEF Calm, SlotStates
<1>5. Keeps(s, u)
  BY <1>0, <1>3, <1>4, CalmFair DEF Keeps
<1> QED BY <1>1, <1>2, <1>4, <1>5 DEF u

\* A freeze holds a queued NPC in place (Manager.Suspend).
LEMMA FreezeKeeps ==
  ASSUME NEW s, Good(s), Neat(s), NEW T
  PROVE  Keeps(s, Freeze(s, T)) /\ Freeze(s, T) \in Runtimes
<1> DEFINE u == Freeze(s, T)
<1>0. s \in Runtimes
  BY DEF Good, Sound
<1>1. u \in Runtimes /\ u.deferred = s.deferred
  BY <1>0 DEF Freeze, SuspendTarget, Runtimes, OwnStates
<1>2. \A m \in NPC : \/ u.own[m] = s.own[m] /\ u.prev[m] = s.prev[m]
                     \/ u.own[m] = "SUSPENDED" /\ u.prev[m] = s.own[m]
  BY <1>0 DEF Freeze, SuspendTarget, Runtimes
<1> HIDE DEF u
<1>3. Neat(u)
  BY <1>0, <1>1, <1>2, ChangeNeat
<1>4. Calm(s, u)
  BY <1>2 DEF Calm, SlotStates
<1>5. Keeps(s, u) /\ u \in Runtimes
  BY <1>0, <1>1, <1>3, <1>4, CalmFair DEF Keeps
<1> QED BY <1>5 DEF u

\* A thaw brings a queued NPC back to a state it may be queued in (Manager.Resume).
LEMMA ThawKeeps ==
  ASSUME NEW s, Good(s), Silent(s), Neat(s), NEW T
  PROVE  Keeps(s, Thaw(s, T)) /\ Thaw(s, T) \in Runtimes
<1> DEFINE u == Thaw(s, T)
<1>0. s \in Runtimes /\ u \in Runtimes
  BY ThawGood DEF Good, Sound
<1>1. \A m \in NPC : s.own[m] = "SUSPENDED" =>
        ResumeTarget(s.own[m], s.prev[m]) = IF s.prev[m] = "RELEASE" THEN "AWARE" ELSE s.prev[m]
  BY DEF Good, Sound, Remembers, ResumeTarget
<1>2. \A m \in NPC : s.own[m] # "SUSPENDED" => ResumeTarget(s.own[m], s.prev[m]) = NoMove
  BY DEF ResumeTarget
<1>3. /\ u.own = [n \in NPC |-> IF n \in T /\ ResumeTarget(s.own[n], s.prev[n]) # NoMove
                                THEN ResumeTarget(s.own[n], s.prev[n]) ELSE s.own[n]]
      /\ u.prev = [n \in NPC |-> IF n \in T /\ ResumeTarget(s.own[n], s.prev[n]) # NoMove
                                THEN NoState ELSE s.prev[n]]
      /\ u.deferred = s.deferred
  BY <1>0 DEF Thaw, Runtimes
<1> HIDE DEF u
<1>4. \A m \in NPC : \/ u.own[m] = s.own[m] /\ u.prev[m] = s.prev[m]
                     \/ /\ s.own[m] = "SUSPENDED"
                        /\ u.own[m] = IF s.prev[m] = "RELEASE" THEN "AWARE" ELSE s.prev[m]
  BY <1>1, <1>2, <1>3
<1>5. Calm(s, u)
  BY <1>4 DEF Calm, SlotStates, Good, Sound, Remembers
<1>6. \A m \in NPC :
        \/ u.own[m] = s.own[m] /\ u.prev[m] = s.prev[m]
        \/ u.own[m] \notin Gone \cup {"RELEASE", "SUSPENDED"}
        \/ u.own[m] # "RELEASE" /\ m \notin Entries(s.deferred)
  BY <1>4 DEF Good, Sound, Remembers, Neat, Gone
<1>7. Neat(u)
  BY <1>0, <1>3, <1>6, ChangeNeat
<1>8. Keeps(s, u) /\ u \in Runtimes
  BY <1>0, <1>5, <1>7, CalmFair DEF Keeps
<1> QED BY <1>8 DEF u

\* The conversations left beside a new one fit under the cap with it: only the
\* first-seen ones beyond the cap were ended (ensureSingleConversation).
LEMMA KeptFit ==
  ASSUME NEW s \in Runtimes, NEW n \in NPC, Partners(s, n) \ Excess(s, n) # {}
  PROVE  Cardinality(Partners(s, n) \ Excess(s, n)) + 1 <= MaxConversations
<1> DEFINE P == Partners(s, n)
           K == P \ Excess(s, n)
           Lower(m) == {x \in P : Rank(x) < Rank(m)}
           L == {Lower(m) : m \in K}
<1>1. P \in SUBSET NPC /\ IsFiniteSet(P) /\ K \subseteq P /\ K # {}
  <2>1. P \in SUBSET NPC
    BY DEF Partners
  <2> QED BY <2>1, FiniteNPC, FS_Subset
<1>2. \A m \in NPC : Rank(m) \in Int
  <2> TAKE m \in NPC
  <2>1. \E i \in DOMAIN SeenOrder : SeenOrder[i] = m
    BY ConfigAssumption
  <2>2. Rank(m) \in DOMAIN SeenOrder
    BY <2>1 DEF Rank
  <2>3. DOMAIN SeenOrder \subseteq Int
    BY ConfigAssumption
  <2> QED BY <2>2, <2>3
<1>3. \A m \in K : Cardinality(Lower(m)) + MaxConversations > Cardinality(P)
  <2>1. \A m \in P : /\ IsFiniteSet(Lower(m)) /\ Cardinality(Lower(m)) \in Nat
    <3> TAKE m \in P
    <3>1. Lower(m) \in SUBSET P
      OBVIOUS
    <3> HIDE DEF P, Lower
    <3> QED BY <1>1, <3>1, FS_Subset, FS_CardinalityType
  <2>2. Cardinality(P) \in Nat
    BY <1>1, FS_CardinalityType
  <2>3. ASSUME NEW m \in K
        PROVE  ~(Cardinality(Lower(m)) + MaxConversations <= Cardinality(P))
    BY DEF Excess
  <2> HIDE DEF P, K, Lower
  <2> QED BY <1>1, <2>1, <2>2, <2>3, ConfigAssumption
<1>4. PICK m \in K : \A x \in K : ~(Rank(x) < Rank(m))
  <2>1. L \subseteq FiniteSubsetsOf(P) /\ L # {}
    <3>1. \A m \in K : Lower(m) \in SUBSET P
      OBVIOUS
    <3>2. \A T \in SUBSET P : IsFiniteSet(T)
      BY <1>1, FS_Subset
    <3> HIDE DEF Lower, P, K
    <3> QED BY <1>1, <3>1, <3>2 DEF FiniteSubsetsOf
  <2>2. PICK l \in L : \A k \in L : <<k, l>> \notin StrictSubsetOrdering(P)
    <3> HIDE DEF L
    <3> QED BY <2>1, FS_StrictSubsetOrderingWellFounded, WFMin
  <2>3. PICK m \in K : l = Lower(m)
    BY <2>2
  <2>4. ASSUME NEW x \in K, Rank(x) < Rank(m)
        PROVE  FALSE
    <3>1. \A y \in P : Rank(y) < Rank(x) => Rank(y) < Rank(m)
      BY <1>1, <1>2, <2>4
    <3>2. x \in Lower(m) /\ x \notin Lower(x)
      BY <1>1, <1>2, <2>4
    <3>3. Lower(x) \subseteq Lower(m) /\ Lower(x) # Lower(m)
      <4>1. Lower(x) \subseteq Lower(m)
        BY <3>1
      <4> HIDE DEF Lower
      <4> QED BY <3>2, <4>1
    <3>4. Lower(x) \in SUBSET P /\ Lower(m) \in SUBSET P /\ Lower(x) \in L
      OBVIOUS
    <3> HIDE DEF Lower, L, P, K
    <3>5. <<Lower(x), Lower(m)>> \in StrictSubsetOrdering(P)
      BY <3>3, <3>4 DEF StrictSubsetOrdering
    <3> QED BY <2>2, <2>3, <3>4, <3>5
  <2> QED BY <2>3, <2>4
<1>5. Lower(m) \cap K = {} /\ Lower(m) \cup K \subseteq P
  BY <1>4
<1>6. Cardinality(Lower(m)) + Cardinality(K) <= Cardinality(P)
  <2> DEFINE A == Lower(m)
  <2>1. A \cap K = {} /\ A \cup K \in SUBSET P /\ A \in SUBSET P /\ K \in SUBSET P
    BY <1>5
  <2> HIDE DEF A, K, P
  <2>2. IsFiniteSet(A) /\ IsFiniteSet(K)
    BY <1>1, <2>1, FS_Subset
  <2>3. Cardinality(A \cup K) = Cardinality(A) + Cardinality(K)
    BY <2>1, <2>2, DisjointCardinality
  <2>4. Cardinality(A \cup K) <= Cardinality(P)
    BY <1>1, <2>1, FS_Subset
  <2> QED BY <2>3, <2>4 DEF A
<1>7. Cardinality(Lower(m)) \in Nat /\ Cardinality(K) \in Nat /\ Cardinality(P) \in Nat
  <2>1. Lower(m) \in SUBSET P /\ K \in SUBSET P
    OBVIOUS
  <2> HIDE DEF Lower, K, P
  <2> QED BY <1>1, <2>1, FS_Subset, FS_CardinalityType
<1>8. Cardinality(Lower(m)) + MaxConversations > Cardinality(P)
  BY <1>3
<1> HIDE DEF Lower, K, P
<1>9. Cardinality(K) + 1 <= MaxConversations
  BY <1>6, <1>7, <1>8, ConfigAssumption
<1> QED BY <1>9 DEF K, P

\* A conversation starts with room for it, and activates and releases nobody
\* (handlePushToTalk, reactToEvent).
LEMMA ConverseKeeps ==
  ASSUME NEW s, Good(s), Silent(s), Neat(s), NEW n \in NPC, NEW bargeIn,
         NEW t \in Converse(s, n, bargeIn)
  PROVE  Keeps(s, t)
<1>0. s \in Runtimes /\ Same(s, s)
  BY DEF Good, Sound, Same
<1>1. PICK u \in EnsureSingleConversation(s, n) :
        \/ t = u
        \/ t \in Recorded(u)
        \/ ~u.failed /\ u.own[n] # "AI_CONVERSATION" /\ t \in Move(u, n, TalkTarget(u.own[n]))
  BY DEF Converse
<1>2. \/ u = Hush(s, Excess(s, n))
      \/ \E E : u = Fail(Hush(s, E))
  BY DEF EnsureSingleConversation
<1>3. ASSUME NEW E
      PROVE  Good(Hush(s, E)) /\ Hush(s, E) \in Runtimes
  BY HushGood DEF Good, Sound
<1>4. /\ Keeps(s, u) /\ Good(u) /\ u \in Runtimes
      /\ \A m \in NPC : s.own[m] # "AI_CONVERSATION" => u.own[m] = s.own[m]
      /\ u.deferred = s.deferred
  <2>1. CASE u = Hush(s, Excess(s, n))
    BY <1>3, <2>1, HushKeeps
  <2>2. CASE \E E : u = Fail(Hush(s, E))
    <3>1. PICK E : u = Fail(Hush(s, E))
      BY <2>2
    <3> DEFINE h == Hush(s, E)
    <3>2. /\ Good(h) /\ h \in Runtimes /\ Keeps(s, h) /\ h.deferred = s.deferred
          /\ \A m \in NPC : s.own[m] # "AI_CONVERSATION" => h.own[m] = s.own[m]
      BY <1>3, HushKeeps
    <3> HIDE DEF h
    <3>3. Same(h, u) /\ u \in Runtimes /\ u.failed /\ Good(u)
      BY <3>1, <3>2, FailSame, FailGood DEF h
    <3> QED BY <1>0, <3>2, <3>3, KeepsBetween DEF Same
  <2> QED BY <1>2, <2>1, <2>2
<1>5. CASE t = u \/ t \in Recorded(u)
  <2>1. Same(u, t) /\ (~t.failed => ~u.failed)
    BY <1>4, <1>5, RecordedSame DEF Same
  <2> QED BY <1>0, <1>4, <2>1, KeepsBetween
<1>6. CASE ~u.failed /\ u.own[n] # "AI_CONVERSATION" /\ t \in Move(u, n, TalkTarget(u.own[n]))
  <2>1. CASE TalkTarget(u.own[n]) = NoMove
    <3>1. t = u
      BY <1>6, <2>1 DEF Move
    <3> QED BY <1>4, <3>1
  <2>2. CASE TalkTarget(u.own[n]) = "AI_CONVERSATION"
    <3>1. /\ t.own = [u.own EXCEPT ![n] = "AI_CONVERSATION"] /\ t.prev = u.prev
          /\ t.deferred = u.deferred
      BY <1>4, <1>6, <2>2, PlainMove DEF OwnStates
    <3>2. \A m \in NPC : t.own[m] = IF m = n THEN "AI_CONVERSATION" ELSE u.own[m]
      BY <1>4, <3>1, Fields
    <3>3. Neat(t)
      BY <1>4, <3>1, <3>2, ChangeNeat DEF Gone, Keeps
    <3>4. u = Hush(s, Excess(s, n))
      BY <1>2, <1>3, <1>6, FailSame
    <3>5. Conversations(t) = (Partners(s, n) \ Excess(s, n)) \cup {n}
      <4>1. \A m \in NPC : u.own[m] = IF m \in Excess(s, n) /\ s.own[m] = "AI_CONVERSATION"
                                      THEN "AI_ACTIVE" ELSE s.own[m]
        BY <3>4, HushKeeps
      <4>2. \A m \in NPC \ {n} : t.own[m] = "AI_CONVERSATION" <=>
                                   m \in Partners(s, n) \ Excess(s, n)
        BY <3>2, <4>1 DEF Partners
      <4>3. n \notin Partners(s, n) /\ Partners(s, n) \subseteq NPC
        BY DEF Partners
      <4> QED BY <3>2, <4>2, <4>3 DEF Conversations
    <3>6. Roomy(s, t)
      <4> DEFINE K == Partners(s, n) \ Excess(s, n)
      <4>1. IsFiniteSet(K)
        <5>1. K \in SUBSET NPC
          BY DEF Partners
        <5> QED BY <5>1, FiniteNPC, FS_Subset
      <4>2. K = {} \/ Cardinality(K) + 1 <= MaxConversations
        BY <1>0, KeptFit
      <4>3. Conversations(t) = K \cup {n}
        BY <3>5
      <4> HIDE DEF K
      <4>4. CASE K = {}
        <5>1. Conversations(t) = {n}
          BY <4>3, <4>4
        <5> QED BY <5>1, FS_Singleton DEF Roomy
      <4>5. CASE Cardinality(K) + 1 <= MaxConversations
        <5>1. Conversations(t) \subseteq K \cup {n}
          BY <4>3
        <5>2. IsFiniteSet(Conversations(t)) /\ Cardinality(Conversations(t)) <= Cardinality(K) + 1
          BY <4>1, <5>1, OneMore
        <5>3. Cardinality(K) \in Nat /\ Cardinality(Conversations(t)) \in Nat
          BY <4>1, <5>2, FS_CardinalityType
        <5> QED BY <4>5, <5>2, <5>3, ConfigAssumption DEF Roomy
      <4> QED BY <4>2, <4>4, <4>5
    <3>7. \A m \in NPC : t.own[m] \in {"AI_CONVERSATION", u.own[m]}
      BY <3>2
    <3>8. Capped(s, t) /\ InOrder(s, t)
      <4>1. \A m \in NPC : ~(s.own[m] = "AWARE" /\ t.own[m] = "AI_ACTIVE")
        BY <1>4, <3>7
      <4>2. \A j \in DOMAIN s.deferred : s.deferred[j] \in NPC
        BY <1>0, Fields
      <4> QED BY <4>1, <4>2 DEF Capped, InOrder
    <3>9. Filled(s, t)
      <4>1. \A m \in NPC : s.own[m] \in {"AWARE"} \cup SlotStates => u.own[m] # "ROCKSTAR"
        BY <3>4, HushKeeps DEF Calm
      <4> QED BY <3>7, <4>1 DEF Filled
    <3> QED BY <3>3, <3>6, <3>8, <3>9 DEF Keeps, Fair
  <2> QED BY <2>1, <2>2 DEF TalkTarget
<1> QED BY <1>1, <1>5, <1>6

-----------------------------------------------------------------------------
(* The handlers.                                                           *)

\* One ped of a scan (handleQuestDialoguePed, handlePedScan).
LEMMA ScanPedKeeps ==
  ASSUME NEW s, Good(s), Silent(s), Neat(s), NEW n \in NPC, NEW band \in Bands,
         NEW eligible \in BOOLEAN, NEW quest \in BOOLEAN,
         NEW t \in ScanPed(s, n, band, eligible, quest)
  PROVE  Keeps(s, t)
<1> DEFINE q == [s EXCEPT !.overlay[n] = TRUE]
<1>0. s \in Runtimes /\ s.own[n] \in OwnStates /\ s.overlay \in [NPC -> BOOLEAN]
  BY Fields DEF Good, Sound
<1>1. /\ q \in Runtimes /\ q.own = s.own /\ q.prev = s.prev /\ q.said = {} /\ q.acted = {}
      /\ q.overlay = [s.overlay EXCEPT ![n] = TRUE] /\ q.deferred = s.deferred
  BY <1>0 DEF Silent, Runtimes
<1> HIDE DEF q
<1>2. Good(q) /\ Silent(q) /\ Same(s, q) /\ Neat(q)
  BY <1>0, <1>1, SameNeat DEF Good, Sound, Covered, Remembers, Commanded, Silent, Same
<1>3. CASE t = q
  BY <1>0, <1>2, <1>3, SameKeeps
<1>4. CASE \E to \in {ReleaseTarget(s.own[n]), QuestTarget(s.own[n])} : t \in Move(q, n, to)
  <2>1. PICK to \in {ReleaseTarget(s.own[n]), QuestTarget(s.own[n])} : t \in Move(q, n, to)
    BY <1>4
  <2>2. to \in {"RELEASE", "QUEST_DIALOGUE", NoMove}
    BY <2>1 DEF ReleaseTarget, QuestTarget
  <2>3. Keeps(q, t)
    BY <1>2, <2>1, <2>2, MoveKeeps DEF OwnStates, SlotStates
  <2> QED BY <1>2, <2>3, KeepsBetween DEF Same
<1>5. CASE \E to \in {ReleaseTarget(s.own[n]), ScanTarget(s.own[n], band, eligible, FALSE)} :
             t \in Move(s, n, to)
  <2>1. PICK to \in {ReleaseTarget(s.own[n]), ScanTarget(s.own[n], band, eligible, FALSE)} :
          t \in Move(s, n, to)
    BY <1>5
  <2>2. /\ to \in {"RELEASE", "CANDIDATE", "ROCKSTAR", "AWARE", NoMove}
        /\ to = "CANDIDATE" => s.own[n] \in {"ROCKSTAR", "RELEASE"}
        /\ to = "ROCKSTAR" => s.own[n] \in {"CANDIDATE", "RELEASE"}
    BY <2>1 DEF ReleaseTarget, ScanTarget
  <2> QED BY <2>1, <2>2, MoveKeeps DEF OwnStates, SlotStates
<1> QED BY <1>3, <1>4, <1>5 DEF ScanPed, Bands, q

\* What an event does to the NPC it names (reactToEvent).
LEMMA ReactKeeps ==
  ASSUME NEW s, Good(s), Silent(s), Neat(s), NEW n \in NPC, NEW kind, NEW t \in React(s, n, kind),
         kind \in {"spoke", "threat", "approach", "failure", "hush", "fact"}
  PROVE  Keeps(s, t)
<1>0. s \in Runtimes /\ Same(s, s)
  BY DEF Good, Sound, Same
<1>1. CASE kind = "spoke"
  <2>1. PICK u \in Converse(s, n, FALSE) : t \in Reason(u, n)
    BY <1>1 DEF React
  <2>2. Good(u) /\ Keeps(s, u)
    BY <2>1, ConverseGood, ConverseKeeps
  <2> QED BY <1>0, <2>1, <2>2, ReasonSame, KeepsBetween
<1>2. CASE t \in MakeMeaningful(s, n)
  BY <1>2, MakeMeaningfulKeeps
<1>3. CASE t \in Reason(s, n) \/ t = s
  BY <1>0, <1>3, ReasonSame, SameKeeps
<1>4. CASE t = Hush(s, {n})
  BY <1>4, HushKeeps
<1>5. kind # "spoke" => \/ t \in MakeMeaningful(s, n) \/ t \in Reason(s, n) \/ t = s
                       \/ t = Hush(s, {n})
  BY DEF React
<1> QED BY <1>1, <1>2, <1>3, <1>4, <1>5

-----------------------------------------------------------------------------
(* The steps.                                                              *)

SInv == IInv /\ Neat(rt)

\* The start of a handler has the queue and the states of the state before it.
LEMMA FreshNeat ==
  ASSUME SInv
  PROVE  /\ Good(Fresh) /\ Silent(Fresh) /\ Neat(Fresh) /\ Same(rt, Fresh) /\ ~Fresh.failed
         /\ Fresh \in Runtimes
<1>1. Good(rt) /\ rt \in Runtimes
  BY DEF SInv, IInv, Good, Sound
<1>2. Same(rt, Fresh)
  BY <1>1 DEF Same, Fresh, Runtimes
<1> QED BY <1>1, <1>2, FreshGood, SameNeat DEF SInv, Good, Sound

\* A new runtime defers nobody (NewRuntime).
LEMMA NeatInit == Init => Neat(rt)
  BY DEF Init, Neat, Distinct, Entries

\* A message whose handler keeps the scheduler in order does.
LEMMA HandleKeeps ==
  ASSUME SInv, NEW kind, NEW S, Handle(kind, S), \A t \in S : Keeps(Fresh, t)
  PROVE  Keeps(rt, rt')
<1>1. Keeps(Fresh, rt')
  BY DEF Handle
<1> QED BY <1>1, FreshNeat, KeepsBetween DEF Same

\* Every message handler (HandleMessage).
LEMMA MessageKeeps ==
  ASSUME SInv, Message
  PROVE  Keeps(rt, rt')
<1> USE FreshNeat
<1>0. Same(Fresh, Fresh)
  BY DEF Same
<1>1. PICK n \in NPC :
        \/ PedScan(n) \/ WorldUpdate(n) \/ ActionResult(n)
        \/ PushToTalkStart(n) \/ PushToTalkStop(n)
        \/ \E kind \in {"spoke", "threat", "approach", "failure", "hush", "fact"} : GameEvent(n, kind)
  BY DEF Message
<1>2. CASE PedScan(n)
  <2>1. PICK band \in Bands, eligible \in BOOLEAN, quest \in BOOLEAN :
          Handle(IF quest THEN "quest" ELSE "scan",
                 UNION {IdleThinking(t) : t \in ScanPed(Fresh, n, band, eligible, quest)})
    BY <1>2 DEF PedScan
  <2>2. ASSUME NEW t \in ScanPed(Fresh, n, band, eligible, quest), NEW u \in IdleThinking(t)
        PROVE  Keeps(Fresh, u)
    <3>1. Good(t) /\ Keeps(Fresh, t)
      BY ScanPedGood, ScanPedKeeps
    <3> QED BY <1>0, <3>1, IdleThinkingSame, KeepsBetween
  <2> QED BY <2>1, <2>2, HandleKeeps
<1>3. CASE WorldUpdate(n)
  <2> DEFINE to == ScanTarget(rt.own[n], "far", TRUE, FALSE)
             S(far) == UNION {IdleThinking(t) : t \in IF far THEN Move(Fresh, n, to) ELSE {Fresh}}
  <2>1. PICK far \in BOOLEAN : Handle("world", S(far))
    BY <1>3 DEF WorldUpdate
  <2>2. /\ to \in {"RELEASE", "ROCKSTAR", NoMove}
        /\ to = "ROCKSTAR" => Fresh.own[n] \in {"CANDIDATE", "RELEASE"}
    BY DEF ScanTarget, ScanReleases, Same
  <2> HIDE DEF to
  <2>3. ASSUME NEW t \in IF far THEN Move(Fresh, n, to) ELSE {Fresh}, NEW u \in IdleThinking(t)
        PROVE  Keeps(Fresh, u)
    <3>1. CASE t = Fresh
      BY <1>0, <3>1, IdleThinkingSame, SameKeeps
    <3>2. CASE t \in Move(Fresh, n, to)
      <4>1. Keeps(Fresh, t)
        BY <2>2, <3>2, MoveKeeps DEF OwnStates, SlotStates
      <4>2. Good(t)
        BY <2>2, <3>2, MoveGood DEF OwnStates
      <4> QED BY <1>0, <4>1, <4>2, IdleThinkingSame, KeepsBetween
    <3> QED BY <2>3, <3>1, <3>2
  <2>4. \A u \in S(far) : Keeps(Fresh, u)
    BY <2>3
  <2> HIDE DEF S
  <2> QED BY <2>1, <2>4, HandleKeeps
<1>4. CASE ActionResult(n)
  <2>1. PICK known \in BOOLEAN, failure \in BOOLEAN :
          LET r == IF known THEN [Fresh EXCEPT !.pending[n] = @ - 1] ELSE Fresh
          IN  /\ known => rt.pending[n] > 0
              /\ Handle("result", UNION {IF failure THEN Reason(t, n) ELSE {t} : t \in Recorded(r)})
    BY <1>4 DEF ActionResult
  <2> DEFINE r == IF known THEN [Fresh EXCEPT !.pending[n] = @ - 1] ELSE Fresh
  <2>2. Good(r) /\ r \in Runtimes /\ Same(Fresh, r)
    <3>1. CASE known
      <4>1. Fresh.pending \in [NPC -> 0..MaxPending] /\ Fresh.pending[n] > 0
        BY <2>1, <3>1, Fields DEF Fresh, SInv, IInv, Good, Sound, Runtimes
      <4>2. [Fresh.pending EXCEPT ![n] = @ - 1] \in [NPC -> 0..MaxPending]
        BY <4>1, ConfigAssumption
      <4> QED BY <3>1, <4>1, <4>2 DEF Good, Sound, Covered, Remembers, Commanded, Runtimes, Same
    <3>2. CASE ~known
      BY <1>0, <3>2
    <3> QED BY <3>1, <3>2
  <2> HIDE DEF r
  <2>3. ASSUME NEW t \in Recorded(r), NEW u \in IF failure THEN Reason(t, n) ELSE {t}
        PROVE  Keeps(Fresh, u)
    <3>1. Good(t) /\ Same(r, t)
      BY <2>2, RecordedGood, RecordedSame
    <3>2. Same(t, u)
      BY <2>3, <3>1, ReasonSame DEF Same
    <3>3. Same(Fresh, u)
      BY <2>2, <3>1, <3>2 DEF Same
    <3> QED BY <3>3, SameKeeps
  <2>4. Handle("result", UNION {IF failure THEN Reason(t, n) ELSE {t} : t \in Recorded(r)})
    BY <2>1 DEF r
  <2> QED BY <2>3, <2>4, HandleKeeps
<1>5. CASE PushToTalkStart(n)
  BY <1>5, ConverseKeeps, HandleKeeps DEF PushToTalkStart
<1>6. CASE PushToTalkStop(n)
  <2>1. ASSUME NEW t \in Recorded(Hush(Fresh, {n}))
        PROVE  Keeps(Fresh, t)
    <3>1. Keeps(Fresh, Hush(Fresh, {n})) /\ Hush(Fresh, {n}) \in Runtimes
          /\ ~Hush(Fresh, {n}).failed
      BY HushKeeps, HushGood DEF Good, Sound
    <3> QED BY <1>0, <3>1, RecordedSame, KeepsBetween
  <2> QED BY <1>6, <2>1, HandleKeeps DEF PushToTalkStop
<1>7. ASSUME NEW kind \in {"spoke", "threat", "approach", "failure", "hush", "fact"},
             GameEvent(n, kind)
      PROVE  Keeps(rt, rt')
  <2>1. ASSUME NEW t \in Recorded(Fresh), NEW u \in IF t.failed THEN {t} ELSE React(t, n, kind)
        PROVE  Keeps(Fresh, u)
    <3>1. Good(t) /\ Silent(t) /\ Same(Fresh, t) /\ Neat(t)
      BY RecordedGood, RecordedSame, SameNeat
    <3>2. CASE u = t
      BY <3>1, <3>2, SameKeeps
    <3>3. CASE u \in React(t, n, kind)
      <4>1. Keeps(t, u)
        BY <3>1, <3>3, ReactKeeps
      <4> QED BY <3>1, <4>1, KeepsBetween DEF Same
    <3> QED BY <2>1, <3>2, <3>3
  <2> QED BY <1>7, <2>1, HandleKeeps DEF GameEvent
<1> QED BY <1>1, <1>2, <1>3, <1>4, <1>5, <1>6, <1>7

\* Story safety freezes and thaws queued NPCs in place (handleStorySafety).
LEMMA SafetyKeeps ==
  ASSUME SInv, Safety
  PROVE  Keeps(rt, rt')
<1>1. PICK active \in BOOLEAN, T \in {NPC} \cup {{n} : n \in NPC} : StorySafety(T, active)
  BY DEF Safety
<1> DEFINE Turn(U) == IF active THEN Freeze(Fresh, U) ELSE Thaw(Fresh, U)
           S == {Turn(T)} \cup (IF AppendMayFail
                  THEN {Fail(Turn(UpTo(T, m))) : m \in {n \in T : Turn(UpTo(T, n)).own[n] # rt.own[n]}}
                  ELSE {})
<1>2. Handle("safety", S)
  BY <1>1 DEF StorySafety
<1>3. ASSUME NEW U
      PROVE  Keeps(Fresh, Turn(U)) /\ Turn(U) \in Runtimes
  BY FreshNeat, FreezeKeeps, ThawKeeps
<1> HIDE DEF Turn
<1>4. ASSUME NEW t \in S
      PROVE  Keeps(Fresh, t)
  <2>1. PICK U : t = Turn(U) \/ t = Fail(Turn(U))
    BY <1>4
  <2>2. Keeps(Fresh, Turn(U)) /\ Turn(U) \in Runtimes
    BY <1>3
  <2> QED BY <2>1, <2>2, FailSame, KeepsBetween DEF Same
<1> HIDE DEF S
<1> QED BY <1>2, <1>4, HandleKeeps

\* One more NPC is released, and its slot filled (ReleaseAll).
LEMMA ReleaseNextKeeps ==
  ASSUME SInv, ReleaseNext
  PROVE  Keeps(rt, rt')
<1> DEFINE n == SeenOrder[swept + 1]
<1>1. n \in NPC
  BY ConfigAssumption DEF SInv, IInv
<1> HIDE DEF n
<1>2. rt' = Fresh \/ rt' \in Move(Fresh, n, ReleaseTarget(rt.own[n]))
  BY DEF ReleaseNext, n
<1>3. Keeps(Fresh, rt')
  <2>1. ReleaseTarget(rt.own[n]) \in {"RELEASE", NoMove}
    BY DEF ReleaseTarget
  <2>2. CASE rt' = Fresh
    BY <2>2, FreshNeat, SameKeeps DEF Same
  <2>3. CASE rt' \in Move(Fresh, n, ReleaseTarget(rt.own[n]))
    BY <1>1, <2>1, <2>3, FreshNeat, MoveKeeps DEF OwnStates, SlotStates
  <2> QED BY <1>2, <2>2, <2>3
<1> QED BY <1>3, FreshNeat, KeepsBetween DEF Same

\* The host's tick promotes into slots that are free (Tick).
LEMMA TickKeeps ==
  ASSUME SInv, Tick
  PROVE  Keeps(rt, rt')
<1>0. rt \in Runtimes
  BY DEF SInv, IInv, Good, Sound
<1>1. PICK t \in IdleThinking(Fresh) : \E u \in PromoteNextDeferred(Unfailed(t)) : rt' = Unfailed(u)
  BY DEF Tick
<1>2. PICK u \in PromoteNextDeferred(Unfailed(t)) : rt' = Unfailed(u)
  BY <1>1
<1>3. ASSUME NEW s, Good(s)
      PROVE  Good(Unfailed(s)) /\ Same(s, Unfailed(s))
  BY <1>3 DEF Unfailed, Good, Sound, Covered, Remembers, Commanded, Runtimes, Same
<1> DEFINE d == Unfailed(t)
<1>4. Good(t) /\ Same(Fresh, t)
  BY FreshNeat, IdleThinkingGood, IdleThinkingSame
<1>5. Good(d) /\ Same(rt, d)
  BY <1>3, <1>4, FreshNeat DEF Same
<1> HIDE DEF d
<1>6. d \in Runtimes /\ Neat(d)
  BY <1>5, SameNeat DEF SInv, Good, Sound
<1>7. Good(u) /\ Promotes(d, u)
  BY <1>2, <1>5, PromoteNextDeferredGood DEF d
<1>8. PICK k \in 0..Len(d.deferred) : Popped(d, u, k)
  BY <1>2, <1>5, PromotePops DEF d
<1>9. Freed(d, d)
  BY <1>6 DEF Freed, Ordered, Neat
<1>10. Neat(u) /\ Fair(d, u)
  BY <1>6, <1>8, <1>9, PopNeat, PopFair
<1>11. Same(u, rt')
  BY <1>2, <1>3, <1>7
<1>12. Filled(rt, rt')
  BY <1>5, <1>7, <1>11 DEF Filled, Promotes, Same, SlotStates
<1>13. Capped(rt, rt') /\ InOrder(rt, rt') /\ Roomy(rt, rt')
  <2>1. /\ d.own = rt.own /\ d.deferred = rt.deferred
        /\ rt'.own = u.own /\ rt'.deferred = u.deferred
    BY <1>5, <1>11 DEF Same
  <2>2. Active(rt') = Active(u) /\ Conversations(rt') = Conversations(u)
    BY <2>1 DEF Active, Conversations
  <2> QED BY <1>10, <2>1, <2>2 DEF Fair, Capped, InOrder, Roomy, Starts
<1> QED BY <1>10, <1>11, <1>12, <1>13, SameNeat DEF Keeps, Fair

\* Every step of the runtime.
LEMMA NextKeeps ==
  ASSUME SInv, [Next]_vars
  PROVE  Neat(rt') /\ (Next => Fair(rt, rt'))
<1>1. CASE UNCHANGED vars
  <2>1. Same(rt, rt')
    BY <1>1 DEF vars, Same
  <2> QED BY <2>1, SameKeeps DEF SInv, IInv, Good, Sound, Keeps
<1>2. CASE Message
  BY <1>2, MessageKeeps DEF Keeps
<1>3. CASE Safety
  BY <1>3, SafetyKeeps DEF Keeps
<1>4. CASE Connect \/ Disconnect
  <2>1. Same(rt, rt')
    BY <1>4, FreshNeat DEF Connect, Disconnect
  <2> QED BY <2>1, SameKeeps DEF SInv, IInv, Good, Sound, Keeps
<1>5. CASE ReleaseNext
  BY <1>5, ReleaseNextKeeps DEF Keeps
<1>6. CASE Tick
  BY <1>6, TickKeeps DEF Keeps
<1> QED BY <1>1, <1>2, <1>3, <1>4, <1>5, <1>6 DEF Next

\* The invariant holds in every reachable state.
LEMMA SchedulerInvariance == Spec => []SInv
<1>1. Init => SInv
  BY IInvInit, NeatInit DEF SInv
<1>2. SInv /\ [Next]_vars => SInv'
  <2> SUFFICES ASSUME SInv, [Next]_vars
               PROVE  SInv'
    OBVIOUS
  <2>1. IInv'
    BY IInvStep DEF SInv
  <2>2. Neat(rt')
    BY NextKeeps
  <2>3. (Neat(rt))'
    BY <2>2 DEF Neat, Distinct, Entries
  <2> QED BY <2>1, <2>3 DEF SInv
<1> QED BY <1>1, <1>2, PTL DEF Spec

\* Every step is fair to the queue and the caps.
LEMMA SchedulerSteps == Spec => [][Fair(rt, rt')]_vars
<1>1. SInv /\ [Next]_vars => [Fair(rt, rt')]_vars
  BY NextKeeps
<1> QED BY SchedulerInvariance, <1>1, PTL DEF Spec

-----------------------------------------------------------------------------
(* The theorems.                                                           *)

\* The deferred queue never names an NPC twice or one the runtime let go of,
\* whatever is released, frozen or promoted while it waits (setDeferred,
\* removeDeferred, promoteNextDeferred).
THEOREM QueueStaysSound == Spec => []QueueSound
<1>1. SInv => QueueSound
  BY DEF SInv, Neat, Distinct, Entries, Queued, QueueSound, Gone
<1> QED BY SchedulerInvariance, <1>1, PTL

\* With a timeline that can be written no handler leaves an NPC half-way through a
\* hand-off (recordTransition).
THEOREM HandOffsComplete == Spec => []ReleaseIsTransient
<1>1. SInv => ReleaseIsTransient
  BY DEF SInv, Neat, ReleaseIsTransient
<1> QED BY SchedulerInvariance, <1>1, PTL

\* No activation, by an event or off the queue and however many at once, exceeds
\* max_reasoning_agents (makeMeaningful, promoteNextDeferred).
THEOREM PromotionsAreCapped == Spec => PromotionRespectsCap
<1>1. [Fair(rt, rt')]_vars =>
        [(\E n \in NPC : rt.own[n] = "AWARE" /\ rt'.own[n] = "AI_ACTIVE")
           => Cardinality(Active(rt')) <= MaxAgents]_vars
  BY DEF Fair, Capped
<1> QED BY SchedulerSteps, <1>1, PTL DEF PromotionRespectsCap

\* Nobody is activated off the queue ahead of somebody who stays in it, also when
\* an NPC in between is released in the same step (promoteNextDeferred).
THEOREM PromotionIsFifo == Spec => FifoPromotion
<1>1. [Fair(rt, rt')]_vars =>
        [\A i, j \in DOMAIN rt.deferred :
           LET later == rt.deferred[j]
           IN  /\ i < j
               /\ rt.own[later] = "AWARE" /\ rt'.own[later] = "AI_ACTIVE"
               /\ later \notin Queued(rt')
               => rt.deferred[i] \notin Queued(rt')]_vars
  BY DEF Fair, InOrder, Queued, Entries
<1> QED BY SchedulerSteps, <1>1, PTL DEF FifoPromotion

\* A release that goes through leaves no NPC waiting beside a free slot
\* (recordTransition, promoteNextDeferred).
THEOREM ReleasesFillSlots == Spec => ReleaseFillsSlots
<1>1. [Fair(rt, rt')]_vars =>
        [(/\ \E n \in NPC : rt.own[n] \in {"AWARE"} \cup SlotStates /\ rt'.own[n] = "ROCKSTAR"
          /\ ~rt'.failed)
           => \/ ~CanPromote(rt')
              \/ \A n \in Queued(rt') : rt'.own[n] # "AWARE"]_vars
  BY DEF Fair, Filled, Queued, Entries
<1> QED BY SchedulerSteps, <1>1, PTL DEF ReleaseFillsSlots

\* A conversation that starts ends enough others to stay within
\* max_conversation_agents (ensureSingleConversation).
THEOREM StartsFitTheCap == Spec => StartRespectsConversationCap
<1>1. [Fair(rt, rt')]_vars =>
        [(\E n \in NPC : /\ rt.own[n] \notin {"AI_CONVERSATION", "SUSPENDED"}
                         /\ rt'.own[n] = "AI_CONVERSATION")
           => \/ Cardinality(Conversations(rt')) <= MaxConversations
              \/ Cardinality(Conversations(rt')) = 1]_vars
  BY DEF Fair, Roomy, Starts
<1> QED BY SchedulerSteps, <1>1, PTL DEF StartRespectsConversationCap

=============================================================================
