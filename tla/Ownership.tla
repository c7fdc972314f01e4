----------------------------- MODULE Ownership ------------------------------
(***************************************************************************)
(* The ownership manager of the Go runtime: one record per NPC, one action *)
(* per exported method that changes it.  The manager's own mutex makes     *)
(* every method atomic; any caller may call any method in any order, which *)
(* is the manager's contract and not yet the runtime's use of it.          *)
(***************************************************************************)
EXTENDS OwnershipRules

CONSTANT NPC

VARIABLES state,      \* Record.State of each NPC
          previous    \* Record.PreviousState of each NPC

vars == <<state, previous>>

TypeOK == /\ state    \in [NPC -> OwnStates]
          /\ previous \in [NPC -> OwnStates \cup {NoState}]

\* A record is created ROCKSTAR-owned on first sight.
Init == /\ state    = [n \in NPC |-> "ROCKSTAR"]
        /\ previous = [n \in NPC |-> NoState]

\* One non-nil transition of n that leaves PreviousState alone.
Transition(n, to) == /\ to # NoMove
                     /\ state' = [state EXCEPT ![n] = to]
                     /\ UNCHANGED previous

UpdateFromScan(n) ==
  \E band \in Bands, eligible \in BOOLEAN, trigger \in BOOLEAN :
    Transition(n, ScanTarget(state[n], band, eligible, trigger))

EnterQuestDialogue(n) == Transition(n, QuestTarget(state[n]))

PushToTalk(n) == Transition(n, TalkTarget(state[n]))

ConversationEnded(n) == Transition(n, HushTarget(state[n]))

RequestRelease(n) == Transition(n, ReleaseTarget(state[n]))

FinalizeRelease(n) == Transition(n, FinalizeTarget(state[n]))

Suspend(n) == /\ SuspendTarget(state[n]) # NoMove
              /\ previous' = [previous EXCEPT ![n] = state[n]]
              /\ state'    = [state EXCEPT ![n] = SuspendTarget(state[n])]

\* Seeded fault: Resume does not ask whether the NPC is suspended.
ResumeUnchecked(n) == /\ state'    = [state EXCEPT ![n] = previous[n]]
                      /\ previous' = [previous EXCEPT ![n] = NoState]

Resume(n) == /\ ResumeTarget(state[n], previous[n]) # NoMove
             /\ state'    = [state EXCEPT ![n] = ResumeTarget(state[n], previous[n])]
             /\ previous' = [previous EXCEPT ![n] = NoState]

Next == \E n \in NPC : \/ UpdateFromScan(n) \/ EnterQuestDialogue(n)
                       \/ PushToTalk(n)     \/ ConversationEnded(n)
                       \/ RequestRelease(n) \/ FinalizeRelease(n)
                       \/ Suspend(n)        \/ Resume(n)

Spec == Init /\ [][Next]_vars

-----------------------------------------------------------------------------
(* Properties.                                                             *)

\* What Suspend stores is something Resume can use: a record frozen while frozen,
\* or frozen from nothing, would thaw to a state its NPC was never in.
SuspendedRemembers ==
  \A n \in NPC : state[n] = "SUSPENDED" =>
                   previous[n] \notin {NoState, "ROCKSTAR", "SUSPENDED"}

\* What each ownership state gives the runtime.
LeaseOf(s) ==
  CASE s \in {"ROCKSTAR", NoState}           -> "none"
    [] s \in {"CANDIDATE", "AWARE"}          -> "watch"
    [] s = "QUEST_DIALOGUE"                  -> "voice"
    [] s \in {"AI_ACTIVE", "AI_CONVERSATION"} -> "body"
    [] s = "SUSPENDED"                       -> "frozen"
    [] s = "RELEASE"                         -> "handoff"

Lease == INSTANCE NpcLease WITH lease <- [n \in NPC |-> LeaseOf(state[n])],
                                kept  <- [n \in NPC |-> LeaseOf(previous[n])]

\* The manager keeps the promise of NpcLease: no sequence of its methods takes an
\* NPC's body except from one already watched or lent for dialogue, and a thaw
\* gives back exactly what the freeze took.
LeaseSpec == Lease!Spec

\* "a RELEASE target always reports NPC_RELEASED", a test's comment says.
ReleaseIsLogged ==
  [][\A n \in NPC : state[n] # "RELEASE" /\ state'[n] = "RELEASE"
                      => EventName(state[n], state'[n]) = "NPC_RELEASED"]_vars
=============================================================================
