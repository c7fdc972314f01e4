-------------------------- MODULE OwnershipProofs ---------------------------
(***************************************************************************)
(* Theorems about the ownership manager, for any set of NPCs.              *)
(***************************************************************************)
EXTENDS Ownership, TLAPS

\* A transition that is neither a freeze nor a thaw keeps the lease or grants
\* one the promise allows, and its target is an ordinary state.
Lawful(from, to) ==
  /\ to \in OwnStates \ {"SUSPENDED"}
  /\ \/ LeaseOf(to) = LeaseOf(from)
     \/ LeaseOf(to) \in Lease!Grants[LeaseOf(from)]

\* The switch of UpdateFromScan is lawful whatever the scan says.
LEMMA ScanLawful ==
  ASSUME NEW s \in OwnStates, NEW band \in Bands, NEW eligible \in BOOLEAN,
         NEW trigger \in BOOLEAN, ScanTarget(s, band, eligible, trigger) # NoMove
  PROVE  Lawful(s, ScanTarget(s, band, eligible, trigger))
<1> DEFINE t == ScanTarget(s, band, eligible, trigger)
<1>1. CASE ScanReleases(s, band, eligible)
  <2>1. t = "RELEASE"
    BY <1>1 DEF ScanTarget, ScanReleases, OwnStates, Bands
  <2> QED BY <2>1, <1>1 DEF Lawful, LeaseOf, Lease!Grants, OwnStates, NoState, ScanReleases
<1>2. CASE ~ScanReleases(s, band, eligible)
  <2>1. s \in {"ROCKSTAR", "CANDIDATE", "AWARE", "RELEASE"} /\ t \in OwnStates
    BY <1>2 DEF ScanTarget, ScanReleases, OwnStates, NoMove, Bands
  <2>2. /\ s = "ROCKSTAR"  => t = "CANDIDATE"
        /\ s = "CANDIDATE" => t \in {"AWARE", "ROCKSTAR"}
        /\ s = "AWARE"     => t = "AI_ACTIVE"
        /\ s = "RELEASE"   => t \in {"CANDIDATE", "ROCKSTAR"}
    BY <1>2 DEF ScanTarget, ScanReleases, OwnStates, NoMove, Bands
  <2> QED BY <2>1, <2>2 DEF Lawful, LeaseOf, Lease!Grants, OwnStates, NoState
<1> QED BY <1>1, <1>2

\* So are the other transitions.
LEMMA TargetsLawful ==
  ASSUME NEW s \in OwnStates
  PROVE  \A t \in {QuestTarget(s), TalkTarget(s), HushTarget(s), ReleaseTarget(s),
                   FinalizeTarget(s)} : t # NoMove => Lawful(s, t)
  BY DEF QuestTarget, TalkTarget, HushTarget, ReleaseTarget, FinalizeTarget, Lawful, LeaseOf,
         Lease!Grants, OwnStates, NoState, NoMove

-----------------------------------------------------------------------------
(* Every step is a lawful transition, a freeze or a thaw of one NPC.       *)

LawfulStep(n) == \E t \in OwnStates : Lawful(state[n], t) /\ Transition(n, t)

\* The methods other than Suspend and Resume only make lawful transitions.
LEMMA StepCases ==
  ASSUME TypeOK, Next
  PROVE  \E n \in NPC : LawfulStep(n) \/ Suspend(n) \/ Resume(n)
<1>1. PICK n \in NPC : \/ UpdateFromScan(n) \/ EnterQuestDialogue(n)
                      \/ PushToTalk(n)     \/ ConversationEnded(n)
                      \/ RequestRelease(n) \/ FinalizeRelease(n)
                      \/ Suspend(n)        \/ Resume(n)
  BY DEF Next
<1>2. state[n] \in OwnStates
  BY DEF TypeOK
<1>3. CASE UpdateFromScan(n)
  <2>1. PICK band \in Bands, eligible \in BOOLEAN, trigger \in BOOLEAN :
          Transition(n, ScanTarget(state[n], band, eligible, trigger))
    BY <1>3 DEF UpdateFromScan
  <2>2. Lawful(state[n], ScanTarget(state[n], band, eligible, trigger))
    BY <1>2, <2>1, ScanLawful DEF Transition
  <2> QED BY <2>1, <2>2 DEF LawfulStep, Lawful
<1>4. CASE \/ EnterQuestDialogue(n) \/ PushToTalk(n) \/ ConversationEnded(n)
           \/ RequestRelease(n) \/ FinalizeRelease(n)
  <2>1. PICK t \in {QuestTarget(state[n]), TalkTarget(state[n]), HushTarget(state[n]),
                    ReleaseTarget(state[n]), FinalizeTarget(state[n])} : Transition(n, t)
    BY <1>4 DEF EnterQuestDialogue, PushToTalk, ConversationEnded, RequestRelease, FinalizeRelease
  <2>2. Lawful(state[n], t)
    BY <1>2, <2>1, TargetsLawful DEF Transition
  <2> QED BY <2>1, <2>2 DEF LawfulStep, Lawful
<1> QED BY <1>1, <1>3, <1>4

\* The inductive invariant: what Suspend stores is never the freeze itself.
IInv == TypeOK /\ SuspendedRemembers

\* A new manager remembers nothing and has frozen nobody (NewManager).
LEMMA IInvInit == Init => IInv
  BY DEF Init, IInv, TypeOK, SuspendedRemembers, OwnStates, NoState

\* A thaw goes to the stored state, or to AWARE from the middle of a release.
LEMMA ThawTarget ==
  ASSUME IInv, NEW n \in NPC, Resume(n)
  PROVE  /\ state[n] = "SUSPENDED"
         /\ previous[n] \in OwnStates \ {"ROCKSTAR", "SUSPENDED"}
         /\ ResumeTarget(state[n], previous[n]) =
              IF previous[n] = "RELEASE" THEN "AWARE" ELSE previous[n]
  BY DEF Resume, ResumeTarget, IInv, TypeOK, SuspendedRemembers, OwnStates, NoState, NoMove

\* Every method keeps the types and the memory of a freeze.
LEMMA IInvStep == IInv /\ [Next]_vars => IInv'
<1> SUFFICES ASSUME IInv, [Next]_vars
             PROVE  IInv'
  OBVIOUS
<1>1. CASE Next
  <2>1. PICK n \in NPC : LawfulStep(n) \/ Suspend(n) \/ Resume(n)
    BY <1>1, StepCases DEF IInv
  <2>2. CASE LawfulStep(n)
    BY <2>2 DEF LawfulStep, Lawful, Transition, IInv, TypeOK, SuspendedRemembers
  <2>3. CASE Suspend(n)
    BY <2>3 DEF Suspend, SuspendTarget, IInv, TypeOK, SuspendedRemembers, OwnStates, NoState, NoMove
  <2>4. CASE Resume(n)
    <3>1. /\ state' = [state EXCEPT ![n] = IF previous[n] = "RELEASE" THEN "AWARE" ELSE previous[n]]
          /\ previous' = [previous EXCEPT ![n] = NoState]
          /\ previous[n] \in OwnStates \ {"ROCKSTAR", "SUSPENDED"}
      BY <2>4, ThawTarget DEF Resume
    <3> QED BY <3>1 DEF IInv, TypeOK, SuspendedRemembers, OwnStates
  <2> QED BY <2>1, <2>2, <2>3, <2>4
<1>2. CASE UNCHANGED vars
  BY <1>2 DEF vars, IInv, TypeOK, SuspendedRemembers
<1> QED BY <1>1, <1>2

\* The manager's records always hold a state of the machine (Record.State,
\* Record.PreviousState).
THEOREM TypeCorrect == Spec => []TypeOK
<1>1. IInv => TypeOK
  BY DEF IInv
<1> QED BY IInvInit, IInvStep, <1>1, PTL DEF Spec

\* A frozen record always holds a state that Resume can restore.
THEOREM FrozenRemembers == Spec => []SuspendedRemembers
<1>1. IInv => SuspendedRemembers
  BY DEF IInv
<1> QED BY IInvInit, IInvStep, <1>1, PTL DEF Spec

-----------------------------------------------------------------------------
(* The manager implements NpcLease.                                        *)

lease == [n \in NPC |-> LeaseOf(state[n])]
kept  == [n \in NPC |-> LeaseOf(previous[n])]

\* A new manager has lent nothing.
LEMMA LeaseInit == Init => Lease!Init
  BY DEF Init, Lease!Init, LeaseOf, NoState

\* Each kind of step maps to a step of the promise or to a stutter.
LEMMA LeaseStep == IInv /\ [Next]_vars => [Lease!Next]_(Lease!vars)
<1> SUFFICES ASSUME IInv, [Next]_vars
             PROVE  [Lease!Next]_(Lease!vars)
  OBVIOUS
<1>1. CASE Next
  <2>1. PICK n \in NPC : LawfulStep(n) \/ Suspend(n) \/ Resume(n)
    BY <1>1, StepCases DEF IInv
  <2>2. CASE LawfulStep(n)
    <3>1. PICK t \in OwnStates : Lawful(state[n], t) /\ Transition(n, t)
      BY <2>2 DEF LawfulStep
    <3>2. kept' = kept /\ lease' = [lease EXCEPT ![n] = LeaseOf(t)]
      BY <3>1 DEF Transition, kept, lease, IInv, TypeOK
    <3>3. CASE LeaseOf(t) = LeaseOf(state[n])
      <4>1. lease' = lease
        BY <3>2, <3>3 DEF lease
      <4> QED BY <3>2, <4>1 DEF Lease!vars, lease, kept
    <3>4. CASE LeaseOf(t) \in Lease!Grants[LeaseOf(state[n])]
      <4>1. Lease!Grant(n)
        BY <3>2, <3>4 DEF Lease!Grant, lease, kept
      <4> QED BY <4>1 DEF Lease!Next
    <3> QED BY <3>1, <3>3, <3>4 DEF Lawful
  <2>3. CASE Suspend(n)
    <3>1. /\ lease' = [lease EXCEPT ![n] = "frozen"]
          /\ kept'  = [kept EXCEPT ![n] = lease[n]]
          /\ lease[n] \notin {"none", "frozen"}
      BY <2>3 DEF Suspend, SuspendTarget, lease, kept, LeaseOf, IInv, TypeOK, OwnStates,
                  NoState, NoMove
    <3>2. Lease!Freeze(n)
      BY <3>1 DEF Lease!Freeze, lease, kept
    <3> QED BY <3>2 DEF Lease!Next
  <2>4. CASE Resume(n)
    <3> DEFINE t == IF previous[n] = "RELEASE" THEN "AWARE" ELSE previous[n]
    <3>1. /\ state' = [state EXCEPT ![n] = t]
          /\ previous' = [previous EXCEPT ![n] = NoState]
          /\ state[n] = "SUSPENDED"
          /\ previous[n] \in OwnStates \ {"ROCKSTAR", "SUSPENDED"}
      BY <2>4, ThawTarget DEF Resume
    <3>2. LeaseOf(t) = IF kept[n] \in {"watch", "voice", "body"} THEN kept[n] ELSE "watch"
      BY <3>1 DEF kept, LeaseOf, OwnStates, NoState
    <3>3. /\ lease' = [lease EXCEPT ![n] = LeaseOf(t)]
          /\ kept'  = [kept EXCEPT ![n] = LeaseOf(NoState)]
          /\ lease[n] = LeaseOf("SUSPENDED")
      BY <3>1 DEF lease, kept, IInv, TypeOK
    <3>4. LeaseOf(NoState) = "none" /\ LeaseOf("SUSPENDED") = "frozen"
      BY DEF LeaseOf, NoState
    <3>5. Lease!Thaw(n)
      BY <3>2, <3>3, <3>4 DEF Lease!Thaw, lease, kept
    <3> QED BY <3>5 DEF Lease!Next
  <2> QED BY <2>1, <2>2, <2>3, <2>4
<1>2. CASE UNCHANGED vars
  BY <1>2 DEF vars, Lease!vars
<1> QED BY <1>1, <1>2

\* The ownership manager keeps NpcLease's promise: the body of an NPC is only ever
\* lent step by step, and a thaw gives back what the freeze took.
THEOREM KeepsLease == Spec => LeaseSpec
<1>1. Spec => []IInv
  BY IInvInit, IInvStep, PTL DEF Spec
<1> QED BY <1>1, LeaseInit, LeaseStep, PTL DEF Spec, LeaseSpec, Lease!Spec
=============================================================================
