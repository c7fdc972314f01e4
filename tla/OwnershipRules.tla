--------------------------- MODULE OwnershipRules ---------------------------
(***************************************************************************)
(* The ownership rules of one NPC: the pure part of the ownership manager  *)
(* (runtime-go/internal/state/ownership.go).  Each operator answers which  *)
(* state a manager call moves an NPC to, or NoMove when the call returns   *)
(* no transition.  Distances are abstracted to the three bands the rules   *)
(* tell apart: within aware_distance_m, within candidate_distance_m, and   *)
(* beyond both.                                                            *)
(***************************************************************************)

OwnStates == {"ROCKSTAR", "CANDIDATE", "AWARE", "AI_ACTIVE",
              "AI_CONVERSATION", "QUEST_DIALOGUE", "SUSPENDED", "RELEASE"}

\* The nil PreviousState of a record, and the nil transition of a call.
NoState == "none"
NoMove  == "none"

Bands == {"close", "near", "far"}

\* The states that occupy one of the scheduler's active-agent slots.
SlotStates == {"AI_ACTIVE", "AI_CONVERSATION"}

CanReason(s) == s \in {"AWARE", "AI_ACTIVE", "AI_CONVERSATION", "QUEST_DIALOGUE"}

CanSpeak(s) == s \in {"AI_ACTIVE", "AI_CONVERSATION", "QUEST_DIALOGUE"}

-----------------------------------------------------------------------------
(* The transitions.                                                        *)

\* The two checks that come before the switch of UpdateFromScan.
ScanReleases(s, band, eligible) ==
  /\ s \notin {"ROCKSTAR", "RELEASE", "SUSPENDED"}
  /\ ~eligible \/ (band = "far" /\ s # "CANDIDATE")

ScanTarget(s, band, eligible, trigger) ==
  LET nearby == eligible /\ band # "far"
  IN  CASE ScanReleases(s, band, eligible)                  -> "RELEASE"
        [] s \in {"ROCKSTAR", "RELEASE"} /\ nearby          -> "CANDIDATE"
        [] s = "RELEASE" /\ ~nearby                         -> "ROCKSTAR"
        [] s = "CANDIDATE" /\ eligible /\ band = "close"    -> "AWARE"
        [] s = "CANDIDATE" /\ eligible /\ band = "far"      -> "ROCKSTAR"
        [] s = "AWARE" /\ nearby /\ trigger                 -> "AI_ACTIVE"
        [] OTHER                                            -> NoMove

QuestTarget(s) ==
  IF s \in {"ROCKSTAR", "CANDIDATE", "AWARE", "AI_ACTIVE", "AI_CONVERSATION"}
  THEN "QUEST_DIALOGUE" ELSE NoMove

\* Seeded fault: push-to-talk also takes an NPC that is merely watched.
TalkTargetEager(s) ==
  IF s \in {"ROCKSTAR", "SUSPENDED", "RELEASE"} THEN NoMove ELSE "AI_CONVERSATION"

TalkTarget(s) ==
  IF s \in {"AWARE", "AI_ACTIVE", "AI_CONVERSATION", "QUEST_DIALOGUE"}
  THEN "AI_CONVERSATION" ELSE NoMove

HushTarget(s) == IF s = "AI_CONVERSATION" THEN "AI_ACTIVE" ELSE NoMove

ReleaseTarget(s) == IF s = "RELEASE" THEN NoMove ELSE "RELEASE"

FinalizeTarget(s) == IF s = "RELEASE" THEN "ROCKSTAR" ELSE NoMove

\* Seeded fault: a second freeze freezes the freeze.
SuspendTargetAgain(s) == IF s = "ROCKSTAR" THEN NoMove ELSE "SUSPENDED"

SuspendTarget(s) == IF s \in {"ROCKSTAR", "SUSPENDED"} THEN NoMove ELSE "SUSPENDED"

\* Seeded fault: an NPC with nothing usable to thaw to becomes active.
ResumeTargetActive(s, previous) ==
  CASE s # "SUSPENDED" -> NoMove
    [] s = "SUSPENDED" /\ previous \in {NoState, "ROCKSTAR", "RELEASE", "SUSPENDED"} -> "AI_ACTIVE"
    [] OTHER -> previous

ResumeTarget(s, previous) ==
  CASE s # "SUSPENDED" -> NoMove
    [] s = "SUSPENDED" /\ previous \in {NoState, "ROCKSTAR", "RELEASE", "SUSPENDED"} -> "AWARE"
    [] OTHER -> previous

-----------------------------------------------------------------------------
(* The timeline event of a transition.                                     *)

NoEvent == "none"

EventName(from, to) ==
  CASE from = "SUSPENDED"                                             -> "AGENT_RESUMED"
    [] from # "SUSPENDED" /\ to = "QUEST_DIALOGUE"                    -> "QUEST_DIALOGUE_ENTERED"
    [] from # "SUSPENDED" /\ to = "SUSPENDED"                         -> "AGENT_SUSPENDED"
    [] from # "SUSPENDED" /\ to = "RELEASE"                           -> "NPC_RELEASED"
    [] from \in {"CANDIDATE", "AWARE"} /\ to = "AI_ACTIVE"            -> "NPC_ACTIVATED"
    [] OTHER                                                          -> NoEvent
=============================================================================
