---------------------------- MODULE Eligibility ----------------------------
(***************************************************************************)
(* Which peds the AI may take: the runtime's eligibility gate              *)
(* (state/eligibility.go) and the filter the bridge applies to a scan      *)
(* before it sends it (bridge/src/story_gate.cpp).                         *)
(***************************************************************************)

\* The safety flags of a ped snapshot; a flag that is absent is unknown.
MustHold == {"is_ped", "is_human", "is_alive"}
MustNotHold == {"is_player", "is_story_character", "is_mission_owned", "in_scripted_state",
                "in_cutscene", "blacklisted"}
SafetyFlags == MustHold \cup MustNotHold
Tri == {"yes", "no", "unknown"}

\* A snapshot: its flags, whether it has an entity id, whether its metadata has
\* one of the critical flags set, whether the story blacklist lists its model
\* or name, and whether its metadata says it is in a quest dialogue.
Snapshots == [flags    : [SafetyFlags -> Tri],
              named    : BOOLEAN,
              critical : BOOLEAN,
              listed   : BOOLEAN,
              quest    : BOOLEAN]

\* What the bridge sends has every flag, the entity id, and no critical metadata.
BridgeSnapshots == {s \in Snapshots : /\ \A f \in SafetyFlags : s.flags[f] # "unknown"
                                      /\ s.named
                                      /\ ~ s.critical}

\* IsBlacklisted: the bridge's flag, the story flag, or the lists.
IsBlacklisted(s) == \/ s.flags["blacklisted"] = "yes"
                    \/ s.flags["is_story_character"] = "yes"
                    \/ s.listed

AnySafetyFieldUnknown(s) == \E f \in SafetyFlags : s.flags[f] = "unknown"

\* The reasons against a ped, by kind: CanActivate collects them all.
Objections(s, blockIfUncertain) ==
    {r \in SafetyFlags \cup {"id", "uncertain", "metadata", "listed"} :
        \/ r = "id" /\ ~ s.named
        \/ r \in MustHold /\ s.flags[r] # "yes"
        \/ r \in MustNotHold /\ s.flags[r] # "no"
        \/ r = "uncertain" /\ blockIfUncertain /\ AnySafetyFieldUnknown(s)
        \/ r = "metadata" /\ s.critical
        \/ r = "listed" /\ IsBlacklisted(s)}

CanActivate(s, blockIfUncertain) == Objections(s, blockIfUncertain) = {}

\* questDialoguePayload: a quest NPC that may be given lines, and nothing else.
\* The story and mission flags do not count against it.
MaySpeakForQuest(s) == /\ s.quest
                       /\ \A f \in MustHold : s.flags[f] = "yes"
                       /\ s.flags["is_player"] # "yes"
                       /\ s.flags["in_cutscene"] = "no"

\* StoryGate::can_activate.
StoryGate(s) == /\ \A f \in MustHold : s.flags[f] = "yes"
                /\ \A f \in MustNotHold : s.flags[f] = "no"
=============================================================================
