------------------------- MODULE EligibilityProofs -------------------------
(***************************************************************************)
(* What the eligibility gate promises of every snapshot.                   *)
(***************************************************************************)
EXTENDS Eligibility, TLAPS

\* A ped with a flag nobody reported is never taken, whether or not the settings
\* say to block the uncertain ones: the checks of the single flags compare with
\* true and false, and unknown is neither (Gate.CanActivate).
THEOREM UnknownIsRefused ==
    ASSUME NEW s \in Snapshots, NEW blockIfUncertain \in BOOLEAN, AnySafetyFieldUnknown(s)
    PROVE  ~ CanActivate(s, blockIfUncertain)
<1>1. PICK f \in SafetyFlags : s.flags[f] = "unknown" BY DEF AnySafetyFieldUnknown
<1>2. f \in MustHold \/ f \in MustNotHold BY DEF SafetyFlags
<1>3. f \in Objections(s, blockIfUncertain) BY <1>1, <1>2 DEF Objections
<1> QED BY <1>3 DEF CanActivate

\* So the setting block_if_uncertain changes no verdict.
THEOREM UncertaintyIsNoSetting ==
    ASSUME NEW s \in Snapshots
    PROVE  CanActivate(s, TRUE) <=> CanActivate(s, FALSE)
<1>1. Objections(s, FALSE) \subseteq Objections(s, TRUE) BY DEF Objections
<1>2. CASE AnySafetyFieldUnknown(s) BY <1>2, UnknownIsRefused
<1>3. CASE ~ AnySafetyFieldUnknown(s)
  <2>1. Objections(s, TRUE) \subseteq Objections(s, FALSE) BY <1>3 DEF Objections
  <2> QED BY <1>1, <2>1 DEF CanActivate
<1> QED BY <1>2, <1>3

\* The runtime's gate is at least as strict as the bridge's: whatever it takes,
\* the bridge's gate takes too (StoryGate::can_activate).
THEOREM GateIsStricter ==
    ASSUME NEW s \in Snapshots, NEW blockIfUncertain \in BOOLEAN,
           CanActivate(s, blockIfUncertain)
    PROVE  StoryGate(s)
<1>1. ASSUME NEW f \in MustHold PROVE s.flags[f] = "yes"
  <2>1. f \notin Objections(s, blockIfUncertain) BY DEF CanActivate
  <2> QED BY <2>1 DEF Objections, SafetyFlags
<1>2. ASSUME NEW f \in MustNotHold PROVE s.flags[f] = "no"
  <2>1. f \notin Objections(s, blockIfUncertain) BY DEF CanActivate
  <2> QED BY <2>1 DEF Objections, SafetyFlags
<1> QED BY <1>1, <1>2 DEF StoryGate

\* Of the snapshots the bridge sends, the runtime refuses beyond the bridge's gate
\* only those its own story blacklist lists (Gate.IsBlacklisted).
THEOREM OnlyTheListDiffers ==
    ASSUME NEW s \in BridgeSnapshots, NEW blockIfUncertain \in BOOLEAN, StoryGate(s)
    PROVE  CanActivate(s, blockIfUncertain) <=> ~ s.listed
<1>1. ~ AnySafetyFieldUnknown(s) /\ s.named /\ ~ s.critical
  BY DEF BridgeSnapshots, AnySafetyFieldUnknown
<1>2. /\ \A f \in MustHold : s.flags[f] = "yes"
      /\ \A f \in MustNotHold : s.flags[f] = "no"
  BY DEF StoryGate
<1>3. s.flags["blacklisted"] = "no" /\ s.flags["is_story_character"] = "no"
  BY <1>2 DEF MustNotHold
<1>4. IsBlacklisted(s) <=> s.listed BY <1>3 DEF IsBlacklisted
<1>5. Objections(s, blockIfUncertain) \subseteq {"listed"} BY <1>1, <1>2 DEF Objections
<1>6. "listed" \in Objections(s, blockIfUncertain) <=> s.listed
  BY <1>4 DEF Objections, MustHold, MustNotHold, SafetyFlags
<1> QED BY <1>5, <1>6 DEF CanActivate
=============================================================================
