\* Two NPCs, every message, every failure, one slot.
SPECIFICATION Spec
VIEW LiveState
CONSTANTS
  n1 = n1
  n2 = n2
  n3 = n3
  n4 = n4
  NPC <- TwoNPC
  SeenOrder <- TwoSeen
  MaxAgents = 1
  MaxConversations = 1
  WaitGestures = TRUE
  MaxPending = 2
  BodyActions = {"task", "transient"}
  Traffic = {"scan", "quest", "world", "spoke", "threat", "approach", "failure",
             "hush", "fact", "result", "talk", "safety", "disconnect"}
  BackendMayFail = TRUE
  AppendMayFail = TRUE
  HostTicks = FALSE
INVARIANTS TypeOK OverlayCoversQuest  SuspendedRemembers SweptStayReleased
PROPERTIES ActivationNeedsAwareness
