\* Two NPCs and a bridge that comes and goes; nothing fails.
SPECIFICATION Spec
CONSTANTS
  n1 = n1
  n2 = n2
  n3 = n3
  n4 = n4
  NPC <- TwoNPC
  SeenOrder <- TwoSeen
  MaxAgents = 1
  MaxConversations = 1
  WaitGestures = TRUE
  MaxPending = 1
  BodyActions = {"task", "transient"}
  Traffic = {"scan", "quest", "result", "talk", "safety", "disconnect"}
  BackendMayFail = FALSE
  AppendMayFail = FALSE
  HostTicks = TRUE
INVARIANTS ReleaseIsTransient
PROPERTIES DisconnectReleases
