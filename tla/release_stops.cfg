\* A backend that fails during the release of a lost bridge.
SPECIFICATION Spec
CONSTANTS
  n1 = n1
  n2 = n2
  n3 = n3
  n4 = n4
  NPC <- TwoNPC
  SeenOrder <- TwoSeen
  MaxAgents = 1
  MaxConversations = 1
  WaitGestures = FALSE
  MaxPending = 0
  BodyActions = {}
  Traffic = {"scan", "threat", "disconnect"}
  BackendMayFail = TRUE
  AppendMayFail = FALSE
  HostTicks = FALSE
INVARIANTS DisconnectReturnsAll
