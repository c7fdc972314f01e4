\* A slot that a story freeze leaves empty.
SPECIFICATION Spec
CONSTANTS
  n1 = n1
  n2 = n2
  n3 = n3
  n4 = n4
  NPC <- TwoNPC
  SeenOrder <- TwoSeen
  MaxAgents = 1
  MaxConversations = 1
  WaitGestures = FALSE
  MaxPending = 0
  BodyActions = {}
  Traffic = {"scan", "threat", "safety"}
  BackendMayFail = FALSE
  AppendMayFail = FALSE
  HostTicks = FALSE
INVARIANTS NoIdleSlot
