\* Four NPCs for two slots and one conversation; what the NPCs then ask the bridge for is left out.
SPECIFICATION Spec
VIEW LiveState
CONSTANTS
  n1 = n1
  n2 = n2
  n3 = n3
  n4 = n4
  NPC <- FourNPC
  SeenOrder <- FourSeen
  MaxAgents = 2
  MaxConversations = 1
  WaitGestures = FALSE
  MaxPending = 0
  BodyActions = {}
  Traffic = {"scan", "threat", "talk", "safety", "disconnect"}
  BackendMayFail = FALSE
  AppendMayFail = FALSE
  HostTicks = TRUE
INVARIANTS QueueSound
PROPERTIES PromotionRespectsCap FifoPromotion ReleaseFillsSlots StartRespectsConversationCap
