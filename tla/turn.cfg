\* One NPC.  The window is wide enough for a turn's own events (at most four with
\* the rule backend) not to push out the threat it answers.
SPECIFICATION Spec
CONSTANTS
  Cast <- MCCast
  Backends = {"rule", "model"}
  ModelDecisions <- MCDecisions
  Peds <- MCPeds
  BlockIfUncertain = TRUE
  Window = 5
  PlaceWindow = 2
  MaxIncidents <- MCIncidents
  MaxRequests = 3
INVARIANTS TypeOK PendingIsOwed CowardFlees NothingMissingSent RetriesEnd
CHECK_DEADLOCK FALSE
