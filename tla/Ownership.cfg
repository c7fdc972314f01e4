\* Two NPCs: every pair of ownership states, whatever the order of calls.
SPECIFICATION Spec
CONSTANTS
  NPC = {n1, n2}
INVARIANTS TypeOK SuspendedRemembers
PROPERTIES LeaseSpec
