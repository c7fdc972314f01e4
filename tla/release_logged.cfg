\* The event of a release, from every state.
SPECIFICATION Spec
CONSTANTS
  NPC = {n1, n2}
PROPERTIES ReleaseIsLogged
