--------------------------- MODULE MCAgentRuntime ---------------------------
(***************************************************************************)
(* AgentRuntime with two or four NPCs.  The order the NPCs are first seen  *)
(* in is fixed: the runs of any other order are these with the names       *)
(* exchanged.                                                              *)
(***************************************************************************)
EXTENDS AgentRuntime

CONSTANTS n1, n2, n3, n4

TwoNPC == {n1, n2}
TwoSeen == <<n1, n2>>

FourNPC == {n1, n2, n3, n4}
FourSeen == <<n1, n2, n3, n4>>

\* The state, without the PreviousState a release from SUSPENDED leaves in a
\* record: Resume reads it of suspended NPCs only, and Suspend overwrites it.
LiveState ==
  LET live(n) == IF rt.own[n] = "SUSPENDED" THEN rt.prev[n] ELSE NoState
  IN  <<[rt EXCEPT !.prev = [n \in NPC |-> live(n)]], link, swept>>
=============================================================================
