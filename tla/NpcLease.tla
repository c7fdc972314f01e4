------------------------------ MODULE NpcLease ------------------------------
(***************************************************************************)
(* What the ownership manager promises Rockstar's AI, the default owner of *)
(* every ped: the runtime holds an NPC on a lease that grows one step at a *)
(* time.  Control of the body ("body") is granted only to an NPC already   *)
(* watched or already lent for dialogue, never straight from Rockstar, and *)
(* never as the result of a freeze: a thaw restores what the NPC was lent  *)
(* for when it was frozen, and anything unusable thaws to mere watching.   *)
(***************************************************************************)
CONSTANT NPC

VARIABLES lease,   \* what the runtime holds of each NPC
          kept     \* what it held when story safety last froze the NPC

vars == <<lease, kept>>

Leases == {"none", "watch", "voice", "body", "frozen", "handoff"}

TypeOK == /\ lease \in [NPC -> Leases]
          /\ kept  \in [NPC -> Leases]

Init == /\ lease = [n \in NPC |-> "none"]
        /\ kept  = [n \in NPC |-> "none"]

\* The leases an operation other than a freeze or a thaw may go to.
Grants == [none    |-> {"watch", "voice", "handoff"},
           watch   |-> {"none", "body", "voice", "handoff"},
           voice   |-> {"body", "handoff"},
           body    |-> {"voice", "handoff"},
           frozen  |-> {"handoff"},
           handoff |-> {"none", "watch"}]

Grant(n) == /\ \E l \in Grants[lease[n]] : lease' = [lease EXCEPT ![n] = l]
            /\ UNCHANGED kept

Freeze(n) == /\ lease[n] \notin {"none", "frozen"}
             /\ kept'  = [kept EXCEPT ![n] = lease[n]]
             /\ lease' = [lease EXCEPT ![n] = "frozen"]

Thaw(n) == /\ lease[n] = "frozen"
           /\ lease' = [lease EXCEPT ![n] =
                          IF kept[n] \in {"watch", "voice", "body"} THEN kept[n] ELSE "watch"]
           /\ kept'  = [kept EXCEPT ![n] = "none"]

Next == \E n \in NPC : Grant(n) \/ Freeze(n) \/ Thaw(n)

Spec == Init /\ [][Next]_vars
=============================================================================
