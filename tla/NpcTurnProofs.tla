--------------------------- MODULE NpcTurnProofs ---------------------------
(***************************************************************************)
(* What holds of NpcTurn for every nature, every backend, whatever a       *)
(* language model decides, every window and any number of requests.        *)
(***************************************************************************)
EXTENDS NpcTurn, SelectionProofs, TLAPS

\* What the steps keep of the view and the requests: the pending requests are
\* the ones the bridge owes an answer to and the lost ones, and a lost request is
\* not on its way, so that no late answer takes it off the books.
Owed(v, f, gone) ==
  /\ "pending" \in DOMAIN v
  /\ \A id \in DOMAIN f : "action" \in DOMAIN f[id]
  /\ v.pending = {id \in DOMAIN f : f[id].action.tool \notin Transient} \cup gone
  /\ gone \cap DOMAIN f = {}

IInv == Owed(npc, flight, lost)

AllOwed(outcomes, gone) == \A o \in outcomes : Owed(o.npc, o.flight, gone)

-----------------------------------------------------------------------------
(* Logging, moving and showing the NPC leave its requests alone. *)

\* The events of a turn age what the NPC remembers and touch no request (Aged).
LEMMA AgedOwes ==
  ASSUME NEW v, NEW f, NEW gone, NEW n, Owed(v, f, gone)
  PROVE  Owed(Aged(v, n), f, gone)
  BY DEF Owed, Aged

\* Neither does an event that is itself remembered (Logged).
LEMMA LoggedOwes ==
  ASSUME NEW v, NEW f, NEW gone, NEW l, Owed(v, f, gone)
  PROVE  Owed(Logged(v, l), f, gone)
  BY DEF Owed, Logged, Aged

\* A transition, and the hand-off that follows a release, leave the requests
\* pending: the bridge still answers for an NPC that is Rockstar's (Moved).
LEMMA MovedOwes ==
  ASSUME NEW v, NEW f, NEW gone, NEW to, Owed(v, f, gone)
  PROVE  Owed(Moved(v, to), f, gone)
<1> DEFINE told == IF EventName(v.own, to) # NoEvent \/ to = "AI_CONVERSATION" THEN 1 ELSE 0
<1> DEFINE aged == Aged(v, told)
<1>1. Owed(aged, f, gone) BY AgedOwes
<1> HIDE DEF aged
<1>2. Owed([aged EXCEPT !.own = to], f, gone) BY <1>1 DEF Owed
<1>3. Owed([[aged EXCEPT !.own = to] EXCEPT !.own = "ROCKSTAR", !.overlay = FALSE,
                                            !.waiting = FALSE], f, gone)
  BY <1>2 DEF Owed
<1> QED BY <1>2, <1>3 DEF Moved, aged

\* So does a scan (Scanned).
LEMMA ScannedOwes ==
  ASSUME NEW v, NEW f, NEW gone, NEW ped, NEW band, Owed(v, f, gone)
  PROVE  Owed(Scanned(v, ped, band), f, gone)
<1> DEFINE q == [v EXCEPT !.overlay = TRUE]
<1>1. Owed(q, f, gone) BY DEF Owed
<1> HIDE DEF q
<1>2. \A to : Owed(Moved(q, to), f, gone) /\ Owed(Moved(v, to), f, gone) BY <1>1, MovedOwes
<1> QED BY <1>1, <1>2 DEF Scanned, q

-----------------------------------------------------------------------------
(* A turn. *)

\* New requests get ids of their own, none of them lost or awaited, and exactly
\* those that are not transient become pending (Dispatch).
LEMMA DispatchOwes ==
  ASSUME NEW v, NEW f, NEW gone, NEW sent, NEW tries,
         Owed(v, f, gone), Numberings(v, f, sent) # {}
  PROVE  LET out == Dispatch(v, f, sent, tries) IN Owed(out.npc, out.flight, gone)
<1> DEFINE ids   == CHOOSE ids \in Numberings(v, f, sent) : TRUE
           new   == {ids[i] : i \in DOMAIN sent}
           at(k) == CHOOSE i \in DOMAIN sent : ids[i] = k
           view  == [v EXCEPT !.pending = @ \cup {k \in new : sent[at(k)].tool \notin Transient}]
           way   == [k \in DOMAIN f \cup new |->
                       IF k \in new
                       THEN [action |-> sent[at(k)], stage |-> "sent", tries |-> tries]
                       ELSE f[k]]
<1>1. ids \in [DOMAIN sent -> Ids \ (DOMAIN f \cup v.pending)] BY DEF Numberings
<1>2. new \cap (DOMAIN f \cup v.pending) = {} BY <1>1
<1> HIDE DEF ids, new
<1>3. view.pending = v.pending \cup {k \in new : sent[at(k)].tool \notin Transient}
      /\ "pending" \in DOMAIN view
  BY DEF Owed
<1>4. DOMAIN way = DOMAIN f \cup new OBVIOUS
<1>5. \A k \in new : way[k].action = sent[at(k)] /\ "action" \in DOMAIN way[k] OBVIOUS
<1>6. \A k \in DOMAIN f : way[k] = f[k] BY <1>2
<1> HIDE DEF view, way, at
<1>7. Owed(view, way, gone)
  <2>1. \A id \in DOMAIN way : "action" \in DOMAIN way[id] BY <1>4, <1>5, <1>6 DEF Owed
  <2>2. gone \subseteq v.pending BY DEF Owed
  <2>3. gone \cap DOMAIN way = {} BY <1>2, <1>4, <2>2 DEF Owed
  <2>4. {id \in DOMAIN way : way[id].action.tool \notin Transient}
          = {id \in DOMAIN f : f[id].action.tool \notin Transient}
              \cup {k \in new : sent[at(k)].tool \notin Transient}
    BY <1>4, <1>5, <1>6
  <2> QED BY <1>3, <2>1, <2>3, <2>4 DEF Owed
<1> QED BY <1>7 DEF Dispatch, ids, new, at, view, way

\* A decision, whatever it is, keeps the books (Taken).
LEMMA TakenOwes ==
  ASSUME NEW v, NEW f, NEW gone, NEW d, NEW event, NEW first, NEW tries, Owed(v, f, gone)
  PROVE  AllOwed(Taken(v, f, d, event, first, tries), gone)
<1> DEFINE sent == Sent(v, d)
           after == AfterTurn(v, d, sent)
           out  == Dispatch(after, f, first \o sent, tries)
<1>1. Owed(after, f, gone)
  <2> DEFINE n == Refused(v, d) + (IF d.goal \notin {"none", v.goal} THEN 1 ELSE 0) + Len(sent)
                    + Cardinality({i \in DOMAIN sent : sent[i].tool = "say"})
             aged == Aged(v, n)
  <2>1. Owed(aged, f, gone) BY AgedOwes
  <2> HIDE DEF aged
  <2>2. \A g : Owed([aged EXCEPT !.goal = g], f, gone) BY <2>1 DEF Owed
  <2> QED BY <2>2 DEF AfterTurn, aged
<1> HIDE DEF after, sent
<1>2. CASE Numberings(v, f, first \o sent) = {}
  BY <1>2 DEF Taken, AllOwed, sent
<1>3. CASE Numberings(v, f, first \o sent) # {}
  <2>1. after.pending = v.pending BY <1>1 DEF Owed
  <2>2. Numberings(after, f, first \o sent) # {} BY <1>3, <2>1 DEF Numberings
  <2>3. Owed(out.npc, out.flight, gone) BY <1>1, <2>2, DispatchOwes
  <2> HIDE DEF out
  <2>4. \A o \in Taken(v, f, d, event, first, tries) : o.npc = out.npc /\ o.flight = out.flight
    BY <1>3 DEF Taken, Outcome, out, after, sent
  <2> QED BY <2>3, <2>4 DEF AllOwed
<1> QED BY <1>2, <1>3

\* So does every way of being asked for one (ReasonAfter).
LEMMA ReasonOwes ==
  ASSUME NEW v, NEW f, NEW gone, NEW why, NEW trigger, NEW tries, Owed(v, f, gone)
  PROVE  AllOwed(ReasonAfter(v, f, why, trigger, tries), gone)
<1> DEFINE first == IF Gestures(v) THEN <<Think>> ELSE << >>
           seen  == Aged(v, Len(first))
<1>1. Owed(seen, f, gone) BY AgedOwes
<1> HIDE DEF first, seen
<1>2. \A d : AllOwed(Taken(seen, f, d, trigger.event, first, tries), gone) BY <1>1, TakenOwes
<1>3. CASE ~ CanReason(v.own) BY <1>3 DEF ReasonAfter, AllOwed, Idle, Outcome
<1>4. CASE CanReason(v.own)
  <2>1. \A o \in ReasonAfter(v, f, why, trigger, tries) :
          \E d : o \in Taken(seen, f, d, trigger.event, first, tries)
    BY <1>4 DEF ReasonAfter, first, seen
  <2> QED BY <1>2, <2>1 DEF AllOwed
<1> QED BY <1>3, <1>4

-----------------------------------------------------------------------------
(* The handlers. *)

\* Asking nobody keeps the books (Idle).
LEMMA IdleOwes ==
  ASSUME NEW v, NEW f, NEW gone, Owed(v, f, gone)
  PROVE  AllOwed(Idle(v, f), gone)
  BY DEF Idle, Outcome, AllOwed

\* Activating an NPC, or queueing it (makeMeaningful).
LEMMA MeaningfulOwes ==
  ASSUME NEW v, NEW f, NEW gone, NEW why, NEW trigger, NEW free, Owed(v, f, gone)
  PROVE  AllOwed(Meaningful(v, f, why, trigger, free), gone)
<1>1. CASE v.own = "AWARE" /\ ~ free
  <2> DEFINE queued == [Aged(v, 1) EXCEPT !.waiting = TRUE]
  <2>1. Owed(Aged(v, 1), f, gone) BY AgedOwes
  <2>2. Owed(queued, f, gone) BY <2>1 DEF Owed
  <2> HIDE DEF queued
  <2>3. AllOwed(Idle(queued, f), gone) BY <2>2, IdleOwes
  <2> QED BY <1>1, <2>3 DEF Meaningful, queued
<1>2. CASE ~ (v.own = "AWARE" /\ ~ free)
  <2> DEFINE to == ScanTarget("AWARE", "close", TRUE, TRUE)
             w  == IF v.own = "AWARE" THEN Moved(v, to) ELSE v
  <2>1. Owed(w, f, gone) BY MovedOwes
  <2> HIDE DEF w
  <2>2. AllOwed(ReasonAfter(w, f, why, trigger, 0), gone) BY <2>1, ReasonOwes
  <2> QED BY <1>2, <2>2 DEF Meaningful, Reason, w
<1> QED BY <1>1, <1>2

\* Reacting to an event (reactToEvent).
LEMMA ReactOwes ==
  ASSUME NEW v, NEW f, NEW gone, NEW l, NEW free, Owed(v, f, gone)
  PROVE  AllOwed(React(v, f, l, free), gone)
<1>1. AllOwed(Meaningful(v, f, "meaningful", l, free), gone) BY MeaningfulOwes
<1>2. AllOwed(Reason(v, f, "quest_dialogue", l), gone) BY ReasonOwes DEF Reason
<1>3. AllOwed(Idle(v, f), gone) BY IdleOwes
<1>4. AllOwed(Idle([v EXCEPT !.goal = "none"], f), gone)
  <2> DEFINE done == [v EXCEPT !.goal = "none"]
  <2>1. Owed(done, f, gone) BY DEF Owed
  <2> HIDE DEF done
  <2>2. AllOwed(Idle(done, f), gone) BY <2>1, IdleOwes
  <2> QED BY <2>2 DEF done
<1>5. AllOwed(Reason(IF v.own = "AI_CONVERSATION" THEN v ELSE Moved(v, TalkTarget(v.own)),
                     f, "player_spoke", l), gone)
  <2> DEFINE w == IF v.own = "AI_CONVERSATION" THEN v ELSE Moved(v, TalkTarget(v.own))
  <2>1. Owed(w, f, gone) BY MovedOwes
  <2> HIDE DEF w
  <2>2. AllOwed(ReasonAfter(w, f, "player_spoke", l, 0), gone) BY <2>1, ReasonOwes
  <2> QED BY <2>2 DEF Reason, w
<1> QED BY <1>1, <1>2, <1>3, <1>4, <1>5 DEF React

\* Idle thinking, which asks only when nothing is pending (maybeScheduleIdleThinking).
LEMMA IdleThinkingOwes ==
  ASSUME NEW v, NEW f, NEW gone, Owed(v, f, gone)
  PROVE  AllOwed(IdleThinking(v, f), gone)
<1>1. AllOwed(Idle(v, f), gone) BY IdleOwes
<1>2. AllOwed(Reason(v, f, "idle", Untriggered), gone) BY ReasonOwes DEF Reason
<1> QED BY <1>1, <1>2 DEF IdleThinking, AllOwed

\* A message that leaves one of such outcomes leaves the books in order.
LEMMA SettleOwes ==
  ASSUME NEW outcomes, AllOwed(outcomes, lost), Settle(outcomes)
  PROVE  IInv'
  BY DEF Settle, AllOwed, IInv, Owed

-----------------------------------------------------------------------------
(* The steps. *)

\* A game event frees nothing and adds what its turn sends (handleGameEvent).
LEMMA GameEventOwes ==
  ASSUME IInv, NEW event, NEW place, NEW free, GameEvent(event, place, free)
  PROVE  IInv'
<1> DEFINE l == Latest(event, place, "none")
           f == [id \in DOMAIN flight |-> [flight[id] EXCEPT !.tries = 0]]
           v == Logged(npc, l)
<1>1. Owed(npc, f, lost)
  <2>1. DOMAIN f = DOMAIN flight OBVIOUS
  <2>2. \A id \in DOMAIN flight : f[id].action = flight[id].action /\ "action" \in DOMAIN f[id]
    BY DEF IInv, Owed
  <2> HIDE DEF f
  <2> QED BY <2>1, <2>2 DEF IInv, Owed
<1>2. Settle(React(v, f, l, free)) BY DEF GameEvent
<1> HIDE DEF f, l
<1>3. Owed(v, f, lost) BY <1>1, LoggedOwes
<1> HIDE DEF v
<1>4. AllOwed(React(v, f, l, free), lost) BY <1>3, ReactOwes
<1> QED BY <1>2, <1>4, SettleOwes

\* A scan sends what an activation or an idle turn sends (handlePedScan).
LEMMA PedScanOwes ==
  ASSUME IInv, NEW ped, NEW band, PedScan(ped, band)
  PROVE  IInv'
<1> DEFINE v == Scanned(npc, ped, band)
<1>1. Owed(v, flight, lost) BY ScannedOwes DEF IInv
<1>2. Settle(IdleThinking(v, flight)) BY DEF PedScan
<1> HIDE DEF v
<1>3. AllOwed(IdleThinking(v, flight), lost) BY <1>1, IdleThinkingOwes
<1> QED BY <1>2, <1>3, SettleOwes

\* A world update releases or thinks; requests stay owed (handleWorldUpdate).
LEMMA WorldUpdateOwes ==
  ASSUME IInv, NEW far, WorldUpdate(far)
  PROVE  IInv'
<1> DEFINE to == ScanTarget(npc.own, "far", TRUE, FALSE)
           v  == IF far THEN Moved(npc, to) ELSE npc
<1>1. Owed(v, flight, lost) BY MovedOwes DEF IInv
<1>2. Settle(IdleThinking(v, flight)) BY DEF WorldUpdate
<1> HIDE DEF v
<1>3. AllOwed(IdleThinking(v, flight), lost) BY <1>1, IdleThinkingOwes
<1> QED BY <1>2, <1>3, SettleOwes

\* Push-to-talk moves the NPC and lets it answer (handlePushToTalk).
LEMMA TalkOwes ==
  ASSUME IInv, TalkStart \/ TalkStop
  PROVE  IInv'
<1>1. \A to, n : Owed(Moved(npc, to), flight, lost) /\ Owed(Aged(npc, n), flight, lost)
                 /\ Owed(Aged(Moved(npc, to), n), flight, lost)
  BY MovedOwes, AgedOwes DEF IInv
<1>2. \A v : Owed(v, flight, lost) /\ Settle(Idle(v, flight)) => IInv'
  BY IdleOwes, SettleOwes
<1>3. CASE TalkStart
  <2> DEFINE v == IF npc.own = "AI_CONVERSATION" THEN Aged(npc, 1)
                  ELSE Moved(npc, TalkTarget(npc.own))
  <2>1. Owed(v, flight, lost) BY <1>1
  <2>2. Settle(Idle(v, flight)) BY <1>3 DEF TalkStart
  <2> HIDE DEF v
  <2> QED BY <1>2, <2>1, <2>2
<1>4. CASE TalkStop
  <2> DEFINE v == Aged(Moved(npc, HushTarget(npc.own)), 1)
  <2>1. Owed(v, flight, lost) BY <1>1
  <2>2. Settle(Idle(v, flight)) BY <1>4 DEF TalkStop
  <2> HIDE DEF v
  <2> QED BY <1>2, <2>1, <2>2
<1> QED BY <1>3, <1>4

\* A promotion reasons about the NPC once (promoteNextDeferred).
LEMMA PromotedOwes ==
  ASSUME IInv, Promoted
  PROVE  IInv'
<1> DEFINE v == [npc EXCEPT !.waiting = FALSE]
           outcomes == IF npc.own = "AWARE"
                       THEN Meaningful(v, flight, "promoted", Untriggered, TRUE)
                       ELSE Idle(v, flight)
<1>1. Owed(v, flight, lost) BY DEF IInv, Owed
<1>2. Settle(outcomes) BY DEF Promoted
<1> HIDE DEF v
<1>3. AllOwed(outcomes, lost) BY <1>1, MeaningfulOwes, IdleOwes
<1> HIDE DEF outcomes
<1> QED BY <1>2, <1>3, SettleOwes

\* An answered request leaves both the bridge and the books (Resolve).
LEMMA ReportOwes ==
  ASSUME IInv, NEW id \in DOMAIN flight, NEW event, Report(id, event)
  PROVE  IInv'
<1> DEFINE request == flight[id]
           l == Latest(event, "none", request.action.tool)
           w == Logged(npc, l)
           v == [w EXCEPT !.pending = @ \ {id}]
           f == [k \in DOMAIN flight \ {id} |-> flight[k]]
           tries == IF backend = "rule" THEN request.tries + 1 ELSE 0
           outcomes == IF event = "failed" THEN ReasonAfter(v, f, "action_failed", l, tries)
                       ELSE Idle(v, f)
<1>1. Settle(outcomes) BY DEF Report
<1>2. Owed(w, flight, lost) BY LoggedOwes DEF IInv
<1> HIDE DEF w, l, tries
<1>3. Owed(v, f, lost)
  <2>1. "pending" \in DOMAIN v /\ v.pending = w.pending \ {id} BY <1>2 DEF Owed
  <2>2. DOMAIN f = DOMAIN flight \ {id} /\ \A k \in DOMAIN f : f[k] = flight[k] OBVIOUS
  <2> HIDE DEF v, f
  <2>3. id \notin lost BY <1>2 DEF Owed
  <2> QED BY <1>2, <2>1, <2>2, <2>3 DEF Owed
<1> HIDE DEF v, f
<1>4. AllOwed(outcomes, lost) BY <1>3, ReasonOwes, IdleOwes
<1> HIDE DEF outcomes
<1> QED BY <1>1, <1>4, SettleOwes

\* A request the bridge has started is still owed its result (onIpcMessage).
LEMMA StartOwes ==
  ASSUME IInv, NEW id \in DOMAIN flight, Start(id)
  PROVE  IInv'
<1>1. /\ DOMAIN flight' = DOMAIN flight
      /\ \A k \in DOMAIN flight : "action" \in DOMAIN flight'[k]
                                  /\ flight'[k].action = flight[k].action
  BY DEF Start, IInv, Owed
<1> QED BY <1>1 DEF Start, IInv, Owed

\* What goes down with the connection is lost, if someone waits for it; the rest
\* of what is pending is still owed (ReleaseAll).
LEMMA LinkLostOwes ==
  ASSUME IInv, LinkLost
  PROVE  IInv'
<1>1. PICK down \in SUBSET DOMAIN flight :
        /\ flight' = [k \in DOMAIN flight \ down |-> flight[k]]
        /\ lost' = lost \cup (down \cap npc.pending)
  BY DEF LinkLost
<1>2. Owed(npc, flight', lost')
  <2>1. DOMAIN flight' = DOMAIN flight \ down /\ \A k \in DOMAIN flight' : flight'[k] = flight[k]
    BY <1>1
  <2> QED BY <1>1, <2>1 DEF IInv, Owed
<1>3. npc' = npc \/ npc' = Moved(npc, ReleaseTarget(npc.own)) BY DEF LinkLost
<1> QED BY <1>2, <1>3, MovedOwes DEF IInv

\* Every step keeps the books.
LEMMA BooksStep == IInv /\ [Next]_vars => IInv'
<1> SUFFICES ASSUME IInv, [Next]_vars PROVE IInv' OBVIOUS
<1>1. CASE Message
  BY <1>1, GameEventOwes, PedScanOwes, WorldUpdateOwes, TalkOwes, PromotedOwes DEF Message
<1>2. CASE Bridge
  BY <1>2, StartOwes, ReportOwes DEF Bridge, Fail, Complete
<1>3. CASE LinkLost BY <1>3, LinkLostOwes
<1>4. CASE UNCHANGED vars BY <1>4 DEF vars, IInv, Owed
<1> QED BY <1>1, <1>2, <1>3, <1>4 DEF Next

\* The requests the dispatcher holds as pending are, after any messages, answers
\* in any order and losses of the connection, the ones the bridge still owes an
\* answer to and the ones whose answer can no longer come
\* (Dispatch, Resolve, PendingNPCIDs).
THEOREM BooksBalance == Spec => []PendingIsOwed
<1>1. Init => IInv BY DEF Init, IInv, Owed
<1>2. IInv /\ [Next]_vars => IInv' BY BooksStep
<1>3. IInv => PendingIsOwed BY DEF IInv, Owed, PendingIsOwed
<1> QED BY <1>1, <1>2, <1>3, PTL DEF Spec

-----------------------------------------------------------------------------
(* From a decision to requests.  CatalogEntries to SentActions follow a list  *)
(* of actions through the code that changes it.                               *)

\* What the registry's catalog holds for the tools a decision keeps: every attending
\* tool fills in its entity and insists on nothing, and the three tools that cannot do
\* without an argument insist on it (tools/*.go, registerMovement and its kin).
LEMMA CatalogEntries ==
  /\ Supported \cup {"think"} \subseteq Tools
  /\ \A tool \in Attending :
       /\ Catalog[tool].needs = {} /\ Catalog[tool].fills = {"entity"}
       /\ "entity" \notin Catalog[tool].takes
  /\ Catalog["say"].needs = {"text"} /\ Catalog["say"].fills = {}
  /\ Catalog["go_to"].needs = {"destination"}
  /\ Catalog["investigate"].needs = {"position"}
<1>1. DOMAIN MovementTools = {"wander", "go_to", "follow", "stop"} BY DEF MovementTools
<1>2. DOMAIN AttentionTools = {"look_at", "face", "clear_attention"} BY DEF AttentionTools
<1>3. DOMAIN SpeechTools = {"say", "gesture", "think"} BY DEF SpeechTools
<1>4. DOMAIN ReactionTools = {"investigate", "flee_from", "wait", "react", "hands_up", "cower",
                              "duck", "jump", "walk_away"}
  BY DEF ReactionTools
<1> DEFINE later  == With(InteractionTools, CombatTools)
           fourth == With(ReactionTools, later)
           third  == With(SpeechTools, fourth)
           second == With(AttentionTools, third)
<1>5. /\ Catalog = With(MovementTools, second) /\ second = With(AttentionTools, third)
      /\ third = With(SpeechTools, fourth) /\ fourth = With(ReactionTools, later)
  BY DEF Catalog
<1> HIDE DEF second, third, fourth, later
<1>6. /\ DOMAIN Catalog = DOMAIN MovementTools \cup DOMAIN second
      /\ \A k \in DOMAIN MovementTools : Catalog[k] = MovementTools[k]
      /\ \A k \in DOMAIN second \ DOMAIN MovementTools : Catalog[k] = second[k]
  BY <1>5 DEF With
<1>7. /\ DOMAIN second = DOMAIN AttentionTools \cup DOMAIN third
      /\ \A k \in DOMAIN AttentionTools : second[k] = AttentionTools[k]
      /\ \A k \in DOMAIN third \ DOMAIN AttentionTools : second[k] = third[k]
  BY <1>5 DEF With
<1>8. /\ DOMAIN third = DOMAIN SpeechTools \cup DOMAIN fourth
      /\ \A k \in DOMAIN SpeechTools : third[k] = SpeechTools[k]
      /\ \A k \in DOMAIN fourth \ DOMAIN SpeechTools : third[k] = fourth[k]
  BY <1>5 DEF With
<1>9. /\ DOMAIN fourth = DOMAIN ReactionTools \cup DOMAIN later
      /\ \A k \in DOMAIN ReactionTools : fourth[k] = ReactionTools[k]
  BY <1>5 DEF With
<1>10. Supported \cup {"think"} \subseteq Tools
  BY <1>1, <1>2, <1>3, <1>4 DEF Tools, Supported, Attending
<1>11. /\ \A tool \in DOMAIN MovementTools : Catalog[tool] = MovementTools[tool]
       /\ \A tool \in DOMAIN AttentionTools : Catalog[tool] = AttentionTools[tool]
       /\ \A tool \in DOMAIN SpeechTools : Catalog[tool] = SpeechTools[tool]
       /\ \A tool \in DOMAIN ReactionTools : Catalog[tool] = ReactionTools[tool]
  BY <1>1, <1>2, <1>3, <1>4, <1>6, <1>7, <1>8, <1>9
<1>12. \A tool \in Attending :
        /\ Catalog[tool].needs = {} /\ Catalog[tool].fills = {"entity"}
        /\ "entity" \notin Catalog[tool].takes
  <2>1. /\ Catalog["follow"] = Tool({}, {"entity"}, {"distance"})
        /\ Catalog["look_at"] = Tool({}, {"entity"}, {})
        /\ Catalog["face"] = Tool({}, {"entity"}, {})
        /\ Catalog["flee_from"] = Tool({}, {"entity"}, {})
    BY <1>1, <1>2, <1>4, <1>11 DEF MovementTools, AttentionTools, ReactionTools
  <2> QED BY <2>1 DEF Attending, Tool
<1>13. /\ Catalog["say"] = Tool({"text"}, {}, {"target", "emotion"})
       /\ Catalog["go_to"] = Tool({"destination"}, {}, {"priority"})
       /\ Catalog["investigate"] = Tool({"position"}, {}, {})
  BY <1>1, <1>3, <1>4, <1>11 DEF MovementTools, SpeechTools, ReactionTools
<1> QED BY <1>10, <1>12, <1>13 DEF Tool

\* A request the executor can start, unless an argument of it is unusable.
Sendable(r) ==
  /\ {"tool", "args"} \subseteq DOMAIN r
  /\ r.tool \in Tools
  /\ Usable(r.args) => Starts(r, TRUE)

\* The registry and the executor fit together: the request a handler forwards for an
\* accepted call starts in the game, unless one of its arguments is of a kind neither
\* can use (the handlers of tools/*.go, ActionExecutor::dispatch_common).
LEMMA ForwardedStarts ==
  ASSUME NEW a, Accepted(a), a.tool \in Supported
  PROVE  Forwarded(a).tool = a.tool /\ Sendable(Forwarded(a))
<1> DEFINE spec == Catalog[a.tool]
           sent == {k \in spec.needs \cup spec.takes : Provided(a.args, k)}
           args == [k \in sent \cup spec.fills |->
                      IF Provided(a.args, k) THEN Converted(a.args, k)
                      ELSE IF k \in NumberArgs THEN "number" ELSE "text"]
           r    == Forwarded(a)
<1>1. r = [tool |-> a.tool, args |-> args] BY DEF Forwarded, Action
<1>2. r.tool = a.tool /\ r.args = args /\ DOMAIN r = {"tool", "args"} BY <1>1
<1> HIDE DEF r
<1>3. a.tool \in Tools BY CatalogEntries
<1>4. \A k \in DOMAIN args : k \notin RawArgs \cup NumberArgs => args[k] \in {"text", "blank"}
  BY DEF Converted, AsText
<1>5. \A k \in sent : k \in DOMAIN args /\ args[k] = Converted(a.args, k) OBVIOUS
<1>6. DOMAIN args = sent \cup spec.fills OBVIOUS
<1>7. \A k \in spec.needs : k \in sent BY DEF Accepted
<1> HIDE DEF args, sent
<1>8. ASSUME Usable(args) PROVE Starts(r, TRUE)
  <2>1. \A k \in DOMAIN args : args[k] \in {"text", "number", "point"} BY <1>8 DEF Usable
  <2>2. CASE a.tool \in Attending
    <3>1. "entity" \in DOMAIN args BY <1>6, <2>2, CatalogEntries
    <3>2. args["entity"] = "text" BY <1>4, <2>1, <3>1 DEF RawArgs, NumberArgs
    <3>3. Entity(args, "entity", TRUE) BY <3>1, <3>2 DEF Entity, Given
    <3> QED BY <1>2, <2>2, <3>1, <3>3
         DEF Attending, Starts, StartsMovement, StartsAttention, StartsReaction
  <2>3. CASE a.tool = "say"
    <3>1. "text" \in sent BY <1>7, <2>3, CatalogEntries
    <3>2. args["text"] = "text" BY <1>4, <1>5, <2>1, <3>1 DEF RawArgs, NumberArgs
    <3> QED BY <1>2, <1>5, <2>3, <3>1, <3>2 DEF Starts, StartsAttention, Text, Given
  <2>4. CASE a.tool = "go_to"
    <3>1. "destination" \in sent BY <1>7, <2>4, CatalogEntries
    <3>2. args["destination"] \in {"text", "number", "point"} /\ "destination" \in DOMAIN args
      BY <1>5, <2>1, <3>1
    <3> QED BY <1>2, <2>4, <3>2 DEF Starts, StartsMovement, Point, Entity, Given
  <2>5. CASE a.tool = "investigate"
    <3>1. "position" \in sent BY <1>7, <2>5, CatalogEntries
    <3>2. args["position"] = "point" /\ "position" \in DOMAIN args BY <1>5, <1>8, <3>1 DEF Usable
    <3> QED BY <1>2, <2>5, <3>2 DEF Starts, StartsReaction, Point, Given
  <2>6. CASE a.tool \in {"wander", "wait", "stop", "gesture", "clear_attention"}
    BY <1>2, <2>6 DEF Starts, StartsMovement, StartsAttention
  <2> QED BY <2>2, <2>3, <2>4, <2>5, <2>6 DEF Supported
<1>9. Sendable(r) BY <1>2, <1>3, <1>8 DEF Sendable
<1> QED BY <1>2, <1>9 DEF r

\* The waiting gesture is such a request (emitWaitGesture).
LEMMA ThinkStarts == Sendable(Think) /\ Think.tool = "think"
<1>1. Think.tool = "think" /\ DOMAIN Think = {"tool", "args"} BY DEF Think, Action
<1> QED BY <1>1, CatalogEntries DEF Sendable, Starts, StartsAttention

-----------------------------------------------------------------------------
(* Lists of actions. *)

\* The tools a list of actions asks for.
ToolsOf(s) == {s[i].tool : i \in DOMAIN s}

\* Filtering a list of actions, as decision.go does in a loop that appends, leaves a list
\* of actions, with the tools of those that were kept.
LEMMA PickedActions ==
  ASSUME NEW s, IsActions(s), NEW K \in SUBSET DOMAIN s
  PROVE  /\ IsActions(Picked(s, K))
         /\ \A k \in DOMAIN Picked(s, K) : \E i \in K : Picked(s, K)[k] = s[i]
         /\ \A i \in K : \E k \in DOMAIN Picked(s, K) : Picked(s, K)[k] = s[i]
         /\ ToolsOf(Picked(s, K)) = {s[i].tool : i \in K}
<1> DEFINE S == {s[i] : i \in DOMAIN s}
           t == Picked(s, K)
<1>1. s \in Seq(S) BY DEF IsActions
<1> HIDE DEF S
<1>2. /\ t \in Seq(S)
      /\ \A k \in DOMAIN t : \E i \in K : t[k] = s[i]
      /\ \A i \in K : \E k \in DOMAIN t : t[k] = s[i]
  BY <1>1, PickedElements
<1> HIDE DEF t
<1>3. t \in Seq({t[k] : k \in DOMAIN t})
  <2>1. Len(t) \in Nat /\ DOMAIN t = 1 .. Len(t) /\ t = [k \in 1 .. Len(t) |-> t[k]] BY <1>2
  <2> QED BY <2>1
<1>4. \A k \in DOMAIN t : {"tool", "args"} \subseteq DOMAIN t[k] BY <1>2 DEF IsActions
<1>5. ToolsOf(t) = {s[i].tool : i \in K} BY <1>2 DEF ToolsOf
<1> QED BY <1>2, <1>3, <1>4, <1>5 DEF IsActions, t

\* What the guardrails do to a list, appending an action or putting one in front,
\* adds that action's tool and nothing else.
LEMMA AddedActions ==
  ASSUME NEW s, IsActions(s), NEW a, {"tool", "args"} \subseteq DOMAIN a
  PROVE  /\ IsActions(Append(s, a)) /\ ToolsOf(Append(s, a)) = ToolsOf(s) \cup {a.tool}
         /\ IsActions(<<a>> \o s) /\ ToolsOf(<<a>> \o s) = ToolsOf(s) \cup {a.tool}
         /\ DOMAIN (<<a>> \o s) = 1 .. Len(s) + 1 /\ (<<a>> \o s)[1] = a
         /\ \A i \in DOMAIN s : (<<a>> \o s)[i + 1] = s[i]
<1> DEFINE S == {s[i] : i \in DOMAIN s} \cup {a}
           t == Append(s, a)
           u == <<a>> \o s
           n == Len(s)
<1>1. s \in Seq(S) /\ a \in S BY DEF IsActions
<1> HIDE DEF S
<1>2. n \in Nat /\ DOMAIN s = 1 .. n BY <1>1
<1>3. /\ t \in Seq(S) /\ DOMAIN t = 1 .. n + 1 /\ t[n + 1] = a
      /\ \A i \in 1 .. n : t[i] = s[i]
  BY <1>1, <1>2
<1>4. /\ u \in Seq(S) /\ DOMAIN u = 1 .. n + 1 /\ u[1] = a
      /\ \A i \in 1 .. n : u[i + 1] = s[i]
  <2>1. <<a>> \in Seq(S) /\ Len(<<a>>) = 1 /\ <<a>>[1] = a BY <1>1
  <2>2. u \in Seq(S) /\ Len(u) = n + 1 BY <1>1, <1>2, <2>1
  <2>3. u[1] = a BY <1>1, <1>2, <2>1
  <2>4. \A i \in 1 .. n : u[i + 1] = s[i] BY <1>1, <1>2, <2>1
  <2> QED BY <1>2, <2>2, <2>3, <2>4
<1>5. \A i \in 1 .. n + 1 : i = 1 \/ (i - 1 \in 1 .. n /\ i = (i - 1) + 1) BY <1>2
<1>6. \A i \in 1 .. n + 1 : i = n + 1 \/ i \in 1 .. n BY <1>2
<1>7. \A i \in 1 .. n : i + 1 \in 1 .. n + 1 /\ i \in 1 .. n + 1 BY <1>2
<1>8. 1 \in 1 .. n + 1 /\ n + 1 \in 1 .. n + 1 BY <1>2
<1> HIDE DEF t, u, n
<1>9. t = [i \in 1 .. n + 1 |-> t[i]] /\ u = [i \in 1 .. n + 1 |-> u[i]] BY <1>3, <1>4
<1>10. t \in Seq({t[i] : i \in DOMAIN t}) /\ u \in Seq({u[i] : i \in DOMAIN u})
  BY <1>2, <1>3, <1>4, <1>9
<1>11. \A i \in 1 .. n + 1 : {"tool", "args"} \subseteq DOMAIN t[i]
  BY <1>2, <1>3, <1>6 DEF IsActions
<1>12. \A i \in 1 .. n + 1 : {"tool", "args"} \subseteq DOMAIN u[i]
  BY <1>2, <1>4, <1>5 DEF IsActions
<1>13. ToolsOf(t) = ToolsOf(s) \cup {a.tool} BY <1>2, <1>3, <1>6, <1>7, <1>8 DEF ToolsOf
<1>14. ToolsOf(u) = ToolsOf(s) \cup {a.tool}
  <2>1. ToolsOf(u) \subseteq ToolsOf(s) \cup {a.tool} BY <1>2, <1>4, <1>5 DEF ToolsOf
  <2>2. ToolsOf(s) \cup {a.tool} \subseteq ToolsOf(u) BY <1>2, <1>4, <1>7, <1>8 DEF ToolsOf
  <2> QED BY <2>1, <2>2
<1> QED BY <1>2, <1>3, <1>4, <1>10, <1>11, <1>12, <1>13, <1>14 DEF IsActions, t, u, n

\* Removing conflicting movements leaves the other tools (removeActions).
LEMMA WithoutTools ==
  ASSUME NEW s, IsActions(s), NEW tools
  PROVE  IsActions(Without(s, tools)) /\ ToolsOf(Without(s, tools)) = ToolsOf(s) \ tools
<1> DEFINE K == {i \in DOMAIN s : s[i].tool \notin tools}
<1>1. K \in SUBSET DOMAIN s /\ Without(s, tools) = Picked(s, K) BY DEF Without
<1>2. {s[i].tool : i \in K} = ToolsOf(s) \ tools BY DEF ToolsOf
<1> HIDE DEF K
<1> QED BY <1>1, <1>2, PickedActions

\* Looking for a tool in a list is looking into its set of tools (hasAction).
LEMMA HasTools ==
  ASSUME NEW s, NEW tools
  PROVE  Has(s, tools) <=> ToolsOf(s) \cap tools # {}
  BY DEF Has, ToolsOf

\* The tools the guardrails add.
Reflexes == {"flee_from", "face", "investigate", "wander"}

\* The guardrails leave a decision a decision and its line alone, add only reflexes,
\* send a coward under threat away and nowhere else, and act on urgent events only
\* (applyBehaviorGuardrails).
LEMMA GuardedDecides ==
  ASSUME NEW d, IsDecision(d), NEW n, n.courage \in Int, NEW event, NEW place
  PROVE  LET g == Guarded(n, d, event, place) IN
         /\ IsDecision(g)
         /\ g.speech = d.speech
         /\ ToolsOf(g.actions) \subseteq ToolsOf(d.actions) \cup Reflexes
         /\ event = "threat" /\ n.courage < 48 =>
              "flee_from" \in ToolsOf(g.actions) /\ ToolsOf(g.actions) \cap Approaching = {}
         /\ event \notin {"threat", "gunshot"} => g = d
<1> DEFINE g == Guarded(n, d, event, place)
<1>1. \A s, goal : IsActions(s) /\ goal \in Goals \cup {"none"}
         => LET e == [d EXCEPT !.actions = s, !.goal = goal] IN
            IsDecision(e) /\ e.actions = s /\ e.speech = d.speech
  BY DEF IsDecision
<1>2. \A s : IsActions(s)
         => LET e == [d EXCEPT !.actions = s] IN
            IsDecision(e) /\ e.actions = s /\ e.speech = d.speech
  BY DEF IsDecision
<1>3. /\ IsActions(d.actions) /\ d.goal \in Goals \cup {"none"}
      /\ GoalOr(d.goal, "away") \in Goals \cup {"none"}
      /\ GoalOr(d.goal, "alert") \in Goals \cup {"none"}
  BY DEF IsDecision, GoalOr, Goals
<1>4. \A tool \in {"flee_from", "face"} : /\ ToPlayer(tool).tool = tool
                                           /\ {"tool", "args"} \subseteq DOMAIN ToPlayer(tool)
  BY DEF ToPlayer, Action
<1>5. \A tool, args : /\ Action(tool, args).tool = tool
                      /\ {"tool", "args"} \subseteq DOMAIN Action(tool, args)
  BY DEF Action
<1>6. ASSUME NEW s, IsActions(s), NEW a, {"tool", "args"} \subseteq DOMAIN a
      PROVE  IsActions(Append(s, a)) /\ ToolsOf(Append(s, a)) = ToolsOf(s) \cup {a.tool}
  BY <1>6, AddedActions
<1>7. CASE event = "threat" /\ n.courage < 48
  <2> DEFINE rest == Without(d.actions, Approaching)
             s == IF Has(rest, {"flee_from"}) THEN rest ELSE <<ToPlayer("flee_from")>> \o rest
  <2>1. g = [d EXCEPT !.actions = s, !.goal = GoalOr(d.goal, "away")]
    <3>1. g = Fleeing(d) BY <1>7 DEF Guarded
    <3> QED BY <3>1 DEF Fleeing, IsDecision
  <2>2. IsActions(rest) /\ ToolsOf(rest) = ToolsOf(d.actions) \ Approaching BY <1>3, WithoutTools
  <2> HIDE DEF rest
  <2>3. /\ IsActions(s) /\ ToolsOf(s) \subseteq ToolsOf(d.actions) \cup Reflexes
        /\ "flee_from" \in ToolsOf(s) /\ ToolsOf(s) \cap Approaching = {}
    <3>1. CASE Has(rest, {"flee_from"}) BY <2>2, <3>1, HasTools
    <3>2. CASE ~ Has(rest, {"flee_from"})
      <4>1. /\ IsActions(<<ToPlayer("flee_from")>> \o rest)
            /\ ToolsOf(<<ToPlayer("flee_from")>> \o rest) = ToolsOf(rest) \cup {"flee_from"}
        BY <1>4, <2>2, AddedActions
      <4> QED BY <2>2, <3>2, <4>1 DEF Reflexes, Approaching
    <3> QED BY <3>1, <3>2
  <2> HIDE DEF s, g
  <2>4. IsDecision(g) /\ g.actions = s /\ g.speech = d.speech BY <1>1, <1>3, <2>1, <2>3
  <2> QED BY <1>7, <2>3, <2>4 DEF g
<1>8. CASE event = "threat" /\ ~ (n.courage < 48)
  <2>1. g = Facing(d) BY <1>8 DEF Guarded
  <2>2. CASE Has(d.actions, {"face", "look_at"})
    BY <1>8, <2>1, <2>2 DEF Facing
  <2>3. CASE ~ Has(d.actions, {"face", "look_at"})
    <3> DEFINE s == Append(d.actions, ToPlayer("face"))
    <3>1. g = [d EXCEPT !.actions = s] BY <2>1, <2>3 DEF Facing
    <3>2. IsActions(s) /\ ToolsOf(s) = ToolsOf(d.actions) \cup {"face"} BY <1>3, <1>4, <1>6
    <3> HIDE DEF s, g
    <3>3. IsDecision(g) /\ g.actions = s /\ g.speech = d.speech BY <1>2, <3>1, <3>2
    <3> QED BY <1>8, <3>2, <3>3 DEF g, Reflexes
  <2> QED BY <2>2, <2>3
<1>9. CASE event = "gunshot" /\ n.courage >= 55 /\ place = "point"
  <2> DEFINE none == {"wander", "go_to", "follow", "flee_from"}
             look == Action("investigate", Arg("position", place))
             s == IF Has(d.actions, {"investigate"}) THEN d.actions
                  ELSE Append(Without(d.actions, none), look)
  <2>1. g = [d EXCEPT !.actions = s, !.goal = GoalOr(d.goal, "alert")]
    <3>1. g = Investigating(d, place) BY <1>9 DEF Guarded
    <3> QED BY <3>1 DEF Investigating, IsDecision
  <2>2. IsActions(s) /\ ToolsOf(s) \subseteq ToolsOf(d.actions) \cup Reflexes
    <3>1. CASE Has(d.actions, {"investigate"}) BY <1>3, <3>1
    <3>2. CASE ~ Has(d.actions, {"investigate"})
      <4>1. /\ IsActions(Without(d.actions, none))
            /\ ToolsOf(Without(d.actions, none)) \subseteq ToolsOf(d.actions)
        BY <1>3, WithoutTools
      <4>2. look.tool = "investigate" /\ {"tool", "args"} \subseteq DOMAIN look BY <1>5
      <4> HIDE DEF look
      <4>3. /\ IsActions(Append(Without(d.actions, none), look))
            /\ ToolsOf(Append(Without(d.actions, none), look))
                 = ToolsOf(Without(d.actions, none)) \cup {"investigate"}
        BY <4>1, <4>2, <1>6
      <4> QED BY <3>2, <4>1, <4>3 DEF Reflexes
    <3> QED BY <3>1, <3>2
  <2> HIDE DEF s, g
  <2>3. IsDecision(g) /\ g.actions = s /\ g.speech = d.speech BY <1>1, <1>3, <2>1, <2>2
  <2> QED BY <1>9, <2>2, <2>3 DEF g
<1>10. CASE event = "gunshot" /\ ~ (n.courage >= 55 /\ place = "point") /\ n.courage < 40
   <2>1. g = Leaving(d) BY <1>10 DEF Guarded
   <2>2. CASE Has(d.actions, {"wander", "go_to", "flee_from"})
     BY <1>10, <2>1, <2>2 DEF Leaving
   <2>3. CASE ~ Has(d.actions, {"wander", "go_to", "flee_from"})
     <3> DEFINE off == Action("wander", Arg("radius", "number"))
                s == Append(d.actions, off)
     <3>1. g = [d EXCEPT !.actions = s] BY <2>1, <2>3 DEF Leaving
     <3>2. off.tool = "wander" /\ {"tool", "args"} \subseteq DOMAIN off BY <1>5
     <3> HIDE DEF off
     <3>3. IsActions(s) /\ ToolsOf(s) = ToolsOf(d.actions) \cup {"wander"} BY <1>3, <3>2, <1>6
     <3> HIDE DEF s, g
     <3>4. IsDecision(g) /\ g.actions = s /\ g.speech = d.speech BY <1>2, <3>1, <3>3
     <3> QED BY <1>10, <3>3, <3>4 DEF g, Reflexes
   <2> QED BY <2>2, <2>3
<1>11. CASE /\ event # "threat"
            /\ ~ (event = "gunshot" /\ n.courage >= 55 /\ place = "point")
            /\ ~ (event = "gunshot" /\ n.courage < 40)
  <2>1. g = d BY <1>11 DEF Guarded
  <2> QED BY <1>11, <2>1
<1> QED BY <1>7, <1>8, <1>9, <1>10, <1>11

\* Lists of no action and of one.
LEMMA ShortLists ==
  /\ IsActions(<< >>) /\ ToolsOf(<< >>) = {}
  /\ \A a : {"tool", "args"} \subseteq DOMAIN a => IsActions(<<a>>) /\ ToolsOf(<<a>>) = {a.tool}
<1>1. DOMAIN << >> = {} /\ << >> \in Seq({}) OBVIOUS
<1>2. \A a : DOMAIN <<a>> = {1} /\ <<a>>[1] = a OBVIOUS
<1>3. IsActions(<< >>) /\ ToolsOf(<< >>) = {} BY <1>1 DEF IsActions, ToolsOf
<1>4. ASSUME NEW a, {"tool", "args"} \subseteq DOMAIN a
      PROVE  IsActions(<<a>>) /\ ToolsOf(<<a>>) = {a.tool}
  <2>1. {<<a>>[i] : i \in DOMAIN <<a>>} = {a} BY <1>2
  <2>2. <<a>> \in Seq({a}) OBVIOUS
  <2>3. IsActions(<<a>>) BY <1>2, <1>4, <2>1, <2>2 DEF IsActions
  <2>4. ToolsOf(<<a>>) = {a.tool} BY <1>2 DEF ToolsOf
  <2> QED BY <2>3, <2>4
<1> QED BY <1>3, <1>4

\* A spoken line before the actions, or a gesture before them all: the tools of a
\* concatenation are those of its parts (executeDecision).
LEMMA JoinedActions ==
  ASSUME NEW s, IsActions(s), NEW t, IsActions(t)
  PROVE  /\ IsActions(s \o t) /\ ToolsOf(s \o t) = ToolsOf(s) \cup ToolsOf(t)
         /\ Len(s \o t) = Len(s) + Len(t)
<1> DEFINE S == {s[i] : i \in DOMAIN s} \cup {t[i] : i \in DOMAIN t}
           m == Len(s)
           n == Len(t)
           u == s \o t
<1>1. s \in Seq(S) /\ t \in Seq(S) BY DEF IsActions
<1> HIDE DEF S
<1>2. m \in Nat /\ n \in Nat /\ DOMAIN s = 1 .. m /\ DOMAIN t = 1 .. n BY <1>1
<1>3. u \in Seq(S) /\ Len(u) = m + n BY <1>1
<1>4. \A i \in 1 .. m : u[i] = s[i] BY <1>1, <1>2
<1>5. \A i \in 1 .. n : u[i + m] = t[i] BY <1>1, <1>2
<1> HIDE DEF u, m, n
<1>6. DOMAIN u = 1 .. m + n BY <1>2, <1>3
<1>7. u = [i \in 1 .. m + n |-> u[i]] BY <1>3, <1>6
<1>8. u \in Seq({u[i] : i \in DOMAIN u}) BY <1>2, <1>6, <1>7
<1>9. \A i \in 1 .. m + n : i \in 1 .. m \/ (i - m \in 1 .. n /\ i = (i - m) + m) BY <1>2
<1>10. \A i \in 1 .. m + n : (\E j \in 1 .. m : u[i] = s[j]) \/ (\E j \in 1 .. n : u[i] = t[j])
  BY <1>4, <1>5, <1>9
<1>11. \A i \in 1 .. m + n : {"tool", "args"} \subseteq DOMAIN u[i]
  BY <1>2, <1>10 DEF IsActions
<1>12. ToolsOf(u) \subseteq ToolsOf(s) \cup ToolsOf(t) BY <1>2, <1>6, <1>10 DEF ToolsOf
<1>13. ToolsOf(s) \subseteq ToolsOf(u)
  <2>1. \A i \in 1 .. m : i \in 1 .. m + n BY <1>2
  <2> QED BY <1>2, <1>4, <1>6, <2>1 DEF ToolsOf
<1>14. ToolsOf(t) \subseteq ToolsOf(u)
  <2>1. \A i \in 1 .. n : i + m \in 1 .. m + n BY <1>2
  <2> QED BY <1>2, <1>5, <1>6, <2>1 DEF ToolsOf
<1>15. IsActions(u) BY <1>6, <1>8, <1>11 DEF IsActions
<1>16. ToolsOf(u) = ToolsOf(s) \cup ToolsOf(t) BY <1>12, <1>13, <1>14
<1> QED BY <1>2, <1>3, <1>6, <1>10, <1>15, <1>16 DEF u, m, n

\* If both parts hold requests that start, so does their concatenation.
LEMMA JoinedSendable ==
  ASSUME NEW s, IsActions(s), \A i \in DOMAIN s : Sendable(s[i]),
         NEW t, IsActions(t), \A i \in DOMAIN t : Sendable(t[i])
  PROVE  \A i \in DOMAIN (s \o t) : Sendable((s \o t)[i])
<1> DEFINE S == {s[i] : i \in DOMAIN s} \cup {t[i] : i \in DOMAIN t}
<1>1. s \in Seq(S) /\ t \in Seq(S) BY DEF IsActions
<1>2. \A a \in S : Sendable(a) OBVIOUS
<1> HIDE DEF S
<1>3. s \o t \in Seq(S) BY <1>1
<1>4. \A i \in DOMAIN (s \o t) : (s \o t)[i] \in S BY <1>3
<1> QED BY <1>2, <1>4

\* Changing every action of a list, as normalizeAction and the handlers do, leaves a
\* list of actions of the same length.
LEMMA MappedActions ==
  ASSUME NEW s, IsActions(s), NEW t, t = [i \in DOMAIN s |-> t[i]],
         \A i \in DOMAIN s : {"tool", "args"} \subseteq DOMAIN t[i]
  PROVE  IsActions(t) /\ DOMAIN t = DOMAIN s
<1> DEFINE S == {s[i] : i \in DOMAIN s}
           n == Len(s)
<1>1. s \in Seq(S) BY DEF IsActions
<1> HIDE DEF S
<1>2. n \in Nat /\ DOMAIN s = 1 .. n BY <1>1
<1> HIDE DEF n
<1>3. DOMAIN t = 1 .. n BY <1>2
<1>4. t \in Seq({t[i] : i \in DOMAIN t}) BY <1>2, <1>3
<1> QED BY <1>2, <1>3, <1>4 DEF IsActions

\* Whatever the rule backend reads, it returns a decision without a walk to a place,
\* and none at all after the failure of anything but a walk when no threat or help is
\* in its window (Decide, backend/rule.go).
LEMMA RuleDecides ==
  ASSUME NEW n, NEW ctx, ctx.goal \in Goals \cup {"none"}, NEW c \in RuleDecisions(n, ctx)
  PROVE  /\ IsDecision(c)
         /\ "go_to" \notin ToolsOf(c.actions)
         /\ ~ ctx.threat /\ ~ ctx.friend /\ ctx.event = "failed" /\ ctx.tool # "go_to"
              => c.actions = << >> /\ c.speech = "none"
<1> DEFINE Lists == {<< >>, <<ToPlayer("flee_from")>>, <<ToPlayer("look_at")>>,
                     <<Action("investigate", Arg("position", ctx.place))>>,
                     <<Action("wander", Arg("radius", "number"))>>}
           silent == Decision(ctx.goal, "none", << >>)
           hail   == Decision(ctx.goal, "text", <<ToPlayer("look_at")>>)
<1>1. \A tool, args : /\ Action(tool, args).tool = tool
                      /\ {"tool", "args"} \subseteq DOMAIN Action(tool, args)
  BY DEF Action
<1>2. \A tool : ToPlayer(tool).tool = tool /\ {"tool", "args"} \subseteq DOMAIN ToPlayer(tool)
  BY <1>1 DEF ToPlayer
<1>3. \A s \in Lists : IsActions(s) /\ "go_to" \notin ToolsOf(s)
  <2>1. \A a : {"tool", "args"} \subseteq DOMAIN a /\ a.tool # "go_to"
               => IsActions(<<a>>) /\ "go_to" \notin ToolsOf(<<a>>)
    BY ShortLists
  <2>2. IsActions(<< >>) /\ "go_to" \notin ToolsOf(<< >>) BY ShortLists
  <2>3. IsActions(<<ToPlayer("flee_from")>>) /\ "go_to" \notin ToolsOf(<<ToPlayer("flee_from")>>)
    BY <1>2, <2>1
  <2>4. IsActions(<<ToPlayer("look_at")>>) /\ "go_to" \notin ToolsOf(<<ToPlayer("look_at")>>)
    BY <1>2, <2>1
  <2>5. \A tool, args : tool # "go_to"
          => IsActions(<<Action(tool, args)>>) /\ "go_to" \notin ToolsOf(<<Action(tool, args)>>)
    BY <1>1, <2>1
  <2> QED BY <2>2, <2>3, <2>4, <2>5
<1>4. \A goal, speech, s :
        LET e == Decision(goal, speech, s) IN
        /\ e.goal = goal /\ e.speech = speech /\ e.actions = s
        /\ {"goal", "speech", "actions", "internal"} \subseteq DOMAIN e
  BY DEF Decision
<1>5. \A speech : \A goal \in Goals \cup {"none"}, s \in Lists :
        LET e == Decision(goal, speech, s) IN IsDecision(e) /\ "go_to" \notin ToolsOf(e.actions)
  BY <1>3, <1>4 DEF IsDecision
<1>6. /\ << >> \in Lists /\ <<ToPlayer("flee_from")>> \in Lists /\ <<ToPlayer("look_at")>> \in Lists
      /\ <<Action("investigate", Arg("position", ctx.place))>> \in Lists
      /\ <<Action("wander", Arg("radius", "number"))>> \in Lists
  OBVIOUS
<1> HIDE DEF Lists
<1>7. {"away", "stand", "alert", "leave"} \subseteq Goals BY DEF Goals
<1>8. IsDecision(silent) /\ "go_to" \notin ToolsOf(silent.actions)
      /\ silent.actions = << >> /\ silent.speech = "none"
  BY <1>4, <1>5, <1>6
<1>9. IsDecision(hail) /\ "go_to" \notin ToolsOf(hail.actions) BY <1>5, <1>6
<1>10. IsDecision(OnThreat(n)) /\ "go_to" \notin ToolsOf(OnThreat(n).actions)
  BY <1>5, <1>6, <1>7 DEF OnThreat
<1>11. IsDecision(OnGunshot(n, ctx)) /\ "go_to" \notin ToolsOf(OnGunshot(n, ctx).actions)
  BY <1>5, <1>6, <1>7 DEF OnGunshot
<1>12. /\ IsDecision(OnFailure(ctx)) /\ "go_to" \notin ToolsOf(OnFailure(ctx).actions)
       /\ ctx.tool # "go_to" => OnFailure(ctx).actions = << >> /\ OnFailure(ctx).speech = "none"
  BY <1>4, <1>5, <1>6 DEF OnFailure
<1> HIDE DEF silent, hail
<1>13. CASE ctx.threat
  <2>1. c = OnThreat(n) BY <1>13 DEF RuleDecisions
  <2> QED BY <1>10, <1>13, <2>1
<1>14. CASE ~ ctx.threat /\ ctx.friend
  <2>1. c = hail BY <1>14 DEF RuleDecisions, hail
  <2> QED BY <1>9, <1>14, <2>1
<1>15. CASE ~ ctx.threat /\ ~ ctx.friend /\ ctx.event = "failed"
  <2>1. c = OnFailure(ctx) BY <1>15 DEF RuleDecisions
  <2> QED BY <1>12, <2>1
<1>16. CASE ~ ctx.threat /\ ~ ctx.friend /\ ctx.event # "failed"
  <2>1. c \in {silent, hail, OnGunshot(n, ctx)} BY <1>16 DEF RuleDecisions, silent, hail
  <2> QED BY <1>8, <1>9, <1>11, <1>16, <2>1
<1> QED BY <1>13, <1>14, <1>15, <1>16

\* An action that is not dropped is repaired into one with a supported tool, its own
\* or, for a walk to nowhere, wander (normalizeAction).
LEMMA RepairedTool ==
  ASSUME NEW a, {"tool", "args"} \subseteq DOMAIN a, NEW d, NEW place, ~ Lost(a, d, place)
  PROVE  LET r == Repaired(a, d, place) IN
         /\ {"tool", "args"} \subseteq DOMAIN r
         /\ r.tool \in Supported
         /\ r.tool = a.tool \/ (a.tool = "go_to" /\ r.tool = "wander")
<1> DEFINE r == Repaired(a, d, place)
<1>1. a.tool \in Supported BY DEF Lost
<1>2. \A args : LET e == [a EXCEPT !.args = args] IN
                DOMAIN e = DOMAIN a /\ e.tool = a.tool
  OBVIOUS
<1>3. \A tool, args : Action(tool, args).tool = tool /\ DOMAIN Action(tool, args) = {"tool", "args"}
  BY DEF Action
<1>4. \/ r = a
      \/ \E args : r = [a EXCEPT !.args = args]
      \/ \E args : r = Action(a.tool, args)
      \/ a.tool = "go_to" /\ \E args : r = Action("wander", args)
  <2>1. CASE a.tool \in Attending /\ "entity" \notin DOMAIN a.args
    <3>1. r = [a EXCEPT !.args = Put(a.args, "entity", "text")] BY <2>1 DEF Repaired, Attending
    <3> QED BY <3>1
  <2>2. CASE a.tool \in {"wander", "wait"}
    <3>1. \E k : r = [a EXCEPT !.args = Put(a.args, k, "number")]
      BY <2>2 DEF Repaired, Attending
    <3> QED BY <3>1
  <2>3. CASE a.tool = "gesture" /\ "type" \notin DOMAIN a.args
    <3>1. r = [a EXCEPT !.args = Put(a.args, "type", "text")] BY <2>3 DEF Repaired, Attending
    <3> QED BY <3>1
  <2>4. CASE a.tool \in {"stop", "clear_attention"}
    <3>1. r = Action(a.tool, NoArgs) BY <2>4 DEF Repaired, Attending
    <3> QED BY <3>1
  <2>5. CASE a.tool = "go_to" /\ ~ Truthy(Given(a.args, "destination"))
    <3>1. CASE Truthy(d.internal)
      <4>1. r = [a EXCEPT !.args = Put(a.args, "destination", d.internal)]
        BY <2>5, <3>1 DEF Repaired, Attending
      <4> QED BY <4>1
    <3>2. CASE ~ Truthy(d.internal)
      <4>1. r = Action("wander", Arg("radius", "number")) BY <2>5, <3>2 DEF Repaired, Attending
      <4> QED BY <2>5, <4>1
    <3> QED BY <3>1, <3>2
  <2>6. CASE a.tool = "investigate" /\ ~ Truthy(Given(a.args, "position"))
    <3>1. r = [a EXCEPT !.args = Put(a.args, "position", place)] BY <2>6 DEF Repaired, Attending
    <3> QED BY <3>1
  <2>7. CASE /\ ~ (a.tool \in Attending /\ "entity" \notin DOMAIN a.args)
             /\ a.tool \notin {"wander", "wait"}
             /\ ~ (a.tool = "gesture" /\ "type" \notin DOMAIN a.args)
             /\ a.tool \notin {"stop", "clear_attention"}
             /\ ~ (a.tool = "go_to" /\ ~ Truthy(Given(a.args, "destination")))
             /\ ~ (a.tool = "investigate" /\ ~ Truthy(Given(a.args, "position")))
    <3>1. r = a BY <2>7 DEF Repaired
    <3> QED BY <3>1
  <2> HIDE DEF r
  <2> QED BY <2>1, <2>2, <2>3, <2>4, <2>5, <2>6, <2>7
<1> HIDE DEF r
<1>5. CASE r = a BY <1>1, <1>5 DEF r
<1>6. CASE \E args : r = [a EXCEPT !.args = args] BY <1>1, <1>2, <1>6 DEF r
<1>7. CASE \E args : r = Action(a.tool, args) BY <1>1, <1>3, <1>7 DEF r
<1>8. CASE a.tool = "go_to" /\ \E args : r = Action("wander", args)
  BY <1>3, <1>8 DEF r, Supported
<1> QED BY <1>4, <1>5, <1>6, <1>7, <1>8

\* The repair keeps the supported tools only, never loses a flight, and makes no
\* action out of none (stabilizeDecision).
LEMMA KeptActions ==
  ASSUME NEW d, IsDecision(d), NEW place
  PROVE  LET s == Kept(d, place) IN
         /\ IsActions(s)
         /\ ToolsOf(s) \subseteq Supported
         /\ \A tool \in ToolsOf(s) : \/ tool \in ToolsOf(d.actions)
                                     \/ "go_to" \in ToolsOf(d.actions) /\ tool = "wander"
         /\ "flee_from" \in ToolsOf(d.actions) => "flee_from" \in ToolsOf(s)
         /\ d.actions = << >> => s = << >>
<1> DEFINE acts == d.actions
           K == {i \in DOMAIN acts : ~ Duplicate(acts[i], d) /\ ~ Lost(acts[i], d, place)}
           fit == Picked(acts, K)
           s == [i \in DOMAIN fit |-> Repaired(fit[i], d, place)]
<1>1. Kept(d, place) = s BY DEF Kept
<1>2. IsActions(acts) /\ K \in SUBSET DOMAIN acts BY DEF IsDecision
<1>3. \A i \in K : /\ {"tool", "args"} \subseteq DOMAIN acts[i] /\ ~ Lost(acts[i], d, place)
                   /\ acts[i].tool \in ToolsOf(acts)
  BY <1>2 DEF IsActions, ToolsOf
<1>4. \A i \in DOMAIN acts : acts[i].tool = "flee_from" => i \in K
  BY DEF Duplicate, Lost, Supported, Attending
<1>5. acts = << >> => K = {} OBVIOUS
<1> HIDE DEF acts, K
<1>6. /\ IsActions(fit)
      /\ \A k \in DOMAIN fit : \E i \in K : fit[k] = acts[i]
      /\ \A i \in K : \E k \in DOMAIN fit : fit[k] = acts[i]
  BY <1>2, PickedActions
<1> HIDE DEF fit
<1>7. \A k \in DOMAIN fit :
        /\ {"tool", "args"} \subseteq DOMAIN s[k]
        /\ s[k].tool \in Supported
        /\ s[k].tool \in ToolsOf(acts) \/ ("go_to" \in ToolsOf(acts) /\ s[k].tool = "wander")
        /\ fit[k].tool = "flee_from" => s[k].tool = "flee_from"
  <2> SUFFICES ASSUME NEW k \in DOMAIN fit
               PROVE  /\ {"tool", "args"} \subseteq DOMAIN s[k]
                      /\ s[k].tool \in Supported
                      /\ \/ s[k].tool \in ToolsOf(acts)
                         \/ "go_to" \in ToolsOf(acts) /\ s[k].tool = "wander"
                      /\ fit[k].tool = "flee_from" => s[k].tool = "flee_from"
    OBVIOUS
  <2>1. PICK i \in K : fit[k] = acts[i] BY <1>6
  <2> DEFINE a == acts[i]
  <2>2. s[k] = Repaired(a, d, place) BY <2>1
  <2>3. {"tool", "args"} \subseteq DOMAIN a /\ ~ Lost(a, d, place) /\ a.tool \in ToolsOf(acts)
    BY <1>3
  <2> HIDE DEF a, s
  <2>4. /\ {"tool", "args"} \subseteq DOMAIN s[k] /\ s[k].tool \in Supported
        /\ s[k].tool = a.tool \/ (a.tool = "go_to" /\ s[k].tool = "wander")
    BY <2>2, <2>3, RepairedTool
  <2>5. fit[k] = a BY <2>1 DEF a
  <2> QED BY <2>3, <2>4, <2>5
<1>8. IsActions(s) /\ DOMAIN s = DOMAIN fit
  <2>1. s = [i \in DOMAIN fit |-> s[i]] OBVIOUS
  <2> HIDE DEF s
  <2> QED BY <1>6, <1>7, <2>1, MappedActions
<1>9. acts = << >> => s = << >>
  <2> SUFFICES ASSUME acts = << >> PROVE s = << >> OBVIOUS
  <2>1. DOMAIN s = {} BY <1>5, <1>6, <1>8
  <2> HIDE DEF s
  <2>2. s \in Seq({s[i] : i \in DOMAIN s}) BY <1>8 DEF IsActions
  <2>3. Len(s) \in Nat /\ DOMAIN s = 1 .. Len(s) BY <2>2
  <2>4. Len(s) = 0 BY <2>1, <2>3
  <2> QED BY <2>2, <2>4
<1> HIDE DEF s
<1>10. ToolsOf(s) \subseteq Supported
       /\ \A tool \in ToolsOf(s) : \/ tool \in ToolsOf(acts)
                                   \/ "go_to" \in ToolsOf(acts) /\ tool = "wander"
  BY <1>7, <1>8 DEF ToolsOf
<1>11. "flee_from" \in ToolsOf(acts) => "flee_from" \in ToolsOf(s)
  BY <1>4, <1>6, <1>7, <1>8 DEF ToolsOf
<1> QED BY <1>1, <1>8, <1>9, <1>10, <1>11 DEF acts

\* The same of what the registry is called with: the line adds say (executeDecision).
LEMMA CallsActions ==
  ASSUME NEW d, IsDecision(d), NEW v
  PROVE  LET s == Calls(v, d) IN
         /\ IsActions(s)
         /\ ToolsOf(s) \subseteq Supported
         /\ \A tool \in ToolsOf(s) : \/ tool \in ToolsOf(d.actions) \cup {"say"}
                                     \/ "go_to" \in ToolsOf(d.actions) /\ tool = "wander"
         /\ ~ v.overlay /\ "flee_from" \in ToolsOf(d.actions) => "flee_from" \in ToolsOf(s)
         /\ d.actions = << >> /\ d.speech = "none" => s = << >>
<1> DEFINE acts == d.actions
           says == {i \in DOMAIN acts : acts[i].tool = "say"}
           body == IF v.overlay THEN Picked(acts, says) ELSE Kept(d, RecentPosition(v))
           K == {i \in DOMAIN body : body[i].tool # "say" \/ d.speech = "none"}
           first == Spoken(v, d)
           rest == Picked(body, K)
<1>1. Calls(v, d) = first \o rest BY DEF Calls
<1>2. IsActions(acts) BY DEF IsDecision
<1>3. /\ IsActions(body)
      /\ ToolsOf(body) \subseteq Supported
      /\ \A tool \in ToolsOf(body) : \/ tool \in ToolsOf(acts)
                                     \/ "go_to" \in ToolsOf(acts) /\ tool = "wander"
      /\ ~ v.overlay /\ "flee_from" \in ToolsOf(acts) => "flee_from" \in ToolsOf(body)
      /\ acts = << >> => DOMAIN body = {}
  <2>1. CASE v.overlay
    <3>1. says \in SUBSET DOMAIN acts OBVIOUS
    <3>2. /\ \A i \in says : acts[i].tool = "say" /\ acts[i].tool \in ToolsOf(acts)
          /\ acts = << >> => says = {}
      BY DEF ToolsOf
    <3> HIDE DEF acts, says
    <3>3. /\ IsActions(Picked(acts, says))
          /\ ToolsOf(Picked(acts, says)) = {acts[i].tool : i \in says}
          /\ \A k \in DOMAIN Picked(acts, says) : \E i \in says : Picked(acts, says)[k] = acts[i]
      BY <1>2, <3>1, PickedActions
    <3> QED BY <2>1, <3>2, <3>3 DEF Supported
  <2>2. CASE ~ v.overlay
    <3>1. body = Kept(d, RecentPosition(v)) BY <2>2
    <3> HIDE DEF body
    <3>2. /\ IsActions(body) /\ ToolsOf(body) \subseteq Supported
          /\ \A tool \in ToolsOf(body) : \/ tool \in ToolsOf(acts)
                                         \/ "go_to" \in ToolsOf(acts) /\ tool = "wander"
          /\ "flee_from" \in ToolsOf(acts) => "flee_from" \in ToolsOf(body)
          /\ acts = << >> => body = << >>
      BY <3>1, KeptActions
    <3> QED BY <3>2
  <2> QED BY <2>1, <2>2
<1>4. K \in SUBSET DOMAIN body OBVIOUS
<1>5. \A i \in DOMAIN body : body[i].tool = "flee_from" => i \in K OBVIOUS
<1>6. \A i \in DOMAIN body : body[i].tool \in ToolsOf(body) BY DEF ToolsOf
<1> HIDE DEF K, body
<1>7. /\ IsActions(rest) /\ ToolsOf(rest) = {body[i].tool : i \in K}
      /\ \A k \in DOMAIN rest : \E i \in K : rest[k] = body[i]
  BY <1>3, <1>4, PickedActions
<1>8. /\ ToolsOf(rest) \subseteq ToolsOf(body)
      /\ "flee_from" \in ToolsOf(body) => "flee_from" \in ToolsOf(rest)
  <2>1. ToolsOf(rest) \subseteq ToolsOf(body) BY <1>4, <1>6, <1>7
  <2>2. ASSUME "flee_from" \in ToolsOf(body) PROVE "flee_from" \in ToolsOf(rest)
    <3>1. PICK i \in DOMAIN body : body[i].tool = "flee_from" BY <2>2 DEF ToolsOf
    <3>2. i \in K BY <1>5, <3>1
    <3> QED BY <1>7, <3>1, <3>2
  <2> QED BY <2>1, <2>2
<1>9. /\ IsActions(first) /\ ToolsOf(first) \subseteq {"say"}
      /\ d.speech = "none" => first = << >>
  <2> DEFINE line == Action("say", Arg("text", d.speech))
  <2>1. line.tool = "say" /\ {"tool", "args"} \subseteq DOMAIN line BY DEF Action
  <2>2. first = << >> \/ first = <<line>> BY DEF Spoken
  <2>3. d.speech = "none" => first = << >> BY DEF Spoken
  <2> HIDE DEF line, first
  <2> QED BY <2>1, <2>2, <2>3, ShortLists
<1> HIDE DEF first, rest, acts
<1>10. IsActions(first \o rest) /\ ToolsOf(first \o rest) = ToolsOf(first) \cup ToolsOf(rest)
       /\ Len(first \o rest) = Len(first) + Len(rest)
  BY <1>7, <1>9, JoinedActions
<1>11. ASSUME acts = << >>, d.speech = "none" PROVE first \o rest = << >>
  <2>1. first = << >> BY <1>9, <1>11
  <2>2. DOMAIN rest = {} BY <1>3, <1>4, <1>7, <1>11
  <2>3. rest \in Seq({rest[i] : i \in DOMAIN rest}) BY <1>7 DEF IsActions
  <2>4. Len(rest) = 0 /\ rest = << >>
    <3>1. Len(rest) \in Nat /\ DOMAIN rest = 1 .. Len(rest) BY <2>3
    <3>2. Len(rest) = 0 BY <2>2, <3>1
    <3> QED BY <2>3, <3>2
  <2> QED BY <2>1, <2>4
<1>12. ToolsOf(first \o rest) \subseteq Supported BY <1>3, <1>8, <1>9, <1>10 DEF Supported
<1>13. \A tool \in ToolsOf(first \o rest) : \/ tool \in ToolsOf(acts) \cup {"say"}
                                            \/ "go_to" \in ToolsOf(acts) /\ tool = "wander"
  BY <1>3, <1>8, <1>9, <1>10
<1>14. ~ v.overlay /\ "flee_from" \in ToolsOf(acts) => "flee_from" \in ToolsOf(first \o rest)
  BY <1>3, <1>8, <1>10
<1> QED BY <1>1, <1>10, <1>11, <1>12, <1>13, <1>14 DEF acts

\* The same of what reaches the bridge, where every request starts unless its
\* arguments are unusable (Registry.Call).
LEMMA SentActions ==
  ASSUME NEW d, IsDecision(d), NEW v
  PROVE  LET s == Sent(v, d) IN
         /\ IsActions(s)
         /\ \A i \in DOMAIN s : Sendable(s[i])
         /\ \A tool \in ToolsOf(s) : \/ tool \in ToolsOf(d.actions) \cup {"say"}
                                     \/ "go_to" \in ToolsOf(d.actions) /\ tool = "wander"
         /\ ~ v.overlay /\ "flee_from" \in ToolsOf(d.actions) => "flee_from" \in ToolsOf(s)
         /\ d.actions = << >> /\ d.speech = "none" => s = << >>
<1> DEFINE calls == Calls(v, d)
           K == {i \in DOMAIN calls : Accepted(calls[i])}
           accepted == Picked(calls, K)
           s == [i \in DOMAIN accepted |-> Forwarded(accepted[i])]
<1>1. Sent(v, d) = s BY DEF Sent
<1>2. /\ IsActions(calls)
      /\ ToolsOf(calls) \subseteq Supported
      /\ \A tool \in ToolsOf(calls) : \/ tool \in ToolsOf(d.actions) \cup {"say"}
                                      \/ "go_to" \in ToolsOf(d.actions) /\ tool = "wander"
      /\ ~ v.overlay /\ "flee_from" \in ToolsOf(d.actions) => "flee_from" \in ToolsOf(calls)
      /\ d.actions = << >> /\ d.speech = "none" => calls = << >>
  BY CallsActions
<1> HIDE DEF calls
<1>3. K \in SUBSET DOMAIN calls OBVIOUS
<1>4. \A i \in DOMAIN calls : calls[i].tool \in ToolsOf(calls) BY DEF ToolsOf
<1>5. \A i \in K : Accepted(calls[i]) /\ calls[i].tool \in Supported BY <1>2, <1>4
<1>6. \A i \in DOMAIN calls : calls[i].tool = "flee_from" => i \in K
  <2> SUFFICES ASSUME NEW i \in DOMAIN calls, calls[i].tool = "flee_from" PROVE Accepted(calls[i])
    OBVIOUS
  <2>1. Catalog["flee_from"].needs = {} /\ "flee_from" \in Tools
    BY CatalogEntries DEF Attending, Supported
  <2> QED BY <2>1 DEF Accepted
<1> HIDE DEF K
<1>7. /\ IsActions(accepted)
      /\ \A k \in DOMAIN accepted : \E i \in K : accepted[k] = calls[i]
      /\ \A i \in K : \E k \in DOMAIN accepted : accepted[k] = calls[i]
  BY <1>2, <1>3, PickedActions
<1> HIDE DEF accepted
<1>8. \A k \in DOMAIN accepted : /\ Sendable(s[k]) /\ s[k].tool = accepted[k].tool
                                /\ s[k].tool \in ToolsOf(calls)
  <2> SUFFICES ASSUME NEW k \in DOMAIN accepted
               PROVE  /\ Sendable(s[k]) /\ s[k].tool = accepted[k].tool
                      /\ s[k].tool \in ToolsOf(calls)
    OBVIOUS
  <2>1. PICK i \in K : accepted[k] = calls[i] BY <1>7
  <2>2. Accepted(accepted[k]) /\ accepted[k].tool \in Supported \cap ToolsOf(calls)
    BY <1>3, <1>4, <1>5, <2>1
  <2>3. s[k] = Forwarded(accepted[k]) OBVIOUS
  <2> HIDE DEF s
  <2> QED BY <2>2, <2>3, ForwardedStarts
<1>9. s = [i \in DOMAIN accepted |-> s[i]] OBVIOUS
<1>10. DOMAIN s = DOMAIN accepted OBVIOUS
<1> HIDE DEF s
<1>11. IsActions(s)
  <2>1. \A i \in DOMAIN accepted : {"tool", "args"} \subseteq DOMAIN s[i] BY <1>8 DEF Sendable
  <2> QED BY <1>7, <1>9, <2>1, MappedActions
<1>12. ToolsOf(s) \subseteq ToolsOf(calls) BY <1>8, <1>10 DEF ToolsOf
<1>13. "flee_from" \in ToolsOf(calls) => "flee_from" \in ToolsOf(s)
  <2> SUFFICES ASSUME "flee_from" \in ToolsOf(calls) PROVE "flee_from" \in ToolsOf(s) OBVIOUS
  <2>1. PICK i \in DOMAIN calls : calls[i].tool = "flee_from" BY DEF ToolsOf
  <2>2. PICK k \in DOMAIN accepted : accepted[k] = calls[i] BY <1>6, <1>7, <2>1
  <2>3. k \in DOMAIN s /\ s[k].tool = "flee_from" BY <1>8, <1>10, <2>1, <2>2
  <2> QED BY <2>3 DEF ToolsOf
<1>14. calls = << >> => s = << >>
  <2> SUFFICES ASSUME calls = << >> PROVE s = << >> OBVIOUS
  <2>1. DOMAIN s = {} BY <1>3, <1>7, <1>10
  <2>2. s \in Seq({s[i] : i \in DOMAIN s}) BY <1>11 DEF IsActions
  <2>3. Len(s) \in Nat /\ DOMAIN s = 1 .. Len(s) BY <2>2
  <2>4. Len(s) = 0 BY <2>1, <2>3
  <2> QED BY <2>2, <2>4
<1> QED BY <1>1, <1>2, <1>8, <1>10, <1>11, <1>12, <1>13, <1>14

\* A request that fits the view: the executor can start it and, with the rule backend,
\* it is no walk to a place, and the failures in a row behind it are at most half as many
\* as the events since the last threat and since the last help.
Fits(r, v) ==
  /\ {"action", "stage", "tries"} \subseteq DOMAIN r
  /\ Sendable(r.action) /\ r.stage \in Stages /\ r.tries \in Nat
  /\ backend = "rule" => /\ r.action.tool # "go_to"
                         /\ 2 * r.tries <= v.threat /\ 2 * r.tries <= v.helped

\* The view is well-typed and every request on its way fits it.
Sound(v, f) ==
  /\ v \in Views
  /\ DOMAIN f \subseteq Ids
  /\ \A id \in DOMAIN f : Fits(f[id], v)

\* The tools of a turn that answered a threat: a coward flees and approaches nobody.
TurnOK(t) ==
  /\ t \subseteq Tools \cup {"none"}
  /\ t # NoTurn /\ nature.courage < 48 => "flee_from" \in t /\ t \cap Approaching = {}

\* The inductive invariant.  RetriesEnd alone is not inductive: what bounds a count of
\* retries is the age of the threat or the help it answers, which each retry pushes on.
TurnInv ==
  /\ nature \in Cast /\ backend \in Backends /\ budget \in 0 .. MaxIncidents[backend]
  /\ Sound(npc, flight) /\ TurnOK(turn)

\* Every outcome of a message is sound.
AllSound(outcomes) == \A o \in outcomes : Sound(o.npc, o.flight) /\ TurnOK(o.turn)

\* An age stays within its window and never falls; one event makes it one older.
LEMMA OlderSound ==
  ASSUME NEW w \in Nat, NEW a \in 0 .. w, NEW n \in Nat
  PROVE  /\ Older(a, n, w) \in 0 .. w /\ Older(a, n, w) >= a
         /\ n > 0 /\ a < w => Older(a, n, w) >= a + 1
         /\ a = w => Older(a, n, w) = w
         /\ Older(a, 1, w) < w => Older(a, 1, w) = a + 1
  BY DEF Older

\* Logging the events of a turn keeps the view well-typed (Append of the timeline).
LEMMA AgedSound ==
  ASSUME NEW v \in Views, NEW n \in Nat
  PROVE  LET w == Aged(v, n) IN
         /\ w \in Views
         /\ w.own = v.own /\ w.overlay = v.overlay
         /\ w.threat = Older(v.threat, n, Window) /\ w.helped = Older(v.helped, n, Window)
<1> DEFINE w == Aged(v, n)
<1>1. v.threat \in 0 .. Window /\ v.helped \in 0 .. Window /\ v.place \in 0 .. PlaceWindow
  BY DEF Views
<1>2. Window \in Nat /\ PlaceWindow \in Nat BY TurnAssumption
<1>3. CASE n = 0
  <2>1. w = v BY <1>3 DEF Aged
  <2>2. Older(v.threat, n, Window) = v.threat /\ Older(v.helped, n, Window) = v.helped
    BY <1>1, <1>2, <1>3 DEF Older
  <2> QED BY <2>1, <2>2
<1>4. CASE n # 0
  <2> DEFINE a == Older(v.threat, n, Window)
             b == Older(v.helped, n, Window)
             c == Older(v.place, n, PlaceWindow)
  <2>1. a \in 0 .. Window /\ b \in 0 .. Window /\ c \in 0 .. PlaceWindow
    BY <1>1, <1>2, OlderSound
  <2>2. w = [v EXCEPT !.threat = a, !.helped = b, !.place = c, !.latest = Unremarkable]
    BY <1>4 DEF Aged
  <2>3. Unremarkable \in [event : Events \cup {"other"}, place : Places, tool : Tools \cup {"none"}]
    BY DEF Unremarkable, Latest, Places
  <2> HIDE DEF a, b, c, w
  <2>4. w \in Views BY <2>1, <2>2, <2>3 DEF Views
  <2>5. w.own = v.own /\ w.overlay = v.overlay /\ w.threat = a /\ w.helped = b
    BY <2>2 DEF Views
  <2> QED BY <2>4, <2>5 DEF w, a, b
<1> QED BY <1>3, <1>4

\* Requests that fit a view fit an older one: what a retry answers only moves
\* towards the end of the window.
LEMMA LaterSound ==
  ASSUME NEW v, NEW f, Sound(v, f), NEW w \in Views, w.threat >= v.threat, w.helped >= v.helped
  PROVE  Sound(w, f)
<1>1. /\ v.threat \in Nat /\ v.helped \in Nat /\ w.threat \in Nat /\ w.helped \in Nat
  BY TurnAssumption DEF Sound, Views
<1>2. \A r : Fits(r, v) => Fits(r, w) BY <1>1 DEF Fits
<1> QED BY <1>2 DEF Sound

\* So a turn's own events leave view and requests sound.
LEMMA AgedKeeps ==
  ASSUME NEW v, NEW f, Sound(v, f), NEW n \in Nat
  PROVE  Sound(Aged(v, n), f) /\ Aged(v, n).own = v.own /\ Aged(v, n).overlay = v.overlay
<1> DEFINE w == Aged(v, n)
<1>1. v \in Views BY DEF Sound
<1>2. /\ w \in Views /\ w.own = v.own /\ w.overlay = v.overlay
      /\ w.threat = Older(v.threat, n, Window) /\ w.helped = Older(v.helped, n, Window)
  BY <1>1, AgedSound
<1>3. v.threat \in 0 .. Window /\ v.helped \in 0 .. Window /\ Window \in Nat
  BY <1>1, TurnAssumption DEF Views
<1> HIDE DEF w
<1>4. \A a \in 0 .. Window : Older(a, n, Window) >= a BY <1>3, OlderSound
<1>5. w.threat >= v.threat /\ w.helped >= v.helped BY <1>2, <1>3, <1>4
<1>6. Sound(w, f) BY <1>2, <1>5, LaterSound
<1> QED BY <1>2, <1>6 DEF w

\* The events that are logged one by one.
LoggedEvents == [event : Events \cup {"other"}, place : Places, tool : Tools \cup {"none"}]

\* An event that is itself remembered keeps the view well-typed, and ages a threat
\* and a help unless it is one (handleGameEvent, handleActionResult).
LEMMA LoggedSound ==
  ASSUME NEW v \in Views, NEW l \in LoggedEvents
  PROVE  LET w == Logged(v, l) IN
         /\ w \in Views
         /\ l.event \notin {"threat", "helped"} =>
              /\ w.threat = Older(v.threat, 1, Window)
              /\ w.helped = Older(v.helped, 1, Window)
<1> DEFINE w == Logged(v, l)
           aged == Aged(v, 1)
<1>1. /\ aged \in Views
      /\ aged.threat = Older(v.threat, 1, Window) /\ aged.helped = Older(v.helped, 1, Window)
  BY AgedSound
<1>2. Window \in Nat /\ PlaceWindow \in Nat BY TurnAssumption
<1>3. Remarkable(l) \in LoggedEvents BY DEF Remarkable, Unremarkable, Latest, LoggedEvents, Places
<1>4. Logged(v, l) =
        IF backend = "model" THEN [aged EXCEPT !.place = IF l.place = "point" THEN 0 ELSE @]
        ELSE [aged EXCEPT !.threat = IF l.event = "threat" THEN 0 ELSE @,
                          !.helped = IF l.event = "helped" THEN 0 ELSE @,
                          !.latest = Remarkable(l)]
  BY DEF Logged
<1> HIDE DEF aged
<1>5. CASE backend = "model"
  <2>1. w \in Views /\ w.threat = aged.threat /\ w.helped = aged.helped
    BY <1>1, <1>2, <1>4, <1>5 DEF Views
  <2> QED BY <1>1, <2>1
<1>6. CASE backend # "model"
  <2> DEFINE a == IF l.event = "threat" THEN 0 ELSE aged.threat
             b == IF l.event = "helped" THEN 0 ELSE aged.helped
             r == Remarkable(l)
  <2>1. w = [aged EXCEPT !.threat = a, !.helped = b, !.latest = r] BY <1>4, <1>6
  <2>2. a \in 0 .. Window /\ b \in 0 .. Window BY <1>1, <1>2 DEF Views
  <2>3. l.event \notin {"threat", "helped"} => a = aged.threat /\ b = aged.helped OBVIOUS
  <2> HIDE DEF a, b, r, w
  <2>4. r \in LoggedEvents BY <1>3 DEF r
  <2>5. w \in Views BY <1>1, <2>1, <2>2, <2>4 DEF Views, LoggedEvents
  <2>6. w.threat = a /\ w.helped = b BY <1>1, <2>1 DEF Views
  <2> QED BY <1>1, <2>3, <2>5, <2>6 DEF w
<1> QED BY <1>5, <1>6

\* A transition of the manager, and the hand-off after a release, keep both sound
\* (recordTransition).
LEMMA MovedSound ==
  ASSUME NEW v, NEW f, Sound(v, f), NEW to \in OwnStates \cup {NoMove}
  PROVE  Sound(Moved(v, to), f)
<1> DEFINE told == IF EventName(v.own, to) # NoEvent \/ to = "AI_CONVERSATION" THEN 1 ELSE 0
           aged == Aged(v, told)
           w    == [aged EXCEPT !.own = to]
           x    == [w EXCEPT !.own = "ROCKSTAR", !.overlay = FALSE, !.waiting = FALSE]
<1>1. told \in Nat OBVIOUS
<1>2. CASE to = NoMove BY <1>2 DEF Moved
<1>3. CASE to # NoMove
  <2>1. Moved(v, to) = IF to \in {"RELEASE", "ROCKSTAR"} THEN x ELSE w BY <1>3 DEF Moved
  <2> HIDE DEF told
  <2>2. Sound(aged, f) BY <1>1, AgedKeeps
  <2>3. to \in OwnStates /\ "ROCKSTAR" \in OwnStates BY <1>3 DEF OwnStates
  <2>4. aged \in Views BY <2>2 DEF Sound
  <2>5. /\ aged.threat >= aged.threat /\ aged.helped >= aged.helped
    BY <2>4, TurnAssumption DEF Views
  <2> HIDE DEF aged
  <2>6. w \in Views /\ w.threat = aged.threat /\ w.helped = aged.helped BY <2>3, <2>4 DEF Views
  <2> HIDE DEF w
  <2>7. x \in Views /\ x.threat = aged.threat /\ x.helped = aged.helped BY <2>3, <2>6 DEF Views
  <2> HIDE DEF x
  <2>8. Sound(w, f) /\ Sound(x, f) BY <2>2, <2>5, <2>6, <2>7, LaterSound
  <2> QED BY <2>1, <2>8
<1> QED BY <1>2, <1>3

\* The manager's rules move an NPC to a state or nowhere (ownership.go).
LEMMA TargetsSound ==
  ASSUME NEW s \in OwnStates
  PROVE  /\ {QuestTarget(s), TalkTarget(s), HushTarget(s), ReleaseTarget(s)}
              \subseteq OwnStates \cup {NoMove}
         /\ \A band, eligible, trigger :
              ScanTarget(s, band, eligible, trigger) \in OwnStates \cup {NoMove}
<1>1. {QuestTarget(s), TalkTarget(s), HushTarget(s), ReleaseTarget(s)}
        \subseteq OwnStates \cup {NoMove}
  BY DEF QuestTarget, TalkTarget, HushTarget, ReleaseTarget, OwnStates
<1>2. \A band, eligible, trigger :
        ScanTarget(s, band, eligible, trigger)
          \in {"RELEASE", "CANDIDATE", "ROCKSTAR", "AWARE", "AI_ACTIVE", NoMove}
  BY DEF ScanTarget
<1> QED BY <1>1, <1>2 DEF OwnStates

\* So does a scan (handlePedScan).
LEMMA ScannedSound ==
  ASSUME NEW v, NEW f, Sound(v, f), NEW ped, NEW band
  PROVE  Sound(Scanned(v, ped, band), f)
<1> DEFINE q == [v EXCEPT !.overlay = TRUE]
<1>1. v \in Views BY DEF Sound
<1>2. q \in Views /\ q.threat = v.threat /\ q.helped = v.helped BY <1>1 DEF Views
<1>3. v.threat >= v.threat /\ v.helped >= v.helped /\ v.own \in OwnStates
  BY <1>1, TurnAssumption DEF Views
<1> HIDE DEF q
<1>4. Sound(q, f) BY <1>2, <1>3, LaterSound
<1>5. \A to \in OwnStates \cup {NoMove} : Sound(Moved(q, to), f) /\ Sound(Moved(v, to), f)
  BY <1>4, MovedSound
<1>6. /\ ReleaseTarget(v.own) \in OwnStates \cup {NoMove}
      /\ QuestTarget(v.own) \in OwnStates \cup {NoMove}
      /\ \A b, eligible, trigger :
           ScanTarget(v.own, b, eligible, trigger) \in OwnStates \cup {NoMove}
  BY <1>3, TargetsSound
<1>7. /\ Sound(Moved(q, ReleaseTarget(v.own)), f) /\ Sound(Moved(q, QuestTarget(v.own)), f)
      /\ Sound(Moved(v, ReleaseTarget(v.own)), f)
      /\ \A b, eligible, trigger : Sound(Moved(v, ScanTarget(v.own, b, eligible, trigger)), f)
  BY <1>5, <1>6
<1> QED BY <1>4, <1>7 DEF Scanned, q

-----------------------------------------------------------------------------
(* A turn. *)

\* Guardrails, which a quest NPC escapes, and speech policy leave a decision a decision
\* (applyBehaviorGuardrails, applySpeechPolicy).
LEMMA PermittedDecides ==
  ASSUME NEW c, IsDecision(c), nature \in Natures, NEW v, NEW why, NEW trigger, NEW rested
  PROVE  LET d == Permitted(v, c, why, trigger, rested) IN
         /\ IsDecision(d)
         /\ ToolsOf(d.actions) \subseteq ToolsOf(c.actions) \cup Reflexes
         /\ ~ v.overlay /\ trigger.event = "threat" /\ nature.courage < 48 =>
              "flee_from" \in ToolsOf(d.actions) /\ ToolsOf(d.actions) \cap Approaching = {}
         /\ trigger.event \notin {"threat", "gunshot"} =>
              /\ d.actions = c.actions
              /\ c.speech = "none" => d.speech = "none"
<1> DEFINE g == Guarded(nature, c, trigger.event, trigger.place)
           h == IF v.overlay THEN c ELSE g
           d == Permitted(v, c, why, trigger, rested)
<1>1. nature.courage \in Int BY DEF Natures
<1>2. /\ IsDecision(g)
      /\ g.speech = c.speech
      /\ ToolsOf(g.actions) \subseteq ToolsOf(c.actions) \cup Reflexes
      /\ trigger.event = "threat" /\ nature.courage < 48 =>
           "flee_from" \in ToolsOf(g.actions) /\ ToolsOf(g.actions) \cap Approaching = {}
      /\ trigger.event \notin {"threat", "gunshot"} => g = c
  BY <1>1, GuardedDecides
<1> HIDE DEF g
<1>3. /\ IsDecision(h) /\ h.speech = c.speech
      /\ ToolsOf(h.actions) \subseteq ToolsOf(c.actions) \cup Reflexes
      /\ ~ v.overlay /\ trigger.event = "threat" /\ nature.courage < 48 =>
           "flee_from" \in ToolsOf(h.actions) /\ ToolsOf(h.actions) \cap Approaching = {}
      /\ trigger.event \notin {"threat", "gunshot"} => h = c
  BY <1>2
<1>4. d = IF Urgent(why, trigger.event) \/ rested THEN h ELSE [h EXCEPT !.speech = "none"]
  BY DEF Permitted, Voiced, g
<1> HIDE DEF h, d
<1>5. /\ IsDecision(d) /\ d.actions = h.actions
      /\ h.speech = "none" => d.speech = "none"
  BY <1>3, <1>4 DEF IsDecision
<1> QED BY <1>3, <1>5 DEF d

\* What a backend may return: any decision a model makes, and of the rule backend
\* nothing, once the threat and the help are out of its window, for a failure it has no
\* fallback for (Decide).
LEMMA ChosenDecides ==
  ASSUME NEW v \in Views, NEW trigger, NEW c \in Choices(v, trigger)
  PROVE  /\ IsDecision(c)
         /\ backend = "rule" => "go_to" \notin ToolsOf(c.actions)
         /\ (/\ backend = "rule" /\ v.threat = Window /\ v.helped = Window
             /\ trigger.event = "failed" /\ trigger.tool # "go_to")
            => c.actions = << >> /\ c.speech = "none"
<1>1. CASE backend = "rule"
  <2> DEFINE ctx == RuleContext(v, trigger)
  <2>1. /\ ctx.goal = v.goal
        /\ (ctx.threat <=> v.threat < Window) /\ (ctx.friend <=> v.helped < Window)
        /\ trigger # Untriggered => ctx.event = trigger.event /\ ctx.tool = trigger.tool
    BY DEF RuleContext
  <2>2. c \in RuleDecisions(nature, ctx) BY <1>1 DEF Choices
  <2>3. v.goal \in Goals \cup {"none"} /\ v.threat \in 0 .. Window /\ v.helped \in 0 .. Window
    BY DEF Views
  <2>4. trigger.event = "failed" => trigger # Untriggered BY DEF Untriggered, Latest
  <2> HIDE DEF ctx
  <2>5. /\ IsDecision(c)
        /\ "go_to" \notin ToolsOf(c.actions)
        /\ ~ ctx.threat /\ ~ ctx.friend /\ ctx.event = "failed" /\ ctx.tool # "go_to"
             => c.actions = << >> /\ c.speech = "none"
    BY <2>1, <2>2, <2>3, RuleDecides
  <2>6. v.threat = Window => ~ ctx.threat BY <2>1, <2>3, TurnAssumption
  <2>7. v.helped = Window => ~ ctx.friend BY <2>1, <2>3, TurnAssumption
  <2> QED BY <1>1, <2>1, <2>4, <2>5, <2>6, <2>7
<1>2. CASE backend # "rule"
  <2>1. c \in ModelDecisions BY <1>2 DEF Choices
  <2>2. \A d \in ModelDecisions : IsDecision(d) BY TurnAssumption
  <2> QED BY <1>2, <2>1, <2>2
<1> QED BY <1>1, <1>2

\* The actions of a list, and any of them, can be counted.
LEMMA CountedActions ==
  ASSUME NEW s, IsActions(s), NEW K \in SUBSET DOMAIN s
  PROVE  Cardinality(K) \in Nat /\ Len(s) \in Nat
<1> DEFINE S == {s[i] : i \in DOMAIN s}
<1>1. s \in Seq(S) BY DEF IsActions
<1> HIDE DEF S
<1>2. Len(s) \in Nat /\ DOMAIN s = 1 .. Len(s) BY <1>1
<1>3. IsFiniteSet(1 .. Len(s)) BY <1>2, FS_Interval
<1>4. IsFiniteSet(K) BY <1>2, <1>3, FS_Subset
<1>5. Cardinality(K) \in Nat BY <1>4, FS_CardinalityType
<1> QED BY <1>2, <1>5

\* A decision logs at least one event for each request it sends, so the threat it
\* answers ages by as many (executeDecision).
LEMMA AfterTurnSound ==
  ASSUME NEW v, NEW f, Sound(v, f), NEW d, IsDecision(d), NEW sent, IsActions(sent)
  PROVE  LET w == AfterTurn(v, d, sent) IN
         /\ Sound(w, f)
         /\ w.pending = v.pending /\ w.overlay = v.overlay
         /\ \E n \in Nat : /\ n >= Len(sent)
                           /\ w.threat = Older(v.threat, n, Window)
                           /\ w.helped = Older(v.helped, n, Window)
<1> DEFINE w == AfterTurn(v, d, sent)
           news == d.goal \notin {"none", v.goal}
           says == Cardinality({i \in DOMAIN sent : sent[i].tool = "say"})
           n == Refused(v, d) + (IF news THEN 1 ELSE 0) + Len(sent) + says
           aged == Aged(v, n)
           goal == IF news THEN d.goal ELSE aged.goal
<1>1. w = [aged EXCEPT !.goal = goal] BY DEF AfterTurn
<1>2. IsActions(d.actions) /\ d.goal \in Goals \cup {"none"} BY DEF IsDecision
<1>3. Refused(v, d) \in Nat
  <2> DEFINE acts == d.actions
  <2>1. \A K \in SUBSET DOMAIN acts : Cardinality(K) \in Nat BY <1>2, CountedActions
  <2> HIDE DEF acts
  <2>2. \A K : K \subseteq DOMAIN acts => Cardinality(K) \in Nat BY <2>1
  <2>3. CASE v.overlay
    <3> DEFINE K == {i \in DOMAIN acts : acts[i].tool # "say"}
    <3>1. Refused(v, d) = Cardinality(K) BY <2>3 DEF Refused, acts
    <3>2. K \subseteq DOMAIN acts OBVIOUS
    <3> HIDE DEF K
    <3> QED BY <2>2, <3>1, <3>2
  <2>4. CASE ~ v.overlay
    <3> DEFINE place == RecentPosition(v)
               K == {i \in DOMAIN acts : ~ Duplicate(acts[i], d) /\ Lost(acts[i], d, place)}
    <3>1. Refused(v, d) = Cardinality(K) BY <2>4 DEF Refused, LostCount, acts
    <3>2. K \subseteq DOMAIN acts OBVIOUS
    <3> HIDE DEF K
    <3> QED BY <2>2, <3>1, <3>2
  <2> QED BY <2>3, <2>4
<1>4. says \in Nat /\ Len(sent) \in Nat
  <2> DEFINE K == {i \in DOMAIN sent : sent[i].tool = "say"}
  <2>1. K \in SUBSET DOMAIN sent OBVIOUS
  <2> HIDE DEF K
  <2>2. Cardinality(K) \in Nat /\ Len(sent) \in Nat BY <2>1, CountedActions
  <2> QED BY <2>2 DEF K
<1> HIDE DEF w, says
<1>5. n \in Nat /\ n >= Len(sent) BY <1>3, <1>4
<1> HIDE DEF n, news
<1>6. v \in Views BY DEF Sound
<1>7. /\ aged \in Views
      /\ aged.threat = Older(v.threat, n, Window) /\ aged.helped = Older(v.helped, n, Window)
  BY <1>5, <1>6, AgedSound
<1>8. Sound(aged, f) /\ aged.overlay = v.overlay BY <1>5, AgedKeeps
<1>9. aged.pending = v.pending BY <1>6 DEF Aged, Views
<1> HIDE DEF aged
<1>10. goal \in Goals \cup {"none"} BY <1>2, <1>7 DEF Views
<1> HIDE DEF goal
<1>11. w \in Views /\ w.threat = aged.threat /\ w.helped = aged.helped
       /\ w.pending = aged.pending /\ w.overlay = aged.overlay
  BY <1>1, <1>7, <1>10 DEF Views
<1>12. aged.threat >= aged.threat /\ aged.helped >= aged.helped BY <1>7, TurnAssumption DEF Views
<1>13. Sound(w, f) BY <1>8, <1>11, <1>12, LaterSound
<1> QED BY <1>5, <1>7, <1>8, <1>9, <1>11, <1>13 DEF w

\* New requests fit the view when they start, are no walks of the rule backend's, and
\* do not repeat more failures than the threat and the help are old (Dispatch).
LEMMA DispatchSound ==
  ASSUME NEW v, NEW f, Sound(v, f), NEW sent, \A i \in DOMAIN sent : Sendable(sent[i]),
         NEW tries \in Nat, Numberings(v, f, sent) # {},
         backend = "rule" /\ DOMAIN sent # {} =>
           /\ \A i \in DOMAIN sent : sent[i].tool # "go_to"
           /\ 2 * tries <= v.threat /\ 2 * tries <= v.helped
  PROVE  LET out == Dispatch(v, f, sent, tries) IN Sound(out.npc, out.flight)
<1> DEFINE ids   == CHOOSE ids \in Numberings(v, f, sent) : TRUE
           new   == {ids[i] : i \in DOMAIN sent}
           at(k) == CHOOSE i \in DOMAIN sent : ids[i] = k
           asked == {k \in new : sent[at(k)].tool \notin Transient}
           view  == [v EXCEPT !.pending = @ \cup asked]
           way   == [k \in DOMAIN f \cup new |->
                       IF k \in new
                       THEN [action |-> sent[at(k)], stage |-> "sent", tries |-> tries]
                       ELSE f[k]]
<1>1. ids \in [DOMAIN sent -> Ids \ (DOMAIN f \cup v.pending)] BY DEF Numberings
<1>2. new \subseteq Ids /\ new \cap DOMAIN f = {} BY <1>1
<1>3. \A k \in new : at(k) \in DOMAIN sent OBVIOUS
<1>4. asked \subseteq new OBVIOUS
<1>5. new # {} => DOMAIN sent # {} OBVIOUS
<1> HIDE DEF ids, new, at, asked
<1>6. v \in Views BY DEF Sound
<1>7. view \in Views /\ view.threat = v.threat /\ view.helped = v.helped
  BY <1>2, <1>4, <1>6 DEF Views
<1>8. DOMAIN way = DOMAIN f \cup new OBVIOUS
<1>9. \A k \in new : /\ DOMAIN way[k] = {"action", "stage", "tries"}
                     /\ way[k].action = sent[at(k)] /\ way[k].stage = "sent"
                     /\ way[k].tries = tries
  OBVIOUS
<1>10. \A k \in DOMAIN f : way[k] = f[k] BY <1>2
<1> HIDE DEF view, way
<1>11. \A k \in new : Fits(way[k], view) BY <1>3, <1>5, <1>7, <1>9 DEF Fits, Stages
<1>12. \A k \in DOMAIN f : Fits(way[k], view) BY <1>7, <1>10 DEF Sound, Fits
<1>13. DOMAIN way \subseteq Ids BY <1>2, <1>8 DEF Sound
<1>14. Sound(view, way) BY <1>7, <1>8, <1>11, <1>12, <1>13 DEF Sound
<1>15. Dispatch(v, f, sent, tries) = [npc |-> view, flight |-> way]
  BY DEF Dispatch, view, way, asked, new, at, ids
<1> QED BY <1>14, <1>15

\* The arithmetic of retries: while a threat or a help is in the window, the
\* event of the failure and the one of the retry make it two older, and a count of
\* retries of half its age grows by one.
LEMMA RoomToRetry ==
  ASSUME NEW w \in Nat, NEW a \in 0 .. w, NEW b \in 0 .. w, NEW n \in Nat, n > 0, NEW t \in Nat,
         a < w \/ b < w, a < w => 2 * t <= a + 1, b < w => 2 * t <= b + 1
  PROVE  2 * t <= Older(a, n, w) /\ 2 * t <= Older(b, n, w)
<1>1. 2 * t <= w OBVIOUS
<1> QED BY <1>1 DEF Older

\* What a turn of the rule backend may do as its tries-th retry: nothing that walks to a
\* place, and nothing at all once threat and help are out of the window.
Answerable(v, d, tries) ==
  backend = "rule" =>
    /\ "go_to" \notin ToolsOf(d.actions)
    /\ tries # 0 =>
         /\ v.threat < Window => 2 * tries <= v.threat + 1
         /\ v.helped < Window => 2 * tries <= v.helped + 1
         /\ v.threat = Window /\ v.helped = Window => d.actions = << >> /\ d.speech = "none"

\* The guardrail's promise for the decision of a turn.
Flees(v, d, event) ==
  ~ v.overlay /\ event = "threat" /\ nature.courage < 48 =>
    "flee_from" \in ToolsOf(d.actions) /\ ToolsOf(d.actions) \cap Approaching = {}

\* A decision taken leaves view, requests and turn sound (executeDecision).
LEMMA TakenSound ==
  ASSUME NEW v, NEW f, Sound(v, f), NEW d, IsDecision(d), NEW event,
         NEW first, first = << >> \/ (first = <<Think>> /\ backend # "rule"), NEW tries \in Nat,
         Answerable(v, d, tries), Flees(v, d, event)
  PROVE  AllSound(Taken(v, f, d, event, first, tries))
<1> DEFINE sent == Sent(v, d)
           after == AfterTurn(v, d, sent)
           all == first \o sent
           out == Dispatch(after, f, all, tries)
           tools == {sent[i].tool : i \in DOMAIN sent}
           taken == IF event = "threat" /\ ~ v.overlay THEN tools ELSE NoTurn
<1>1. \A o \in Taken(v, f, d, event, first, tries) :
        /\ Numberings(v, f, all) # {}
        /\ o.npc = out.npc /\ o.flight = out.flight /\ o.turn = taken
  <2>1. Taken(v, f, d, event, first, tries) =
          IF Numberings(v, f, all) = {} THEN {} ELSE {Outcome(out.npc, out.flight, taken)}
    BY DEF Taken
  <2>2. \A w, g, t : LET o == Outcome(w, g, t) IN o.npc = w /\ o.flight = g /\ o.turn = t
    BY DEF Outcome
  <2> HIDE DEF out, taken, all, sent, after
  <2> QED BY <2>1, <2>2
<1>2. /\ IsActions(sent)
      /\ \A i \in DOMAIN sent : Sendable(sent[i])
      /\ \A tool \in ToolsOf(sent) : \/ tool \in ToolsOf(d.actions) \cup {"say"}
                                     \/ "go_to" \in ToolsOf(d.actions) /\ tool = "wander"
      /\ ~ v.overlay /\ "flee_from" \in ToolsOf(d.actions) => "flee_from" \in ToolsOf(sent)
      /\ d.actions = << >> /\ d.speech = "none" => sent = << >>
  BY SentActions
<1>3. tools = ToolsOf(sent) BY DEF ToolsOf
<1> HIDE DEF sent, tools
<1>4. /\ Sound(after, f) /\ after.pending = v.pending
      /\ \E n \in Nat : /\ n >= Len(sent)
                        /\ after.threat = Older(v.threat, n, Window)
                        /\ after.helped = Older(v.helped, n, Window)
  BY <1>2, AfterTurnSound
<1> HIDE DEF after
<1>5. Numberings(after, f, all) = Numberings(v, f, all) BY <1>4 DEF Numberings
<1>6. \A i \in DOMAIN all : Sendable(all[i])
  <2>1. IsActions(first) /\ \A j \in DOMAIN first : Sendable(first[j])
    <3>1. DOMAIN << >> = {} /\ DOMAIN <<Think>> = {1} /\ <<Think>>[1] = Think OBVIOUS
    <3>2. Sendable(Think) BY ThinkStarts
    <3>3. IsActions(<< >>) /\ IsActions(<<Think>>) BY <3>2, ShortLists DEF Sendable
    <3> QED BY <3>1, <3>2, <3>3
  <2> QED BY <1>2, <2>1, JoinedSendable
<1>7. backend = "rule" => all = sent /\ Len(sent) \in Nat /\ DOMAIN sent = 1 .. Len(sent)
  <2> DEFINE S == {sent[i] : i \in DOMAIN sent}
  <2>1. sent \in Seq(S) BY <1>2 DEF IsActions
  <2> HIDE DEF S
  <2>2. << >> \o sent = sent /\ Len(sent) \in Nat /\ DOMAIN sent = 1 .. Len(sent) BY <2>1
  <2> QED BY <2>2
<1> HIDE DEF all
<1>8. ASSUME backend = "rule", DOMAIN all # {}
      PROVE  /\ \A i \in DOMAIN all : all[i].tool # "go_to"
             /\ 2 * tries <= after.threat /\ 2 * tries <= after.helped
  <2>1. all = sent /\ Len(sent) > 0 BY <1>7, <1>8
  <2>2. "go_to" \notin ToolsOf(sent) BY <1>2, <1>8 DEF Answerable
  <2>3. \A i \in DOMAIN all : all[i].tool # "go_to" BY <2>1, <2>2 DEF ToolsOf
  <2>4. v.threat \in 0 .. Window /\ v.helped \in 0 .. Window /\ Window \in Nat
    BY TurnAssumption DEF Sound, Views
  <2>5. PICK n \in Nat : /\ n > 0
                         /\ after.threat = Older(v.threat, n, Window)
                         /\ after.helped = Older(v.helped, n, Window)
    BY <1>4, <1>7, <1>8, <2>1
  <2>6. CASE tries = 0
    <3>1. after.threat \in 0 .. Window /\ after.helped \in 0 .. Window
      BY <1>4 DEF Sound, Views
    <3> QED BY <2>3, <2>4, <2>6, <3>1
  <2>7. CASE tries # 0
    <3>1. /\ v.threat < Window => 2 * tries <= v.threat + 1
          /\ v.helped < Window => 2 * tries <= v.helped + 1
          /\ ~ (v.threat = Window /\ v.helped = Window)
      <4>1. sent # << >> BY <1>7, <1>8, <2>1
      <4> QED BY <1>2, <1>8, <2>7, <4>1 DEF Answerable
    <3>2. v.threat < Window \/ v.helped < Window BY <2>4, <3>1
    <3>3. /\ 2 * tries <= Older(v.threat, n, Window)
          /\ 2 * tries <= Older(v.helped, n, Window)
      BY <2>4, <2>5, <3>1, <3>2, RoomToRetry
    <3> QED BY <2>3, <2>5, <3>3
  <2> QED BY <2>6, <2>7
<1>9. TurnOK(taken)
  <2>1. ToolsOf(sent) \subseteq Tools BY <1>2 DEF ToolsOf, Sendable
  <2>2. CASE event = "threat" /\ ~ v.overlay
    <3>1. taken = ToolsOf(sent) BY <1>3, <2>2
    <3>2. ASSUME nature.courage < 48
          PROVE  "flee_from" \in ToolsOf(sent) /\ ToolsOf(sent) \cap Approaching = {}
      BY <1>2, <2>2, <3>2 DEF Flees, Approaching
    <3> QED BY <2>1, <3>1, <3>2 DEF TurnOK
  <2>3. CASE ~ (event = "threat" /\ ~ v.overlay) BY <2>3 DEF TurnOK, NoTurn
  <2> QED BY <2>2, <2>3
<1> HIDE DEF taken
<1>10. Numberings(v, f, all) # {} => Sound(out.npc, out.flight)
  BY <1>4, <1>5, <1>6, <1>8, DispatchSound
<1> HIDE DEF out
<1> QED BY <1>1, <1>9, <1>10 DEF AllSound

\* A turn that answers a failure: of what, and how old the threat and the help are that
\* the failed request answered.
Retries(v, tries, l) ==
  backend = "rule" /\ tries # 0 =>
    /\ l.event = "failed" /\ l.tool # "go_to"
    /\ v.threat < Window => 2 * tries <= v.threat + 1
    /\ v.helped < Window => 2 * tries <= v.helped + 1

\* So does none.
LEMMA IdleSound ==
  ASSUME NEW v, NEW f, Sound(v, f)
  PROVE  AllSound(Idle(v, f))
<1>1. TurnOK(NoTurn) BY DEF TurnOK, NoTurn
<1>2. \A o \in Idle(v, f) : o.npc = v /\ o.flight = f /\ o.turn = NoTurn BY DEF Idle, Outcome
<1> QED BY <1>1, <1>2 DEF AllSound

\* So does every way of being asked for one (scheduleReasoning).
LEMMA ReasonSound ==
  ASSUME NEW v, NEW f, Sound(v, f), NEW why, NEW trigger, NEW tries \in Nat,
         Retries(v, tries, trigger), nature \in Natures
  PROVE  AllSound(ReasonAfter(v, f, why, trigger, tries))
<1>1. CASE ~ CanReason(v.own)
  <2>1. ReasonAfter(v, f, why, trigger, tries) = Idle(v, f) BY <1>1 DEF ReasonAfter
  <2> QED BY <2>1, IdleSound
<1>2. CASE CanReason(v.own)
  <2> DEFINE first == IF Gestures(v) THEN <<Think>> ELSE << >>
             seen  == Aged(v, Len(first))
  <2>1. \A o \in ReasonAfter(v, f, why, trigger, tries) :
          \E c \in Choices(seen, trigger) : \E rested \in BOOLEAN :
            o \in Taken(seen, f, Permitted(seen, c, why, trigger, rested), trigger.event,
                        first, tries)
    BY <1>2 DEF ReasonAfter
  <2>2. /\ first = << >> \/ (first = <<Think>> /\ backend # "rule")
        /\ Len(first) \in Nat
        /\ backend = "rule" => seen = v
    BY DEF Gestures, Aged
  <2> HIDE DEF first
  <2>3. Sound(seen, f) BY <2>2, AgedKeeps
  <2> HIDE DEF seen
  <2>4. seen \in Views BY <2>3 DEF Sound
  <2>5. ASSUME NEW c \in Choices(seen, trigger), NEW rested \in BOOLEAN
        PROVE  AllSound(Taken(seen, f, Permitted(seen, c, why, trigger, rested), trigger.event,
                              first, tries))
    <3> DEFINE d == Permitted(seen, c, why, trigger, rested)
    <3>1. /\ IsDecision(c)
          /\ backend = "rule" => "go_to" \notin ToolsOf(c.actions)
          /\ (/\ backend = "rule" /\ seen.threat = Window /\ seen.helped = Window
              /\ trigger.event = "failed" /\ trigger.tool # "go_to")
             => c.actions = << >> /\ c.speech = "none"
      BY <2>4, ChosenDecides
    <3>2. /\ IsDecision(d)
          /\ ToolsOf(d.actions) \subseteq ToolsOf(c.actions) \cup Reflexes
          /\ ~ seen.overlay /\ trigger.event = "threat" /\ nature.courage < 48 =>
              "flee_from" \in ToolsOf(d.actions) /\ ToolsOf(d.actions) \cap Approaching = {}
          /\ trigger.event \notin {"threat", "gunshot"} =>
              /\ d.actions = c.actions
              /\ c.speech = "none" => d.speech = "none"
      BY <3>1, PermittedDecides
    <3> HIDE DEF d
    <3>3. Flees(seen, d, trigger.event) BY <3>2 DEF Flees
    <3>4. Answerable(seen, d, tries)
      <4>1. backend = "rule" => "go_to" \notin ToolsOf(d.actions) BY <3>1, <3>2 DEF Reflexes
      <4>2. ASSUME backend = "rule", tries # 0
            PROVE  /\ seen.threat < Window => 2 * tries <= seen.threat + 1
                   /\ seen.helped < Window => 2 * tries <= seen.helped + 1
                   /\ seen.threat = Window /\ seen.helped = Window
                        => d.actions = << >> /\ d.speech = "none"
        BY <2>2, <3>1, <3>2, <4>2 DEF Retries
      <4> QED BY <4>1, <4>2 DEF Answerable
    <3>5. AllSound(Taken(seen, f, d, trigger.event, first, tries))
      BY <2>2, <2>3, <3>2, <3>3, <3>4, TakenSound
    <3> QED BY <3>5 DEF d
  <2> QED BY <2>1, <2>5 DEF AllSound
<1> QED BY <1>1, <1>2

\* A turn that answers no failure starts a count of retries.
LEMMA AnswerSound ==
  ASSUME NEW v, NEW f, Sound(v, f), NEW why, NEW trigger, nature \in Natures
  PROVE  AllSound(Reason(v, f, why, trigger))
<1>1. Retries(v, 0, trigger) BY DEF Retries
<1> QED BY <1>1, ReasonSound DEF Reason

\* Activating an NPC, or queueing it (makeMeaningful).
LEMMA MeaningfulSound ==
  ASSUME NEW v, NEW f, Sound(v, f), NEW why, NEW trigger, NEW free, nature \in Natures
  PROVE  AllSound(Meaningful(v, f, why, trigger, free))
<1>1. CASE v.own = "AWARE" /\ ~ free
  <2> DEFINE aged == Aged(v, 1)
             queued == [aged EXCEPT !.waiting = TRUE]
  <2>1. Sound(aged, f) BY AgedKeeps
  <2>2. Meaningful(v, f, why, trigger, free) = Idle(queued, f) BY <1>1 DEF Meaningful
  <2> HIDE DEF aged
  <2>3. aged \in Views BY <2>1 DEF Sound
  <2>4. queued \in Views /\ queued.threat = aged.threat /\ queued.helped = aged.helped
        /\ aged.threat >= aged.threat /\ aged.helped >= aged.helped
    <3>1. aged.threat \in Int /\ aged.helped \in Int BY <2>3, TurnAssumption DEF Views
    <3>2. queued \in Views /\ queued.threat = aged.threat /\ queued.helped = aged.helped
      BY <2>3 DEF Views
    <3> QED BY <3>1, <3>2
  <2> HIDE DEF queued
  <2>5. Sound(queued, f) BY <2>1, <2>4, LaterSound
  <2> QED BY <2>2, <2>5, IdleSound
<1>2. CASE ~ (v.own = "AWARE" /\ ~ free)
  <2> DEFINE to == ScanTarget("AWARE", "close", TRUE, TRUE)
             w  == IF v.own = "AWARE" THEN Moved(v, to) ELSE v
  <2>1. to \in OwnStates \cup {NoMove}
    <3>1. to \in {"RELEASE", "CANDIDATE", "ROCKSTAR", "AWARE", "AI_ACTIVE", NoMove}
      BY DEF ScanTarget
    <3> QED BY <3>1 DEF OwnStates
  <2> HIDE DEF to
  <2>2. Sound(w, f) BY <2>1, MovedSound
  <2>3. Meaningful(v, f, why, trigger, free) = Reason(w, f, why, trigger)
    BY <1>2 DEF Meaningful, to
  <2> HIDE DEF w
  <2> QED BY <2>2, <2>3, AnswerSound
<1> QED BY <1>1, <1>2

\* Reacting to an event (reactToEvent).
LEMMA ReactSound ==
  ASSUME NEW v, NEW f, Sound(v, f), NEW l, NEW free, nature \in Natures
  PROVE  AllSound(React(v, f, l, free))
<1>1. AllSound(Meaningful(v, f, "meaningful", l, free)) BY MeaningfulSound
<1>2. AllSound(Reason(v, f, "quest_dialogue", l)) BY AnswerSound
<1>3. AllSound(Idle(v, f)) BY IdleSound
<1>4. v \in Views BY DEF Sound
<1>5. AllSound(Idle([v EXCEPT !.goal = "none"], f))
  <2> DEFINE done == [v EXCEPT !.goal = "none"]
  <2>1. done \in Views /\ done.threat = v.threat /\ done.helped = v.helped
        /\ v.threat >= v.threat /\ v.helped >= v.helped
    BY <1>4, TurnAssumption DEF Views
  <2> HIDE DEF done
  <2>2. Sound(done, f) BY <2>1, LaterSound
  <2>3. AllSound(Idle(done, f)) BY <2>2, IdleSound
  <2> QED BY <2>3 DEF done
<1>6. AllSound(Reason(IF v.own = "AI_CONVERSATION" THEN v ELSE Moved(v, TalkTarget(v.own)),
                      f, "player_spoke", l))
  <2> DEFINE w == IF v.own = "AI_CONVERSATION" THEN v ELSE Moved(v, TalkTarget(v.own))
  <2>1. v.own \in OwnStates BY <1>4 DEF Views
  <2>2. TalkTarget(v.own) \in OwnStates \cup {NoMove} BY <2>1, TargetsSound
  <2>3. Sound(w, f) BY <2>2, MovedSound
  <2> HIDE DEF w
  <2>4. AllSound(Reason(w, f, "player_spoke", l)) BY <2>3, AnswerSound
  <2> QED BY <2>4 DEF w
<1> QED BY <1>1, <1>2, <1>3, <1>5, <1>6 DEF React

\* Idle thinking (maybeScheduleIdleThinking).
LEMMA IdleThinkingSound ==
  ASSUME NEW v, NEW f, Sound(v, f), nature \in Natures
  PROVE  AllSound(IdleThinking(v, f))
<1>1. AllSound(Idle(v, f)) BY IdleSound
<1>2. AllSound(Reason(v, f, "idle", Untriggered)) BY AnswerSound
<1> QED BY <1>1, <1>2 DEF IdleThinking, AllSound

\* A message that leaves a sound outcome, and takes an incident at most, keeps the
\* invariant.
LEMMA SettleSound ==
  ASSUME TurnInv, NEW outcomes, AllSound(outcomes), Settle(outcomes),
         UNCHANGED budget \/ (budget > 0 /\ budget' = budget - 1)
  PROVE  TurnInv'
<1>1. PICK o \in outcomes : npc' = o.npc /\ flight' = o.flight /\ turn' = o.turn
  BY DEF Settle
<1>2. nature' = nature /\ backend' = backend BY DEF Settle
<1>3. Sound(o.npc, o.flight) /\ TurnOK(o.turn) BY <1>1 DEF AllSound
<1>4. Sound(npc, flight)' BY <1>1, <1>2, <1>3 DEF Sound, Fits
<1>5. TurnOK(turn)' BY <1>1, <1>2, <1>3 DEF TurnOK
<1>6. MaxIncidents[backend] \in Nat BY TurnAssumption DEF TurnInv
<1>7. budget' \in 0 .. MaxIncidents[backend] BY <1>6 DEF TurnInv
<1> QED BY <1>2, <1>4, <1>5, <1>7 DEF TurnInv

\* The NPC has a personality throughout.
LEMMA CastNature == TurnInv => nature \in Natures
  BY TurnAssumption DEF TurnInv

-----------------------------------------------------------------------------
(* The steps keep the invariant. *)

\* A game event is news: it starts every count of retries again (handleGameEvent).
LEMMA GameEventSound ==
  ASSUME TurnInv, NEW event \in GameEvents, NEW place \in Places, NEW free,
         GameEvent(event, place, free)
  PROVE  TurnInv'
<1> DEFINE l == Latest(event, place, "none")
           f == [id \in DOMAIN flight |-> [flight[id] EXCEPT !.tries = 0]]
           v == Logged(npc, l)
<1>1. npc \in Views BY DEF TurnInv, Sound
<1>2. l \in LoggedEvents BY DEF Latest, LoggedEvents, GameEvents, Events
<1>3. Settle(React(v, f, l, free)) /\ budget > 0 /\ budget' = budget - 1 BY DEF GameEvent
<1> HIDE DEF l
<1>4. v \in Views BY <1>1, <1>2, LoggedSound
<1> HIDE DEF v
<1>5. Sound(v, f)
  <2>1. DOMAIN f = DOMAIN flight /\ DOMAIN flight \subseteq Ids BY DEF TurnInv, Sound
  <2>2. \A id \in DOMAIN flight : Fits(flight[id], npc) BY DEF TurnInv, Sound
  <2>3. \A id \in DOMAIN flight :
          /\ DOMAIN f[id] = DOMAIN flight[id]
          /\ f[id].action = flight[id].action /\ f[id].stage = flight[id].stage
          /\ f[id].tries = 0
    BY <2>2 DEF Fits
  <2>4. v.threat \in Nat /\ v.helped \in Nat BY <1>4, TurnAssumption DEF Views
  <2> HIDE DEF f
  <2>5. \A id \in DOMAIN flight : Fits(f[id], v) BY <2>2, <2>3, <2>4 DEF Fits
  <2> QED BY <1>4, <2>1, <2>5 DEF Sound
<1> HIDE DEF f
<1>6. AllSound(React(v, f, l, free)) BY <1>5, CastNature, ReactSound
<1> QED BY <1>3, <1>6, SettleSound

\* A scan (handlePedScan).
LEMMA PedScanSound ==
  ASSUME TurnInv, NEW ped, NEW band, PedScan(ped, band)
  PROVE  TurnInv'
<1> DEFINE v == Scanned(npc, ped, band)
<1>1. Sound(v, flight) BY ScannedSound DEF TurnInv
<1>2. Settle(IdleThinking(v, flight)) /\ UNCHANGED budget BY DEF PedScan
<1> HIDE DEF v
<1>3. AllSound(IdleThinking(v, flight)) BY <1>1, CastNature, IdleThinkingSound
<1> QED BY <1>2, <1>3, SettleSound

\* The NPC is in a state of the manager throughout.
LEMMA OwnTyped == TurnInv => npc.own \in OwnStates
  BY DEF TurnInv, Sound, Views

\* A world update (handleWorldUpdate).
LEMMA WorldUpdateSound ==
  ASSUME TurnInv, NEW far, WorldUpdate(far)
  PROVE  TurnInv'
<1> DEFINE to == ScanTarget(npc.own, "far", TRUE, FALSE)
           v  == IF far THEN Moved(npc, to) ELSE npc
<1>1. to \in OwnStates \cup {NoMove} BY OwnTyped, TargetsSound
<1>2. Settle(IdleThinking(v, flight)) /\ UNCHANGED budget BY DEF WorldUpdate
<1> HIDE DEF to
<1>3. Sound(v, flight) BY <1>1, MovedSound DEF TurnInv
<1> HIDE DEF v
<1>4. AllSound(IdleThinking(v, flight)) BY <1>3, CastNature, IdleThinkingSound
<1> QED BY <1>2, <1>4, SettleSound

\* Push-to-talk (handlePushToTalk).
LEMMA TalkSound ==
  ASSUME TurnInv, TalkStart \/ TalkStop
  PROVE  TurnInv'
<1>1. \A v : Sound(v, flight) /\ Settle(Idle(v, flight)) /\ UNCHANGED budget => TurnInv'
  BY IdleSound, SettleSound
<1>2. {TalkTarget(npc.own), HushTarget(npc.own)} \subseteq OwnStates \cup {NoMove}
  BY OwnTyped, TargetsSound
<1>3. CASE TalkStart
  <2> DEFINE v == IF npc.own = "AI_CONVERSATION" THEN Aged(npc, 1)
                  ELSE Moved(npc, TalkTarget(npc.own))
  <2>1. Sound(v, flight)
    <3>1. Sound(Aged(npc, 1), flight) BY AgedKeeps DEF TurnInv
    <3>2. Sound(Moved(npc, TalkTarget(npc.own)), flight) BY <1>2, MovedSound DEF TurnInv
    <3> QED BY <3>1, <3>2
  <2>2. Settle(Idle(v, flight)) /\ UNCHANGED budget BY <1>3 DEF TalkStart
  <2> HIDE DEF v
  <2> QED BY <1>1, <2>1, <2>2
<1>4. CASE TalkStop
  <2> DEFINE w == Moved(npc, HushTarget(npc.own))
             v == Aged(w, 1)
  <2>1. Sound(w, flight) BY <1>2, MovedSound DEF TurnInv
  <2>2. Settle(Idle(v, flight)) /\ UNCHANGED budget BY <1>4 DEF TalkStop
  <2> HIDE DEF w
  <2>3. Sound(v, flight) BY <2>1, AgedKeeps
  <2> HIDE DEF v
  <2> QED BY <1>1, <2>2, <2>3
<1> QED BY <1>3, <1>4

\* A promotion (promoteNextDeferred).
LEMMA PromotedSound ==
  ASSUME TurnInv, Promoted
  PROVE  TurnInv'
<1> DEFINE v == [npc EXCEPT !.waiting = FALSE]
           outcomes == IF npc.own = "AWARE"
                       THEN Meaningful(v, flight, "promoted", Untriggered, TRUE)
                       ELSE Idle(v, flight)
<1>1. Sound(v, flight)
  <2>1. npc \in Views BY DEF TurnInv, Sound
  <2>2. v \in Views /\ v.threat = npc.threat /\ v.helped = npc.helped
        /\ npc.threat >= npc.threat /\ npc.helped >= npc.helped
    <3>1. npc.threat \in Int /\ npc.helped \in Int BY <2>1, TurnAssumption DEF Views
    <3>2. v \in Views /\ v.threat = npc.threat /\ v.helped = npc.helped BY <2>1 DEF Views
    <3> QED BY <3>1, <3>2
  <2> HIDE DEF v
  <2> QED BY <2>2, LaterSound DEF TurnInv
<1>2. Settle(outcomes) /\ UNCHANGED budget BY DEF Promoted
<1> HIDE DEF v
<1>3. AllSound(outcomes) BY <1>1, CastNature, MeaningfulSound, IdleSound
<1> HIDE DEF outcomes
<1> QED BY <1>2, <1>3, SettleSound

\* A result: the failure is logged before the NPC is asked again, so that the threat
\* it answers is one event older than it was (handleActionResult).
LEMMA ReportSound ==
  ASSUME TurnInv, NEW id \in DOMAIN flight, NEW event \in {"failed", "done"}, Report(id, event)
  PROVE  TurnInv'
<1> DEFINE request == flight[id]
           l == Latest(event, "none", request.action.tool)
           w == Logged(npc, l)
           v == [w EXCEPT !.pending = @ \ {id}]
           f == [k \in DOMAIN flight \ {id} |-> flight[k]]
           tries == IF backend = "rule" THEN request.tries + 1 ELSE 0
           outcomes == IF event = "failed" THEN ReasonAfter(v, f, "action_failed", l, tries)
                       ELSE Idle(v, f)
<1>1. Settle(outcomes) /\ UNCHANGED budget BY DEF Report
<1>2. npc \in Views /\ Fits(request, npc) BY DEF TurnInv, Sound
<1>3. request.action.tool \in Tools BY <1>2 DEF Fits, Sendable
<1>4. l \in LoggedEvents BY <1>3 DEF Latest, LoggedEvents, Events, Places
<1>5. l.event = event /\ l.tool = request.action.tool BY DEF Latest
<1> HIDE DEF l
<1>6. /\ w \in Views
      /\ w.threat = Older(npc.threat, 1, Window) /\ w.helped = Older(npc.helped, 1, Window)
  BY <1>2, <1>4, <1>5, LoggedSound
<1>7. npc.threat \in 0 .. Window /\ npc.helped \in 0 .. Window /\ Window \in Nat
  BY <1>2, TurnAssumption DEF Views
<1> HIDE DEF w
<1>8. v \in Views /\ v.threat = w.threat /\ v.helped = w.helped
  <2>1. w \in Views BY <1>6
  <2> HIDE DEF request
  <2> QED BY <2>1 DEF Views
<1>9. DOMAIN f = DOMAIN flight \ {id} /\ \A k \in DOMAIN f : f[k] = flight[k] OBVIOUS
<1> HIDE DEF f, v
<1>10. Sound(v, f)
  <2>1. Sound(npc, f) BY <1>9 DEF TurnInv, Sound
  <2>2. /\ Older(npc.threat, 1, Window) >= npc.threat
        /\ Older(npc.helped, 1, Window) >= npc.helped
    BY <1>7, OlderSound
  <2>3. v.threat >= npc.threat /\ v.helped >= npc.helped BY <1>6, <1>8, <2>2
  <2> QED BY <1>8, <2>1, <2>3, LaterSound
<1>11. tries \in Nat BY <1>2 DEF Fits
<1>12. event = "failed" => Retries(v, tries, l)
  <2> SUFFICES ASSUME event = "failed", backend = "rule"
               PROVE  /\ l.event = "failed" /\ l.tool # "go_to"
                      /\ v.threat < Window => 2 * tries <= v.threat + 1
                      /\ v.helped < Window => 2 * tries <= v.helped + 1
    BY DEF Retries
  <2>1. /\ request.tries \in Nat /\ request.action.tool # "go_to"
        /\ 2 * request.tries <= npc.threat /\ 2 * request.tries <= npc.helped
    BY <1>2 DEF Fits
  <2>2. tries = request.tries + 1 OBVIOUS
  <2> HIDE DEF request, tries
  <2>3. \A a \in 0 .. Window : Older(a, 1, Window) < Window => Older(a, 1, Window) = a + 1
    BY <1>7, OlderSound
  <2>4. v.threat < Window => v.threat = npc.threat + 1 BY <1>6, <1>7, <1>8, <2>3
  <2>5. v.helped < Window => v.helped = npc.helped + 1 BY <1>6, <1>7, <1>8, <2>3
  <2> QED BY <1>5, <1>7, <2>1, <2>2, <2>4, <2>5
<1> HIDE DEF tries, request
<1>13. AllSound(outcomes) BY <1>10, <1>11, <1>12, CastNature, ReasonSound, IdleSound
<1> HIDE DEF outcomes
<1> QED BY <1>1, <1>13, SettleSound

\* A request the bridge starts is the request that was sent (onIpcMessage).
LEMMA StartSound ==
  ASSUME TurnInv, NEW id \in DOMAIN flight, Start(id)
  PROVE  TurnInv'
<1>1. /\ flight' = [flight EXCEPT ![id].stage = "running"] /\ turn' = NoTurn
      /\ UNCHANGED <<nature, backend, npc, budget>>
  BY DEF Start
<1>2. \A k \in DOMAIN flight : Fits(flight[k], npc) BY DEF TurnInv, Sound
<1>3. DOMAIN flight' = DOMAIN flight
      /\ \A k \in DOMAIN flight : /\ DOMAIN flight'[k] = DOMAIN flight[k]
                                  /\ flight'[k].action = flight[k].action
                                  /\ flight'[k].tries = flight[k].tries
                                  /\ flight'[k].stage \in {flight[k].stage, "running"}
  BY <1>1, <1>2 DEF Fits
<1>4. \A k \in DOMAIN flight : Fits(flight'[k], npc) BY <1>2, <1>3 DEF Fits, Stages
<1>5. Sound(npc, flight)' BY <1>1, <1>3, <1>4 DEF TurnInv, Sound, Fits
<1>6. TurnOK(turn)' BY <1>1 DEF TurnOK, NoTurn
<1> QED BY <1>1, <1>5, <1>6 DEF TurnInv

\* A connection that goes down takes requests with it and changes none (ReleaseAll).
LEMMA LinkLostSound ==
  ASSUME TurnInv, LinkLost
  PROVE  TurnInv'
<1>1. PICK down \in SUBSET DOMAIN flight : flight' = [k \in DOMAIN flight \ down |-> flight[k]]
  BY DEF LinkLost
<1>2. /\ turn' = NoTurn /\ UNCHANGED <<nature, backend>> /\ budget > 0 /\ budget' = budget - 1
      /\ npc' = npc \/ npc' = Moved(npc, ReleaseTarget(npc.own))
  BY DEF LinkLost
<1>3. Sound(npc, flight')
  <2>1. DOMAIN flight' = DOMAIN flight \ down /\ \A k \in DOMAIN flight' : flight'[k] = flight[k]
    BY <1>1
  <2> QED BY <2>1 DEF TurnInv, Sound
<1>4. Sound(npc', flight')
  <2>1. ReleaseTarget(npc.own) \in OwnStates \cup {NoMove} BY OwnTyped, TargetsSound
  <2>2. Sound(Moved(npc, ReleaseTarget(npc.own)), flight') BY <1>3, <2>1, MovedSound
  <2> QED BY <1>2, <1>3, <2>2
<1>5. Sound(npc, flight)' BY <1>2, <1>4 DEF Sound, Fits
<1>6. TurnOK(turn)' BY <1>2 DEF TurnOK, NoTurn
<1>7. MaxIncidents[backend] \in Nat BY TurnAssumption DEF TurnInv
<1>8. budget' \in 0 .. MaxIncidents[backend] BY <1>2, <1>7 DEF TurnInv
<1> QED BY <1>2, <1>5, <1>6, <1>8 DEF TurnInv

\* The invariant holds throughout, whatever the model decides, the bridge answers or
\* the player does.
LEMMA SoundAlways == Spec => []TurnInv
<1>1. Init => TurnInv
  <2> SUFFICES ASSUME Init PROVE TurnInv OBVIOUS
  <2>1. npc \in Views /\ DOMAIN flight = {}
    BY TurnAssumption DEF Init, Views, OwnStates, Unremarkable, Latest, Places
  <2>2. Sound(npc, flight) BY <2>1 DEF Sound
  <2>3. TurnOK(turn) BY DEF Init, TurnOK, NoTurn
  <2>4. MaxIncidents[backend] \in Nat BY TurnAssumption DEF Init
  <2>5. budget \in 0 .. MaxIncidents[backend] BY <2>4 DEF Init
  <2> QED BY <2>2, <2>3, <2>5 DEF Init, TurnInv
<1>2. TurnInv /\ [Next]_vars => TurnInv'
  <2> SUFFICES ASSUME TurnInv, [Next]_vars PROVE TurnInv' OBVIOUS
  <2>1. CASE Message
    BY <2>1, GameEventSound, PedScanSound, WorldUpdateSound, TalkSound, PromotedSound DEF Message
  <2>2. CASE Bridge
    BY <2>2, StartSound, ReportSound DEF Bridge, Fail, Complete
  <2>3. CASE LinkLost BY <2>3, LinkLostSound
  <2>4. CASE UNCHANGED vars BY <2>4 DEF vars, TurnInv, Sound, Fits, TurnOK
  <2> QED BY <2>1, <2>2, <2>3, <2>4 DEF Next
<1> QED BY <1>1, <1>2, PTL DEF Spec

-----------------------------------------------------------------------------
(* The theorems. *)

\* Whatever decisions, results, losses and messages follow one another, the runtime's
\* view of the NPC, its requests and the books stay well-typed (Runtime's fields).
THEOREM TypeCorrect == Spec => []TypeOK
<1>1. Spec => []IInv
  <2>1. Init => IInv BY DEF Init, IInv, Owed
  <2>2. IInv /\ [Next]_vars => IInv' BY BooksStep
  <2> QED BY <2>1, <2>2, PTL DEF Spec
<1>2. IInv /\ TurnInv => TypeOK
  <2> SUFFICES ASSUME IInv, TurnInv PROVE TypeOK OBVIOUS
  <2>1. lost \subseteq npc.pending BY DEF IInv, Owed
  <2>2. nature \in Natures /\ backend \in {"rule", "model"} BY TurnAssumption DEF TurnInv
  <2>3. \A id \in DOMAIN flight : Fits(flight[id], npc) BY DEF TurnInv, Sound
  <2>4. \A id \in DOMAIN flight : /\ flight[id].action.tool \in Tools
                                  /\ flight[id].stage \in Stages /\ flight[id].tries \in Nat
    BY <2>3 DEF Fits, Sendable
  <2> QED BY <2>1, <2>2, <2>4 DEF TurnInv, Sound, TurnOK, TypeOK
<1> QED BY <1>1, <1>2, SoundAlways, PTL

\* A coward under threat is sent fleeing and nowhere else, whatever a language model
\* decides and however the runtime repairs it, for every list of actions
\* (applyBehaviorGuardrails, stabilizeDecision, executeDecision, the registry).
THEOREM CowardsFlee == Spec => []CowardFlees
<1>1. TurnInv => CowardFlees BY DEF TurnInv, TurnOK, CowardFlees
<1> QED BY <1>1, SoundAlways, PTL

\* A request whose arguments are of a usable kind fails to start only for a ped or an
\* entity the game does not have, whatever actions are decided: repair, handlers and
\* executor agree on every argument (normalizeAction, tools/*.go, action_executor.cpp).
THEOREM RequestsAreComplete == Spec => []NothingMissingSent
<1>1. TurnInv => NothingMissingSent BY DEF TurnInv, Sound, Fits, Sendable, NothingMissingSent
<1> QED BY <1>1, SoundAlways, PTL

\* With the rule backend a request is never behind more failures in a row than half the
\* window, for every window, whatever fails (handleActionResult, Decide).
THEOREM RetriesAreBounded == Spec => []RetriesEnd
<1>1. TurnInv => RetriesEnd
  <2> SUFFICES ASSUME TurnInv, backend = "rule", NEW id \in DOMAIN flight
               PROVE  2 * flight[id].tries <= Window
    BY DEF RetriesEnd
  <2>1. Fits(flight[id], npc) /\ npc.threat \in 0 .. Window BY DEF TurnInv, Sound, Views
  <2>2. 2 * flight[id].tries <= npc.threat /\ flight[id].tries \in Nat BY <2>1 DEF Fits
  <2> QED BY <2>1, <2>2, TurnAssumption
<1> QED BY <1>1, SoundAlways, PTL
=============================================================================
