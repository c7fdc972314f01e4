-------------------------- MODULE BridgeLinkProofs --------------------------
(***************************************************************************)
(* Safety of the link for any number of connections, lines and resets and  *)
(* any room in the connections.                                            *)
(***************************************************************************)
EXTENDS BridgeLink, FiniteSetTheorems, SequenceTheorems, TLAPS

USE DEF None

\* The goroutines that may still handle messages or release what they took.
Alive == {"reading", "handling", "sending", "replying", "ending"}

\* As long as no two connections were served at once, the one that is served is
\* the current one until it is detached, and what it owns is released by it.
OneBridge ==
    ~ overlap =>
        /\ \A c, d \in Conns : phase[c] \in Served /\ phase[d] \in Served => c = d
        /\ \A c \in Conns : phase[c] \in Alive => current = c
        /\ owned => \E c \in Conns : phase[c] \in Alive \cup {"releasing"}

Shape == /\ phase \in [Conns -> Phases]
         /\ current \in Conns \cup {None}
         /\ overlap \in BOOLEAN

IInv == Shape /\ CurrentIsServed /\ OneBridge

\* A new goroutine makes its connection the current one, and overlaps if another
\* is still served (handleClient).
LEMMA AttachKeeps ==
    ASSUME IInv, NEW c \in Conns, Attach(c)
    PROVE  IInv'
<1>1. Shape' BY DEF IInv, Shape, Attach, Go, Phases
<1>2. CurrentIsServed' BY DEF IInv, Shape, Attach, Go, CurrentIsServed
<1>3. OneBridge'
  <2> SUFFICES ASSUME ~ overlap' PROVE OneBridge' BY DEF OneBridge
  <2>1. ~ overlap /\ \A d \in Conns \ {c} : phase[d] \notin Served BY DEF Attach
  <2>2. phase' = [phase EXCEPT ![c] = "reading"] /\ current' = c /\ owned' = owned
    BY DEF Attach, Go
  <2> QED BY <2>1, <2>2 DEF IInv, Shape, OneBridge, Alive, Served
<1> QED BY <1>1, <1>2, <1>3 DEF IInv

\* A step of a goroutine in its loop leaves it in its loop, or at its end.
LEMMA LoopKeeps ==
    ASSUME IInv, NEW c \in Conns, phase[c] \in Alive \ {"ending"}, NEW p \in Alive, Go(c, p),
           UNCHANGED <<current, overlap>>
    PROVE  IInv'
<1>1. Shape' BY DEF IInv, Shape, Go, Phases, Alive
<1>2. CurrentIsServed' BY DEF IInv, Shape, Go, CurrentIsServed, Alive
<1>3. OneBridge'
  <2> SUFFICES ASSUME ~ overlap PROVE OneBridge' BY DEF OneBridge
  <2>1. \A d \in Conns : /\ phase'[d] \in Served <=> phase[d] \in Served
                         /\ phase'[d] \in Alive <=> phase[d] \in Alive
    BY DEF IInv, Shape, Go, Alive, Served
  <2> QED BY <2>1 DEF IInv, OneBridge
<1> QED BY <1>1, <1>2, <1>3 DEF IInv

\* Detaching, releasing and closing hand what is owned from one to the next.
LEMMA EndKeeps ==
    ASSUME IInv, NEW c \in Conns, Detach(c) \/ ReleaseAll(c) \/ Close(c)
    PROVE  IInv'
<1>1. Shape' BY DEF IInv, Shape, Detach, ReleaseAll, Close, Go, Phases
<1>2. CurrentIsServed' BY DEF IInv, Shape, Detach, ReleaseAll, Close, Go, CurrentIsServed, Conns
<1>3. CASE Detach(c)
  BY <1>1, <1>2, <1>3 DEF IInv, Shape, OneBridge, Alive, Served, Detach, Go
<1>4. CASE ReleaseAll(c)
  BY <1>1, <1>2, <1>4 DEF IInv, Shape, OneBridge, Alive, Served, ReleaseAll, Go
<1>5. CASE Close(c)
  BY <1>1, <1>2, <1>5 DEF IInv, Shape, OneBridge, Alive, Served, Close, Go
<1> QED BY <1>3, <1>4, <1>5

\* Every step of a goroutine is one of these.
LEMMA ServeKeeps ==
    ASSUME IInv, NEW c \in Conns, Serve(c)
    PROVE  IInv'
<1>1. CASE ReadBadLine(c) \/ HandleMessage(c) \/ Handled(c) \/ Write(c) \/ NoReply(c)
           \/ EndOfInput(c)
  BY <1>1, LoopKeeps
     DEF ReadBadLine, HandleMessage, Handled, Write, NoReply, EndOfInput, Reads, Alive
<1>2. CASE TakeWriter(c)
  BY <1>2 DEF TakeWriter, IInv, Shape, CurrentIsServed, OneBridge
<1>3. CASE Attach(c) BY <1>3, AttachKeeps
<1>4. CASE Detach(c) \/ ReleaseAll(c) \/ Close(c) BY <1>4, EndKeeps
<1> QED BY <1>1, <1>2, <1>3, <1>4 DEF Serve

\* What the bridge and the network do changes no goroutine, except that a
\* connection is accepted.
LEMMA OutsideKeeps ==
    ASSUME IInv, Enqueue \/ Worker \/ GameExits \/ GameStarts \/ (\E c \in Conns : Reset(c))
    PROVE  IInv'
<1>1. ASSUME NEW c \in Conns, Connect(c) PROVE IInv'
  BY <1>1 DEF Connect, IInv, Shape, CurrentIsServed, OneBridge, Alive, Served, Phases, Conns
<1>2. CASE UNCHANGED server
  BY <1>2 DEF server, IInv, Shape, CurrentIsServed, OneBridge
<1>3. (\E c \in Conns : Connect(c)) \/ UNCHANGED server
  BY DEF Enqueue, Worker, GameExits, GameStarts, Reset, TakeQueue, SendLine, SendIntoVoid,
         SendFails, BatchSent, Receive, Reconnect
<1> QED BY <1>1, <1>2, <1>3

\* The connection the server writes to is one it serves (handleClient).
LEMMA Inductive == Spec => []IInv
<1>1. Init => IInv
  BY LinkAssumption
     DEF Init, IInv, Shape, CurrentIsServed, OneBridge, Alive, Served, Phases, Conns
<1>2. IInv /\ [Next]_vars => IInv'
  <2> SUFFICES ASSUME IInv, [Next]_vars PROVE IInv' OBVIOUS
  <2>1. CASE Next BY <2>1, OutsideKeeps, ServeKeeps DEF Next
  <2>2. CASE UNCHANGED vars
    BY <2>2 DEF vars, IInv, Shape, CurrentIsServed, OneBridge
  <2> QED BY <2>1, <2>2
<1> QED BY <1>1, <1>2, PTL DEF Spec

\* The runtime never sends on a connection whose goroutine has begun to release
\* its NPCs, however many bridges come and go ("anything ReleaseAll emits is not
\* written to a dying socket", handleClient).
THEOREM NoDyingSocket == Spec => []CurrentIsServed
<1>1. IInv => CurrentIsServed BY DEF IInv
<1> QED BY <1>1, Inductive, PTL

\* Where one bridge follows another, nothing stays owned once the last one is
\* gone; so it takes two served at once to orphan an NPC (handleClient).
THEOREM OneBridgeOrphansNothing == Spec => []OrphansNeedOverlap
<1>1. IInv => OrphansNeedOverlap
  BY DEF IInv, OneBridge, OrphansNeedOverlap, Alive
<1> QED BY <1>1, Inductive, PTL

-----------------------------------------------------------------------------
(* Types. *)

Games == [worker : Workers, conn : Conns \cup {None}, queue : Seq(Lines), batch : Seq(Lines),
          line : 1 .. MaxLines + 1, since : 0 .. MaxConns]
Nets == [up : Seq(Lines), down : 0 .. DownRoom, broken : BOOLEAN, left : BOOLEAN,
         reset : BOOLEAN]

\* The worker has a connection whenever it takes, sends or waits (worker_loop).
Connected == game.worker \in {"taking", "sending", "waiting"} => game.conn \in Conns

TInv == TypeOK /\ Connected

\* A connection holds no message when it is opened.
LEMMA NoMessages == 0 \in 0 .. DownRoom
  BY LinkAssumption

\* A queue with nothing in it is a queue of lines.
LEMMA EmptyQueue == << >> \in Seq(Lines)
  OBVIOUS

\* One connection at a time changes.
LEMMA NetTypes ==
    ASSUME net \in [Conns -> Nets], NEW c \in Conns, NEW one \in Nets,
           net' = [net EXCEPT ![c] = one]
    PROVE  net' \in [Conns -> Nets]
  OBVIOUS

\* The connections ever accepted are as many as there may be.
LEMMA OpenedBound ==
    Cardinality({c \in Conns : phase[c] # "none"}) \in 0 .. MaxConns
<1>1. IsFiniteSet(Conns) /\ Cardinality(Conns) = MaxConns
  BY LinkAssumption, FS_Interval DEF Conns
<1>2. {c \in Conns : phase[c] # "none"} \subseteq Conns OBVIOUS
<1> QED BY <1>1, <1>2, FS_Subset, FS_CardinalityType, LinkAssumption

\* The game's own steps keep the types: queueing, swapping, starting.
LEMMA GameTypes ==
    ASSUME TInv, Enqueue \/ TakeQueue \/ BatchSent \/ GameStarts
    PROVE  TInv'
<1>1. CASE Enqueue
  <2>1. Line(nextLine) \in Lines BY <1>1, LinkAssumption DEF Line, Lines, Enqueue, TInv, TypeOK
  <2>2. Append(game.queue, Line(nextLine)) \in Seq(Lines) BY <2>1 DEF TInv, TypeOK
  <2>3. game \in Games BY DEF TInv, TypeOK, Games
  <2>4. game' \in Games BY <1>1, <2>2, <2>3 DEF Enqueue, Games
  <2>5. nextLine' \in 1 .. MaxLines + 1
    <3>1. nextLine \in Nat /\ 1 <= nextLine /\ nextLine <= MaxLines /\ nextLine' = nextLine + 1
      BY <1>1 DEF Enqueue, TInv, TypeOK
    <3> QED BY <3>1, LinkAssumption
  <2> QED BY <1>1, <2>4, <2>5 DEF Enqueue, server, TInv, TypeOK, Games, Connected
<1>2. CASE TakeQueue
  <2>1. game' \in Games BY <1>2, EmptyQueue DEF TakeQueue, TInv, TypeOK, Games, Workers
  <2> QED BY <1>2, <2>1 DEF TakeQueue, server, TInv, TypeOK, Games, Connected
<1>3. CASE BatchSent
  <2>1. game' \in Games BY <1>3 DEF BatchSent, TInv, TypeOK, Games, Workers
  <2> QED BY <1>3, <2>1 DEF BatchSent, server, TInv, TypeOK, Games, Connected
<1>4. CASE GameStarts
  <2>1. game' \in Games
    BY <1>4, OpenedBound, EmptyQueue DEF GameStarts, Started, TInv, TypeOK, Games, Workers
  <2> QED BY <1>4, <2>1 DEF GameStarts, Started, server, TInv, TypeOK, Games, Connected
<1> QED BY <1>1, <1>2, <1>3, <1>4

\* Sending a line, into a connection or into nothing, keeps the types (send_queued).
LEMMA SendTypes ==
    ASSUME TInv, SendLine \/ SendIntoVoid \/ SendFails
    PROVE  TInv'
<1>1. game \in Games /\ net \in [Conns -> Nets] BY DEF TInv, TypeOK, Games, Nets
<1>2. game.conn \in Conns BY DEF TInv, Connected, SendLine, SendIntoVoid, SendFails
<1>3. game.batch # << >> /\ game.batch \in Seq(Lines)
  BY <1>1 DEF Games, SendLine, SendIntoVoid, SendFails
<1>4. Head(game.batch) \in Lines /\ Tail(game.batch) \in Seq(Lines) BY <1>3
<1>5. CASE SendLine
  <2>1. Append(net[game.conn].up, Head(game.batch)) \in Seq(Lines) BY <1>1, <1>2, <1>4 DEF Nets
  <2>2. net' \in [Conns -> Nets] BY <1>1, <1>2, <1>5, <2>1 DEF SendLine, Nets
  <2>3. game' \in Games BY <1>1, <1>4, <1>5 DEF SendLine, Games
  <2> QED BY <1>5, <2>2, <2>3 DEF SendLine, server, TInv, TypeOK, Games, Nets, Connected
<1>6. CASE SendIntoVoid
  <2>1. game' \in Games BY <1>1, <1>4, <1>6 DEF SendIntoVoid, Games
  <2> QED BY <1>6, <2>1 DEF SendIntoVoid, server, TInv, TypeOK, Games, Connected
<1>7. CASE SendFails
  <2>1. PICK line \in {Head(game.batch), [Head(game.batch) EXCEPT !.whole = FALSE]} :
          game' = [game EXCEPT !.worker = "waiting", !.batch = << >>,
                               !.queue = Requeued(line, game.batch) \o @]
    BY <1>7 DEF SendFails
  <2>2. line \in Lines BY <1>4 DEF Lines
  <2>3. <<line>> \o game.queue \in Seq(Lines) BY <1>1, <2>2 DEF Games
  <2>4. game' \in Games BY <1>1, <2>1, <2>3, EmptyQueue DEF Games, Requeued, Workers
  <2> QED BY <1>7, <2>1, <2>4, <1>2 DEF SendFails, server, TInv, TypeOK, Games, Connected
<1> QED BY <1>5, <1>6, <1>7

\* Reading, reconnecting and leaving keep the types (worker_loop).
LEMMA SocketTypes ==
    ASSUME TInv, Receive \/ Reconnect \/ GameExits \/ \E c \in Conns : Connect(c)
    PROVE  TInv'
<1>1. game \in Games /\ net \in [Conns -> Nets] BY DEF TInv, TypeOK, Games, Nets
<1>2. CASE Receive
  <2>1. game.conn \in Conns BY <1>2 DEF Receive, TInv, Connected
  <2> DEFINE one == [net[game.conn] EXCEPT !.down = 0]
  <2>2. net' \in [Conns -> Nets]
    <3>1. one \in Nets BY <1>1, <2>1, NoMessages DEF Nets
    <3>2. net' = [net EXCEPT ![game.conn] = one] BY <1>2 DEF Receive
    <3> HIDE DEF one
    <3> QED BY <1>1, <2>1, <3>1, <3>2, NetTypes
  <2>3. game' \in Games BY <1>1, <1>2 DEF Receive, Games, Workers
  <2> QED BY <1>2, <2>1, <2>2, <2>3 DEF Receive, server, TInv, TypeOK, Games, Nets, Connected
<1>3. CASE Reconnect
  <2>1. net' \in [Conns -> Nets] BY <1>1, <1>3 DEF Reconnect, Nets
  <2>2. game' \in Games BY <1>1, <1>3 DEF Reconnect, Games, Workers
  <2> QED BY <1>3, <2>1, <2>2 DEF Reconnect, server, TInv, TypeOK, Games, Nets, Connected
<1>4. CASE GameExits
  <2>1. net' \in [Conns -> Nets] BY <1>1, <1>4 DEF GameExits, Nets
  <2>2. game' \in Games BY <1>1, <1>4, EmptyQueue DEF GameExits, Games, Workers
  <2> QED BY <1>4, <2>1, <2>2 DEF GameExits, server, TInv, TypeOK, Games, Nets, Connected
<1>5. ASSUME NEW c \in Conns, Connect(c) PROVE TInv'
  <2>1. Hello \in Lines BY LinkAssumption DEF Hello, Line, Lines
  <2>4. Append(game.queue, Hello) \in Seq(Lines) BY <1>1, <2>1 DEF Games
  <2>2. game' \in Games BY <1>1, <1>5, <2>4 DEF Connect, Games, Workers
  <2>3. phase' \in [Conns -> Phases] BY <1>5 DEF Connect, TInv, TypeOK, Phases
  <2> QED BY <1>5, <1>1, <2>2, <2>3 DEF Connect, TInv, TypeOK, Games, Connected
<1> QED BY <1>2, <1>3, <1>4, <1>5

\* A reset keeps a prefix of what was on its way.
LEMMA NetworkTypes ==
    ASSUME TInv, NEW c \in Conns, Reset(c)
    PROVE  TInv'
<1>1. net \in [Conns -> Nets] BY DEF TInv, TypeOK, Nets
<1>2. PICK k \in 0 .. Len(net[c].up) :
        net' = [net EXCEPT ![c].broken = TRUE, ![c].reset = TRUE, ![c].down = 0,
                           ![c].up = SubSeq(@, 1, k)]
  BY DEF Reset
<1>3. SubSeq(net[c].up, 1, k) \in Seq(Lines)
  <2>1. net[c].up \in Seq(Lines) BY <1>1 DEF Nets
  <2> QED BY <2>1
<1>4. net' \in [Conns -> Nets]
  <2> DEFINE one == [net[c] EXCEPT !.broken = TRUE, !.reset = TRUE, !.down = 0,
                                   !.up = SubSeq(net[c].up, 1, k)]
  <2>1. one \in Nets BY <1>1, <1>3, NoMessages DEF Nets
  <2>2. net' = [net EXCEPT ![c] = one] BY <1>1, <1>2 DEF Nets
  <2> HIDE DEF one
  <2> QED BY <1>1, <2>1, <2>2, NetTypes
<1> QED BY <1>4 DEF Reset, server, TInv, TypeOK, Nets, Connected

\* Every step of a connection's goroutine keeps the types (handleClient).
LEMMA ServeTypes ==
    ASSUME TInv, NEW c \in Conns, Serve(c)
    PROVE  TInv'
<1>1. net \in [Conns -> Nets] /\ net[c] \in Nets /\ net[c].up \in Seq(Lines)
  BY DEF TInv, TypeOK, Nets
<1>2. \A p \in Phases : Go(c, p) => phase' \in [Conns -> Phases] BY DEF Go, TInv, TypeOK
<1>3. Reads(c) => Head(net[c].up) \in Lines /\ Tail(net[c].up) \in Seq(Lines)
  BY <1>1 DEF Reads
<1>4. Reads(c) /\ Scan(c) => net' \in [Conns -> Nets]
  <2> DEFINE one == [net[c] EXCEPT !.up = Tail(@)]
  <2>1. Reads(c) => one \in Nets BY <1>1, <1>3 DEF Nets
  <2>2. Scan(c) => net' = [net EXCEPT ![c] = one] BY DEF Scan
  <2> HIDE DEF one
  <2> QED BY <1>1, <2>1, <2>2, NetTypes
<1>5. CASE Attach(c)
  <2>1. phase' \in [Conns -> Phases] BY <1>2, <1>5 DEF Attach, Phases
  <2> QED BY <1>5, <2>1 DEF Attach, TInv, TypeOK, Connected
<1>6. CASE ReadBadLine(c)
  <2>1. phase' \in [Conns -> Phases] /\ net' \in [Conns -> Nets]
    BY <1>2, <1>4, <1>6 DEF ReadBadLine, Phases
  <2> QED BY <1>6, <2>1 DEF ReadBadLine, TInv, TypeOK, Nets, Connected
<1>7. CASE HandleMessage(c)
  <2>1. phase' \in [Conns -> Phases] /\ net' \in [Conns -> Nets]
    BY <1>2, <1>4, <1>7 DEF HandleMessage, Phases
  <2>2. lock' \in Conns \cup {None} BY <1>7 DEF HandleMessage, TInv, TypeOK
  <2>3. handled' \in [Conns -> Seq(1 .. MaxLines)]
    <3>1. Head(net[c].up).id \in 0 .. MaxLines BY <1>3, <1>7 DEF HandleMessage, Lines
    <3>2. Head(net[c].up).id # Hello.id => Head(net[c].up).id \in 1 .. MaxLines
      BY <3>1, LinkAssumption DEF Hello, Line
    <3>3. handled[c] \in Seq(1 .. MaxLines) BY DEF TInv, TypeOK
    <3>4. Head(net[c].up).id # Hello.id =>
            Append(handled[c], Head(net[c].up).id) \in Seq(1 .. MaxLines)
      BY <3>2, <3>3
    <3> QED BY <1>7, <3>4 DEF HandleMessage, TInv, TypeOK
  <2> QED BY <1>7, <2>1, <2>2, <2>3 DEF HandleMessage, TInv, TypeOK, Nets, Connected
<1>8. CASE Handled(c)
  <2>1. phase' \in [Conns -> Phases] BY <1>2, <1>8 DEF Handled, Phases
  <2>2. /\ lock' \in {lock, None}
        /\ owned' \in {owned, TRUE}
        /\ \/ target' = target
           \/ target' = [target EXCEPT ![c] = c]
           \/ current # None /\ target' = [target EXCEPT ![c] = current]
    BY <1>8 DEF Handled
  <2>3. UNCHANGED <<game, nextLine, net, current, writer, handled, overlap>>
    BY <1>8 DEF Handled
  <2>4. target' \in [Conns -> Conns] BY <2>2 DEF TInv, TypeOK
  <2>5. owned' \in BOOLEAN /\ lock' \in Conns \cup {None} BY <2>2 DEF TInv, TypeOK
  <2> QED BY <2>1, <2>3, <2>4, <2>5 DEF TInv, TypeOK, Connected
<1>9. CASE TakeWriter(c) BY <1>9 DEF TakeWriter, TInv, TypeOK, Connected
<1>10. CASE Write(c)
  <2>1. phase' \in [Conns -> Phases] BY <1>2, <1>10 DEF Write, Phases
  <2>2. target[c] \in Conns /\ net[target[c]].down \in 0 .. DownRoom
    BY <1>1 DEF TInv, TypeOK, Nets
  <2> DEFINE one == [net[target[c]] EXCEPT !.down = @ + 1]
  <2>3. net' \in [Conns -> Nets]
    <3>1. CASE Ended(target[c]) BY <1>1, <1>10, <3>1 DEF Write
    <3>2. CASE ~ Ended(target[c])
      <4>1. one \in Nets
        <5>1. net[target[c]] \in Nets BY <1>1, <2>2
        <5>2. net[target[c]].down < DownRoom BY <1>10, <3>2 DEF Write
        <5>3. net[target[c]].down + 1 \in 0 .. DownRoom BY <2>2, <5>2, LinkAssumption
        <5> QED BY <5>1, <5>3 DEF Nets
      <4>2. net' = [net EXCEPT ![target[c]] = one] BY <1>10, <3>2 DEF Write
      <4> HIDE DEF one
      <4> QED BY <1>1, <2>2, <4>1, <4>2, NetTypes
    <3> QED BY <3>1, <3>2
  <2>4. /\ lock' \in {lock, None} /\ writer' = None
        /\ target' = target \/ target' = [target EXCEPT ![c] = c]
    BY <1>10 DEF Write
  <2>5. UNCHANGED <<game, nextLine, current, owned, handled, overlap>> BY <1>10 DEF Write
  <2>6. target' \in [Conns -> Conns] BY <2>4 DEF TInv, TypeOK
  <2>7. lock' \in Conns \cup {None} /\ writer' \in Conns \cup {None} BY <2>4 DEF TInv, TypeOK
  <2> QED BY <2>1, <2>3, <2>5, <2>6, <2>7 DEF TInv, TypeOK, Nets, Connected
<1>11. CASE NoReply(c) \/ EndOfInput(c)
  <2>1. phase' \in [Conns -> Phases] BY <1>2, <1>11 DEF NoReply, EndOfInput, Phases
  <2> QED BY <1>11, <2>1 DEF NoReply, EndOfInput, TInv, TypeOK, Connected
<1>12. CASE Detach(c) \/ ReleaseAll(c)
  <2>1. phase' \in [Conns -> Phases] BY <1>2, <1>12 DEF Detach, ReleaseAll, Phases
  <2> QED BY <1>12, <2>1 DEF Detach, ReleaseAll, TInv, TypeOK, Connected
<1>13. CASE Close(c)
  <2>1. phase' \in [Conns -> Phases] BY <1>2, <1>13 DEF Close, Phases
  <2> DEFINE one == [net[c] EXCEPT !.broken = TRUE, !.up = << >>]
  <2>2. net' \in [Conns -> Nets]
    <3>1. one \in Nets BY <1>1, EmptyQueue DEF Nets
    <3>2. net' = [net EXCEPT ![c] = one] BY <1>1, <1>13 DEF Close, Nets
    <3> HIDE DEF one
    <3> QED BY <1>1, <3>1, <3>2, NetTypes
  <2> QED BY <1>13, <2>1, <2>2 DEF Close, TInv, TypeOK, Nets, Connected
<1> QED BY <1>5, <1>6, <1>7, <1>8, <1>9, <1>10, <1>11, <1>12, <1>13 DEF Serve

\* The types hold at first.
LEMMA InitTypes ==
    ASSUME Init
    PROVE  TInv
<1>1. game \in Games /\ nextLine \in 1 .. MaxLines + 1
  BY EmptyQueue, LinkAssumption DEF Init, Started, Games, Workers
<1>2. net \in [Conns -> Nets] BY EmptyQueue, LinkAssumption DEF Init, Nets
<1>3. handled \in [Conns -> Seq(1 .. MaxLines)] BY DEF Init
<1> QED BY <1>1, <1>2, <1>3 DEF Init, Started, TInv, TypeOK, Connected, Games, Nets, Phases

\* The link's state keeps its types: no queue holds anything but lines, and no
\* connection more messages than it has room for.
THEOREM TypeCorrect == Spec => []TypeOK
<1>1. Init => TInv BY InitTypes
<1>2. TInv /\ [Next]_vars => TInv'
  <2> SUFFICES ASSUME TInv, [Next]_vars PROVE TInv' OBVIOUS
  <2>1. CASE Next
    BY <2>1, GameTypes, SendTypes, SocketTypes, NetworkTypes, ServeTypes DEF Next, Worker
  <2>2. CASE UNCHANGED vars BY <2>2 DEF vars, TInv, TypeOK, Connected
  <2> QED BY <2>1, <2>2
<1>3. TInv => TypeOK BY DEF TInv
<1> QED BY <1>1, <1>2, <1>3, PTL DEF Spec

-----------------------------------------------------------------------------
(* The order of the lines. *)

\* Real lines have positive numbers; the hello of a connection is not counted.
Below(S, T) == \A a \in S, b \in T : a > 0 /\ b > 0 => a < b
Rising(lines) ==
    \A i, j \in DOMAIN lines :
        i < j /\ lines[i].id > 0 /\ lines[j].id > 0 => lines[i].id < lines[j].id
Ascending(ids) == \A i, j \in DOMAIN ids : i < j => ids[i] < ids[j]

\* The lines still with the bridge, and those that have reached a connection.
Ahead == IdsOf(game.batch) \cup IdsOf(game.queue)
HandledOn(c) == {handled[c][i] : i \in DOMAIN handled[c]}
Passed(c) == HandledOn(c) \cup IdsOf(net[c].up)

\* Every line is behind those the game queued before it: in the queue, in the
\* batch, on a connection, handled, and from one connection to the next.
Sorted ==
    /\ Rising(game.batch) /\ Rising(game.queue) /\ Below(IdsOf(game.batch), IdsOf(game.queue))
    /\ \A c \in Conns : /\ Rising(net[c].up) /\ Ascending(handled[c])
                        /\ Below(HandledOn(c), IdsOf(net[c].up))
                        /\ Below(Passed(c), Ahead)
    /\ \A c, d \in Conns : c < d => Below(Passed(c), Passed(d))
    /\ Below(Ahead \cup UNION {Passed(c) : c \in Conns}, {nextLine})

\* Connections are opened one after the other, and the worker's is the last.
Opened ==
    /\ \A c \in Conns : phase[c] = "none" => Passed(c) = {}
    /\ \A c, d \in Conns : c < d /\ phase[c] = "none" => phase[d] = "none"
    /\ game.conn \in Conns =>
          phase[game.conn] # "none" /\ \A d \in Conns : game.conn < d => phase[d] = "none"

OInv == TInv /\ Sorted /\ Opened

\* A line joins the end of a queue.
LEMMA AppendIds ==
    ASSUME NEW s \in Seq(Lines), NEW x \in Lines
    PROVE  /\ IdsOf(Append(s, x)) = IdsOf(s) \cup {x.id}
           /\ Rising(s) /\ Below(IdsOf(s), {x.id}) => Rising(Append(s, x))
<1> DEFINE t == Append(s, x)
<1>1. /\ t \in Seq(Lines) /\ Len(t) = Len(s) + 1 /\ DOMAIN t = 1 .. Len(s) + 1
      /\ DOMAIN s = 1 .. Len(s) /\ Len(s) \in Nat
      /\ \A i \in 1 .. Len(s) : t[i] = s[i]
      /\ t[Len(s) + 1] = x
  OBVIOUS
<1> HIDE DEF t
<1>2. DOMAIN t = DOMAIN s \cup {Len(s) + 1} BY <1>1
<1>3. IdsOf(t) = IdsOf(s) \cup {x.id} BY <1>1, <1>2 DEF IdsOf
<1>4. ASSUME Rising(s), Below(IdsOf(s), {x.id}) PROVE Rising(t)
  <2> SUFFICES ASSUME NEW i \in DOMAIN t, NEW j \in DOMAIN t, i < j, t[i].id > 0, t[j].id > 0
               PROVE  t[i].id < t[j].id
    BY DEF Rising
  <2>1. i \in DOMAIN s /\ t[i] = s[i] BY <1>1
  <2>2. CASE j \in DOMAIN s BY <1>1, <1>4, <2>1, <2>2 DEF Rising
  <2>3. CASE j = Len(s) + 1
    <3>1. s[i].id \in IdsOf(s) /\ t[j] = x BY <1>1, <2>1, <2>3 DEF IdsOf
    <3> QED BY <1>4, <2>1, <3>1 DEF Below
  <2> QED BY <1>2, <2>2, <2>3
<1> QED BY <1>3, <1>4 DEF t

\* The first line leaves a queue.
LEMMA TailIds ==
    ASSUME NEW s \in Seq(Lines), s # << >>
    PROVE  /\ Head(s) \in Lines /\ Tail(s) \in Seq(Lines)
           /\ IdsOf(s) = {Head(s).id} \cup IdsOf(Tail(s))
           /\ Rising(s) => Rising(Tail(s)) /\ Below({Head(s).id}, IdsOf(Tail(s)))
<1> DEFINE t == Tail(s)
<1>1. /\ Len(s) \in Nat /\ Len(s) > 0 /\ DOMAIN s = 1 .. Len(s) /\ Head(s) = s[1]
      /\ t \in Seq(Lines) /\ DOMAIN t = 1 .. Len(s) - 1
      /\ \A i \in 1 .. Len(s) - 1 : t[i] = s[i + 1]
      /\ Head(s) \in Lines
  OBVIOUS
<1> HIDE DEF t
<1>2. \A i \in DOMAIN t : i + 1 \in DOMAIN s /\ 1 < i + 1 /\ t[i] = s[i + 1] BY <1>1
<1>3. \A i \in DOMAIN s : i # 1 => i - 1 \in DOMAIN t /\ t[i - 1] = s[i] BY <1>1
<1>4. IdsOf(s) = {s[1].id} \cup IdsOf(t)
  <2>1. ASSUME NEW i \in DOMAIN s PROVE s[i].id \in {s[1].id} \cup IdsOf(t)
    BY <1>3 DEF IdsOf
  <2>2. s[1].id \in IdsOf(s) BY <1>1 DEF IdsOf
  <2>3. IdsOf(t) \subseteq IdsOf(s) BY <1>2 DEF IdsOf
  <2> QED BY <2>1, <2>2, <2>3 DEF IdsOf
<1>5. ASSUME Rising(s) PROVE Rising(t) /\ Below({s[1].id}, IdsOf(t))
  <2>1. Rising(t)
    <3> SUFFICES ASSUME NEW i \in DOMAIN t, NEW j \in DOMAIN t, i < j, t[i].id > 0, t[j].id > 0
                 PROVE  t[i].id < t[j].id
      BY DEF Rising
    <3>1. i + 1 < j + 1 BY <1>1
    <3> QED BY <1>2, <1>5, <3>1 DEF Rising
  <2>2. Below({s[1].id}, IdsOf(t))
    <3> SUFFICES ASSUME NEW i \in DOMAIN t, s[1].id > 0, t[i].id > 0 PROVE s[1].id < t[i].id
      BY DEF Below, IdsOf
    <3> QED BY <1>1, <1>2, <1>5 DEF Rising
  <2> QED BY <2>1, <2>2
<1> QED BY <1>1, <1>4, <1>5 DEF t

\* A beginning of a queue holds some of its lines, in their order.
LEMMA PrefixIds ==
    ASSUME NEW s \in Seq(Lines), NEW k \in 0 .. Len(s)
    PROVE  /\ IdsOf(SubSeq(s, 1, k)) \subseteq IdsOf(s)
           /\ Rising(s) => Rising(SubSeq(s, 1, k))
<1> DEFINE t == SubSeq(s, 1, k)
<1>1. DOMAIN t \subseteq DOMAIN s /\ \A i \in DOMAIN t : t[i] = s[i] /\ i \in Nat
  OBVIOUS
<1> HIDE DEF t
<1> QED BY <1>1 DEF IdsOf, Rising, t

\* What is put back goes in front of what was queued since.
LEMMA FrontIds ==
    ASSUME NEW s \in Seq(Lines), NEW x \in Lines
    PROVE  /\ <<x>> \o s \in Seq(Lines)
           /\ IdsOf(<<x>> \o s) = {x.id} \cup IdsOf(s)
           /\ Rising(s) /\ Below({x.id}, IdsOf(s)) => Rising(<<x>> \o s)
<1> DEFINE t == <<x>> \o s
<1>1. /\ t \in Seq(Lines) /\ DOMAIN t = 1 .. Len(s) + 1 /\ Len(s) \in Nat
      /\ DOMAIN s = 1 .. Len(s) /\ t[1] = x
      /\ \A i \in 2 .. Len(s) + 1 : t[i] = s[i - 1]
  OBVIOUS
<1> HIDE DEF t
<1>2. \A i \in DOMAIN t : i # 1 => i - 1 \in DOMAIN s /\ t[i] = s[i - 1] BY <1>1
<1>3. \A i \in DOMAIN s : i + 1 \in DOMAIN t /\ t[i + 1] = s[i] BY <1>1
<1>4. IdsOf(t) = {x.id} \cup IdsOf(s)
  <2>1. ASSUME NEW i \in DOMAIN t PROVE t[i].id \in {x.id} \cup IdsOf(s)
    BY <1>1, <1>2 DEF IdsOf
  <2>2. x.id \in IdsOf(t) BY <1>1 DEF IdsOf
  <2>3. IdsOf(s) \subseteq IdsOf(t) BY <1>3 DEF IdsOf
  <2> QED BY <2>1, <2>2, <2>3 DEF IdsOf
<1>5. ASSUME Rising(s), Below({x.id}, IdsOf(s)) PROVE Rising(t)
  <2> SUFFICES ASSUME NEW i \in DOMAIN t, NEW j \in DOMAIN t, i < j, t[i].id > 0, t[j].id > 0
               PROVE  t[i].id < t[j].id
    BY DEF Rising
  <2>1. j - 1 \in DOMAIN s /\ t[j] = s[j - 1] BY <1>1, <1>2
  <2>2. CASE i = 1 BY <1>1, <1>5, <2>1, <2>2 DEF Below, IdsOf
  <2>3. CASE i # 1
    <3>1. i - 1 \in DOMAIN s /\ t[i] = s[i - 1] /\ i - 1 < j - 1 BY <1>1, <1>2, <2>3
    <3> QED BY <1>5, <2>1, <3>1 DEF Rising
  <2> QED BY <2>2, <2>3
<1> QED BY <1>1, <1>4, <1>5 DEF t

\* The numbers of lines are numbers.
LEMMA IdTypes ==
    ASSUME TInv
    PROVE  \A x \in Ahead \cup UNION {Passed(c) : c \in Conns} : x \in Nat
<1>1. ASSUME NEW s \in Seq(Lines), NEW i \in DOMAIN s PROVE s[i].id \in Nat
  <2>1. s[i] \in Lines BY ElementOfSeq
  <2> QED BY <2>1, LinkAssumption DEF Lines
<1>2. /\ game.queue \in Seq(Lines) /\ game.batch \in Seq(Lines)
      /\ \A c \in Conns : net[c].up \in Seq(Lines) /\ handled[c] \in Seq(1 .. MaxLines)
  BY DEF TInv, TypeOK
<1>3. ASSUME NEW s \in Seq(1 .. MaxLines), NEW i \in DOMAIN s PROVE s[i] \in Nat
  <2>1. \A S : s \in Seq(S) => s[i] \in S BY ElementOfSeq
  <2> QED BY <2>1, LinkAssumption
<1>4. \A c \in Conns : \A x \in HandledOn(c) : x \in Nat BY <1>2, <1>3 DEF HandledOn
<1> QED BY <1>1, <1>2, <1>4 DEF Ahead, Passed, IdsOf

\* What the server, and a reset, do: connections only lose lines, or hand them over.
LEMMA ServerSorts ==
    ASSUME OInv, TInv', UNCHANGED <<game, nextLine>>,
           \A c \in Conns : phase'[c] = "none" <=> phase[c] = "none",
           \A c \in Conns : /\ Passed(c)' \subseteq Passed(c)
                            /\ Rising(net'[c].up) /\ Ascending(handled'[c])
                            /\ Below(HandledOn(c)', IdsOf(net'[c].up))
    PROVE  OInv'
<1>1. Ahead' = Ahead BY DEF Ahead
<1>2. Sorted'
  <2>1. \A c \in Conns : Below(Passed(c)', Ahead) BY DEF OInv, Sorted, Below
  <2>2. \A c, d \in Conns : c < d => Below(Passed(c)', Passed(d)') BY DEF OInv, Sorted, Below
  <2>3. Below(Ahead \cup UNION {Passed(c)' : c \in Conns}, {nextLine})
    BY DEF OInv, Sorted, Below
  <2> QED BY <1>1, <2>1, <2>2, <2>3 DEF OInv, Sorted
<1>3. Opened' BY DEF OInv, Opened
<1> QED BY <1>2, <1>3 DEF OInv

\* Where only the bridge's queues change.
LEMMA QueueSorts ==
    ASSUME OInv, TInv', nextLine' >= nextLine, \A c \in Conns : Passed(c)' = Passed(c),
           \A c \in Conns : net'[c].up = net[c].up, UNCHANGED <<phase, handled>>,
           game'.conn \in {game.conn, None},
           Rising(game'.batch), Rising(game'.queue),
           Below(IdsOf(game'.batch), IdsOf(game'.queue)),
           \A x \in Ahead' : x \in Ahead \/ x = nextLine,
           nextLine \in Ahead' => nextLine' = nextLine + 1
    PROVE  OInv'
<1>1. nextLine \in Nat /\ nextLine' \in Nat BY LinkAssumption DEF OInv, TInv, TypeOK
<1>2. \A x \in Ahead \cup UNION {Passed(c) : c \in Conns} : x \in Nat BY IdTypes DEF OInv
<1>3. \A c \in Conns : Below(Passed(c), Ahead')
  <2> SUFFICES ASSUME NEW c \in Conns, NEW a \in Passed(c), NEW b \in Ahead', a > 0, b > 0
               PROVE  a < b
    BY DEF Below
  <2>1. CASE b \in Ahead BY <2>1 DEF OInv, Sorted, Below
  <2>2. CASE b = nextLine BY <2>2 DEF OInv, Sorted, Below
  <2> QED BY <2>1, <2>2
<1>4. Below(Ahead' \cup UNION {Passed(c) : c \in Conns}, {nextLine'})
  <2> SUFFICES ASSUME NEW a \in Ahead' \cup UNION {Passed(c) : c \in Conns}, a > 0
               PROVE  a < nextLine'
    BY DEF Below
  <2>1. CASE a \in Ahead \cup UNION {Passed(c) : c \in Conns}
    <3>1. nextLine > 0 BY LinkAssumption DEF OInv, TInv, TypeOK
    <3>2. a < nextLine BY <2>1, <3>1 DEF OInv, Sorted, Below
    <3> QED BY <1>1, <1>2, <2>1, <3>2
  <2>2. CASE a = nextLine /\ a \in Ahead' BY <1>1, <2>2
  <2> QED BY <2>1, <2>2
<1>5. Sorted'
  <2>1. \A c \in Conns : /\ Rising(net'[c].up) /\ Ascending(handled'[c])
                          /\ Below(HandledOn(c)', IdsOf(net'[c].up))
    <3>1. \A c \in Conns : HandledOn(c)' = HandledOn(c) BY DEF HandledOn
    <3> QED BY <3>1 DEF OInv, Sorted
  <2>2. \A c, d \in Conns : c < d => Below(Passed(c)', Passed(d)') BY DEF OInv, Sorted
  <2>3. Below(Ahead' \cup UNION {Passed(c)' : c \in Conns}, {nextLine'}) BY <1>4
  <2>4. \A c \in Conns : Below(Passed(c)', Ahead') BY <1>3
  <2> QED BY <2>1, <2>2, <2>3, <2>4 DEF Sorted
<1>6. Opened' BY DEF OInv, Opened, Conns
<1> QED BY <1>5, <1>6 DEF OInv

\* The bridge queues, takes, and forgets or puts back what it could not send
\* (enqueue, send_queued).
LEMMA BridgeSorts ==
    ASSUME OInv, Enqueue \/ TakeQueue \/ SendIntoVoid \/ SendFails \/ BatchSent
    PROVE  OInv'
<1>1. TInv' BY GameTypes, SendTypes DEF OInv
<1>2. game \in Games /\ game.queue \in Seq(Lines) /\ game.batch \in Seq(Lines)
      /\ nextLine \in Nat
  BY LinkAssumption DEF OInv, TInv, TypeOK, Games
<1>3. UNCHANGED <<net, phase, handled>>
  BY DEF Enqueue, TakeQueue, SendIntoVoid, SendFails, BatchSent, server
<1>4. \A c \in Conns : Passed(c)' = Passed(c) /\ net'[c].up = net[c].up
  BY <1>3 DEF Passed, HandledOn
<1>5. Rising(<< >>) /\ IdsOf(<< >>) = {} /\ \A S : Below(S, {}) /\ Below({}, S)
  BY DEF Rising, IdsOf, Below
<1>6. CASE Enqueue
  <2>1. Line(nextLine) \in Lines /\ Line(nextLine).id = nextLine
    BY <1>2, <1>6, LinkAssumption DEF Enqueue, Line, Lines
  <2>2. /\ game'.queue = Append(game.queue, Line(nextLine)) /\ game'.batch = game.batch
        /\ game'.conn = game.conn /\ nextLine' = nextLine + 1
    BY <1>2, <1>6 DEF Enqueue, Games
  <2>3. IdsOf(game'.queue) = IdsOf(game.queue) \cup {nextLine}
    BY <1>2, <2>1, <2>2, AppendIds
  <2>4. Below(IdsOf(game.queue), {nextLine}) /\ Below(IdsOf(game.batch), {nextLine})
    BY DEF OInv, Sorted, Below, Ahead
  <2>5. Rising(game'.queue) BY <1>2, <2>1, <2>2, <2>4, AppendIds DEF OInv, Sorted
  <2>6. Below(IdsOf(game'.batch), IdsOf(game'.queue))
    BY <2>2, <2>3, <2>4 DEF OInv, Sorted, Below
  <2>7. Rising(game'.batch) BY <2>2 DEF OInv, Sorted
  <2>8. \A x \in Ahead' : x \in Ahead \/ x = nextLine BY <2>2, <2>3 DEF Ahead
  <2>9. nextLine' >= nextLine BY <1>2, <2>2
  <2> QED BY <1>1, <1>3, <1>4, <2>2, <2>5, <2>6, <2>7, <2>8, <2>9, QueueSorts
<1>7. CASE ~ Enqueue
  <2>1. nextLine' = nextLine /\ nextLine' >= nextLine /\ ~ (nextLine \in Ahead)
    <3>1. ~ (nextLine \in Ahead)
      <4>1. nextLine > 0 /\ ~ (nextLine < nextLine)
        BY LinkAssumption DEF OInv, TInv, TypeOK
      <4> QED BY <4>1 DEF OInv, Sorted, Below
    <3> QED BY <1>2, <1>7, <3>1 DEF TakeQueue, SendIntoVoid, SendFails, BatchSent
  <2>2. game'.conn = game.conn
    BY <1>2, <1>7 DEF TakeQueue, SendIntoVoid, SendFails, BatchSent, Games
  <2>3. SUFFICES /\ Rising(game'.batch) /\ Rising(game'.queue)
                 /\ Below(IdsOf(game'.batch), IdsOf(game'.queue))
                 /\ Ahead' \subseteq Ahead
    BY <1>1, <1>3, <1>4, <2>1, <2>2, QueueSorts
  <2>4. CASE TakeQueue
    <3>1. game'.batch = game.queue /\ game'.queue = << >> BY <1>2, <2>4 DEF TakeQueue, Games
    <3> QED BY <1>5, <3>1 DEF OInv, Sorted, Ahead
  <2>5. CASE BatchSent
    <3>1. game'.batch = game.batch /\ game'.queue = game.queue
      BY <1>2, <2>5 DEF BatchSent, Games
    <3> QED BY <3>1 DEF OInv, Sorted, Ahead
  <2>6. CASE SendIntoVoid
    <3>1. game'.batch = Tail(game.batch) /\ game'.queue = game.queue /\ game.batch # << >>
      BY <1>2, <2>6 DEF SendIntoVoid, Games
    <3>2. IdsOf(game'.batch) \subseteq IdsOf(game.batch) /\ Rising(game'.batch)
      BY <1>2, <3>1, TailIds DEF OInv, Sorted
    <3> QED BY <3>1, <3>2 DEF OInv, Sorted, Ahead, Below
  <2>7. CASE SendFails
    <3>1. game.batch # << >> BY <2>7 DEF SendFails
    <3>2. Head(game.batch) \in Lines /\ Head(game.batch).id \in IdsOf(game.batch)
      BY <1>2, <3>1, TailIds
    <3>3. PICK line \in {Head(game.batch), [Head(game.batch) EXCEPT !.whole = FALSE]} :
            game' = [game EXCEPT !.worker = "waiting", !.batch = << >>,
                                 !.queue = Requeued(line, game.batch) \o @]
      BY <2>7 DEF SendFails
    <3>4. line \in Lines /\ line.id = Head(game.batch).id BY <3>2 DEF Lines
    <3>5. game'.batch = << >> /\ game'.queue = <<line>> \o game.queue
      BY <1>2, <3>3 DEF Games, Requeued
    <3>6. Below({line.id}, IdsOf(game.queue)) BY <3>2, <3>4 DEF OInv, Sorted, Below
    <3>7. /\ IdsOf(game'.queue) = {line.id} \cup IdsOf(game.queue)
          /\ Rising(game'.queue)
      BY <1>2, <3>4, <3>5, <3>6, FrontIds DEF OInv, Sorted
    <3> QED BY <1>5, <3>2, <3>4, <3>5, <3>7 DEF Ahead
  <2> QED BY <1>7, <2>4, <2>5, <2>6, <2>7
<1> QED BY <1>6, <1>7

\* A line goes over to the connection behind those that went before it.
LEMMA SendSorts ==
    ASSUME OInv, SendLine, NEW k \in Conns, k = game.conn, NEW h \in Lines, h = Head(game.batch)
    PROVE  OInv'
<1>1. TInv' BY SendTypes DEF OInv
<1>2. game \in Games /\ game.queue \in Seq(Lines) /\ game.batch \in Seq(Lines)
      /\ net \in [Conns -> Nets] /\ k \in Conns /\ net[k].up \in Seq(Lines)
  BY DEF OInv, TInv, TypeOK, Games, Nets, Connected, SendLine
<1>3. /\ game'.batch = Tail(game.batch) /\ game'.queue = game.queue /\ game'.conn = k
      /\ game.batch # << >>
      /\ net'[k].up = Append(net[k].up, h)
      /\ \A c \in Conns \ {k} : net'[c] = net[c]
      /\ UNCHANGED <<nextLine, phase, handled>>
  BY <1>2 DEF SendLine, Games, Nets, server
<1>4. /\ h \in Lines /\ IdsOf(game.batch) = {h.id} \cup IdsOf(game'.batch)
      /\ Rising(game'.batch) /\ Below({h.id}, IdsOf(game'.batch))
  BY <1>2, <1>3, TailIds DEF OInv, Sorted
<1>5. h.id \in Ahead /\ Ahead' \subseteq Ahead /\ Below({h.id}, Ahead')
  BY <1>3, <1>4 DEF OInv, Sorted, Ahead, Below
<1>6. /\ Passed(k)' = Passed(k) \cup {h.id}
      /\ \A c \in Conns : HandledOn(c)' = HandledOn(c)
      /\ \A c \in Conns \ {k} : Passed(c)' = Passed(c)
      /\ IdsOf(net'[k].up) = IdsOf(net[k].up) \cup {h.id}
  <2>1. IdsOf(net'[k].up) = IdsOf(net[k].up) \cup {h.id} BY <1>2, <1>3, <1>4, AppendIds
  <2>2. \A c \in Conns : HandledOn(c)' = HandledOn(c) BY <1>3 DEF HandledOn
  <2>3. \A c \in Conns \ {k} : Passed(c)' = Passed(c) BY <1>3, <2>2 DEF Passed
  <2>4. Passed(k)' = Passed(k) \cup {h.id} BY <2>1, <2>2 DEF Passed
  <2> QED BY <2>1, <2>2, <2>3, <2>4
<1>7. \A c \in Conns : Below(Passed(c), {h.id}) BY <1>5 DEF OInv, Sorted, Below
<1>8. \A c \in Conns : /\ Rising(net'[c].up) /\ Ascending(handled'[c])
                        /\ Below(HandledOn(c)', IdsOf(net'[c].up))
                        /\ Below(Passed(c)', Ahead')
  <2>1. Rising(net'[k].up)
    <3>1. Below(IdsOf(net[k].up), {h.id}) BY <1>2, <1>7 DEF Passed, Below
    <3> QED BY <1>2, <1>3, <1>4, <3>1, AppendIds DEF OInv, Sorted
  <2>2. Below(HandledOn(k)', IdsOf(net'[k].up))
    BY <1>2, <1>6, <1>7 DEF OInv, Sorted, Below, Passed
  <2>3. Below(Passed(k)', Ahead') BY <1>2, <1>5, <1>6 DEF OInv, Sorted, Below
  <2>4. \A c \in Conns \ {k} : Below(Passed(c)', Ahead') BY <1>5, <1>6 DEF OInv, Sorted, Below
  <2> QED BY <1>3, <1>6, <2>1, <2>2, <2>3, <2>4 DEF OInv, Sorted
<1>9. \A c, d \in Conns : c < d => Below(Passed(c)', Passed(d)')
  <2> SUFFICES ASSUME NEW c \in Conns, NEW d \in Conns, c < d
               PROVE  Below(Passed(c)', Passed(d)')
    OBVIOUS
  <2>1. Below(Passed(c), Passed(d)) BY DEF OInv, Sorted
  <2>2. CASE c = k
    <3>1. phase[d] = "none" BY <1>2, <2>2 DEF OInv, Opened
    <3>2. Passed(d) = {} /\ d # k BY <2>2, <3>1 DEF OInv, Opened, Conns
    <3> QED BY <1>6, <3>2 DEF Below
  <2>3. CASE d = k /\ c # k BY <1>6, <1>7, <2>1, <2>3 DEF Below
  <2>4. CASE c # k /\ d # k BY <1>6, <2>1, <2>4
  <2> QED BY <2>2, <2>3, <2>4
<1>10. Below(Ahead' \cup UNION {Passed(c)' : c \in Conns}, {nextLine'})
  <2>1. \A x \in Ahead' \cup UNION {Passed(c)' : c \in Conns} :
          x \in Ahead \cup UNION {Passed(c) : c \in Conns}
    BY <1>5, <1>6
  <2> QED BY <1>3, <2>1 DEF OInv, Sorted, Below
<1>11. Sorted'
  <2>1. Rising(game'.queue) BY <1>3 DEF OInv, Sorted
  <2>2. Below(IdsOf(game'.batch), IdsOf(game'.queue)) BY <1>3, <1>4 DEF OInv, Sorted, Below
  <2> QED BY <1>4, <1>8, <1>9, <1>10, <2>1, <2>2 DEF Sorted
<1>12. Opened'
  <2>1. phase[k] # "none" BY <1>2 DEF OInv, Opened
  <2> QED BY <1>3, <1>6, <2>1 DEF OInv, Opened
<1> QED BY <1>1, <1>11, <1>12 DEF OInv

\* A new connection comes behind all earlier ones, its hello behind what waits.
LEMMA ConnectSorts ==
    ASSUME OInv, NEW k \in Conns, Connect(k)
    PROVE  OInv'
<1>1. TInv' BY SocketTypes DEF OInv
<1>2. game \in Games /\ game.queue \in Seq(Lines) /\ phase \in [Conns -> Phases]
  BY DEF OInv, TInv, TypeOK, Games
<1>3. Hello \in Lines /\ Hello.id = 0 BY LinkAssumption DEF Hello, Line, Lines
<1>4. /\ game'.batch = game.batch /\ game'.queue = Append(game.queue, Hello) /\ game'.conn = k
      /\ phase' = [phase EXCEPT ![k] = "accepted"] /\ phase[k] = "none"
      /\ \A d \in Conns : d < k => phase[d] # "none"
      /\ UNCHANGED <<nextLine, net, handled>>
  BY <1>2 DEF Connect, Games
<1>5. \A S : Below(S, {Hello.id}) /\ Below({Hello.id}, S) BY <1>3 DEF Below
<1>6. IdsOf(game'.queue) = IdsOf(game.queue) \cup {Hello.id} /\ Rising(game'.queue)
  BY <1>2, <1>3, <1>4, <1>5, AppendIds DEF OInv, Sorted
<1>7. Ahead' = Ahead \cup {Hello.id} BY <1>4, <1>6 DEF Ahead
<1>8. \A c \in Conns : Passed(c)' = Passed(c) /\ HandledOn(c)' = HandledOn(c)
  BY <1>4 DEF Passed, HandledOn
<1>9. Sorted'
  <2>1. \A c \in Conns : Below(Passed(c)', Ahead')
    BY <1>3, <1>7, <1>8 DEF OInv, Sorted, Below
  <2>2. Below(Ahead' \cup UNION {Passed(c)' : c \in Conns}, {nextLine'})
    BY <1>3, <1>4, <1>7, <1>8 DEF OInv, Sorted, Below
  <2>3. Below(IdsOf(game'.batch), IdsOf(game'.queue))
    BY <1>3, <1>4, <1>6 DEF OInv, Sorted, Below
  <2>4. \A c \in Conns : /\ Rising(net'[c].up) /\ Ascending(handled'[c])
                          /\ Below(HandledOn(c)', IdsOf(net'[c].up))
    BY <1>4, <1>8 DEF OInv, Sorted
  <2>5. \A c, d \in Conns : c < d => Below(Passed(c)', Passed(d)') BY <1>8 DEF OInv, Sorted
  <2>6. Rising(game'.batch) BY <1>4 DEF OInv, Sorted
  <2> QED BY <1>6, <2>1, <2>2, <2>3, <2>4, <2>5, <2>6 DEF Sorted
<1>10. Opened' BY <1>2, <1>4, <1>8 DEF OInv, Opened, Conns
<1> QED BY <1>1, <1>9, <1>10 DEF OInv

\* Reading, reconnecting, leaving and starting again queue nothing (worker_loop).
LEMMA SocketSorts ==
    ASSUME OInv, Receive \/ Reconnect \/ GameExits \/ GameStarts
    PROVE  OInv'
<1>1. TInv' BY SocketTypes, GameTypes DEF OInv
<1>2. game \in Games /\ net \in [Conns -> Nets] /\ nextLine \in Nat
  BY LinkAssumption DEF OInv, TInv, TypeOK, Games, Nets
<1>3. /\ UNCHANGED <<nextLine, phase, handled>>
      /\ \A c \in Conns : net'[c].up = net[c].up
  BY <1>2 DEF Receive, Reconnect, GameExits, GameStarts, server, Nets
<1>4. \A c \in Conns : Passed(c)' = Passed(c) BY <1>3 DEF Passed, HandledOn
<1>9. ~ (nextLine \in Ahead) /\ nextLine' >= nextLine
  <2>1. nextLine > 0 /\ ~ (nextLine < nextLine) BY LinkAssumption DEF OInv, TInv, TypeOK
  <2> QED BY <1>2, <1>3, <2>1 DEF OInv, Sorted, Below
<1>5. CASE Receive \/ Reconnect
  <2>1. /\ game'.conn \in {game.conn, None}
        /\ game'.batch = game.batch /\ game'.queue = game.queue
    BY <1>2, <1>5 DEF Receive, Reconnect, Games
  <2>2. /\ Rising(game'.batch) /\ Rising(game'.queue)
        /\ Below(IdsOf(game'.batch), IdsOf(game'.queue))
        /\ Ahead' \subseteq Ahead
    BY <2>1 DEF OInv, Sorted, Ahead
  <2> QED BY <1>1, <1>3, <1>4, <1>9, <2>1, <2>2, QueueSorts
<1>6. CASE GameExits \/ GameStarts
  <2>1. game'.conn = None /\ game'.batch = << >> /\ game'.queue = << >>
    <3>1. CASE GameExits BY <1>2, <3>1 DEF GameExits, Games
    <3>2. CASE GameStarts BY <3>2 DEF GameStarts, Started
    <3> QED BY <1>6, <3>1, <3>2
  <2>2. Rising(<< >>) /\ IdsOf(<< >>) = {} /\ Below({}, {}) BY DEF Rising, IdsOf, Below
  <2>3. /\ Rising(game'.batch) /\ Rising(game'.queue)
        /\ Below(IdsOf(game'.batch), IdsOf(game'.queue))
        /\ Ahead' \subseteq Ahead
    BY <2>1, <2>2 DEF Ahead
  <2> QED BY <1>1, <1>3, <1>4, <1>9, <2>1, <2>3, QueueSorts
<1> QED BY <1>5, <1>6

\* A reset loses the newest lines of a connection.
LEMMA ResetSorts ==
    ASSUME OInv, NEW c \in Conns, Reset(c)
    PROVE  OInv'
<1>1. TInv' BY NetworkTypes DEF OInv
<1>2. net \in [Conns -> Nets] /\ net[c].up \in Seq(Lines) BY DEF OInv, TInv, TypeOK, Nets
<1>3. PICK k \in 0 .. Len(net[c].up) :
        net' = [net EXCEPT ![c].broken = TRUE, ![c].reset = TRUE, ![c].down = 0,
                           ![c].up = SubSeq(@, 1, k)]
  BY DEF Reset
<1>4. UNCHANGED <<game, nextLine, phase, handled>> BY DEF Reset, server
<1>5. net'[c].up = SubSeq(net[c].up, 1, k) /\ \A d \in Conns \ {c} : net'[d] = net[d]
  BY <1>2, <1>3 DEF Nets
<1>6. \A d \in Conns : /\ IdsOf(net'[d].up) \subseteq IdsOf(net[d].up)
                        /\ Rising(net'[d].up) /\ HandledOn(d)' = HandledOn(d)
  BY <1>2, <1>4, <1>5, PrefixIds DEF OInv, Sorted, HandledOn
<1>7. \A d \in Conns : Passed(d)' \subseteq Passed(d) BY <1>6 DEF Passed
<1>8. \A d \in Conns : Ascending(handled'[d]) /\ Below(HandledOn(d)', IdsOf(net'[d].up))
  BY <1>4, <1>6 DEF OInv, Sorted, Below
<1> QED BY <1>1, <1>4, <1>6, <1>7, <1>8, ServerSorts

\* A goroutine takes lines off its own connection in order, and handles each
\* behind those it handled before (handleClient).
LEMMA ServeSorts ==
    ASSUME OInv, NEW c \in Conns, Serve(c)
    PROVE  OInv'
<1>1. TInv' BY ServeTypes DEF OInv
<1>2. net \in [Conns -> Nets] /\ net[c].up \in Seq(Lines) /\ phase \in [Conns -> Phases]
      /\ handled \in [Conns -> Seq(1 .. MaxLines)]
  BY DEF OInv, TInv, TypeOK, Nets
<1>3. UNCHANGED <<game, nextLine>>
  BY DEF Serve, Attach, ReadBadLine, HandleMessage, Handled, TakeWriter, Write, NoReply,
         EndOfInput, Detach, ReleaseAll, Close
<1>4. \A d \in Conns : phase'[d] = "none" <=> phase[d] = "none"
  BY <1>2
     DEF Serve, Attach, ReadBadLine, HandleMessage, Handled, TakeWriter, Write, NoReply,
         EndOfInput, Detach, ReleaseAll, Close, Go, Reads
<1>5. SUFFICES \A d \in Conns : /\ Passed(d)' \subseteq Passed(d)
                                /\ Rising(net'[d].up) /\ Ascending(handled'[d])
                                /\ Below(HandledOn(d)', IdsOf(net'[d].up))
  BY <1>1, <1>3, <1>4, ServerSorts
<1>6. ASSUME handled' = handled,
             \A d \in Conns : IdsOf(net'[d].up) \subseteq IdsOf(net[d].up) /\ Rising(net'[d].up)
      PROVE  \A d \in Conns : /\ Passed(d)' \subseteq Passed(d)
                              /\ Rising(net'[d].up) /\ Ascending(handled'[d])
                              /\ Below(HandledOn(d)', IdsOf(net'[d].up))
  <2>1. \A d \in Conns : HandledOn(d)' = HandledOn(d) BY <1>6 DEF HandledOn
  <2> QED BY <1>6, <2>1 DEF OInv, Sorted, Below, Passed
<1>7. CASE Attach(c) \/ Handled(c) \/ TakeWriter(c) \/ Write(c) \/ NoReply(c) \/ EndOfInput(c)
           \/ Detach(c) \/ ReleaseAll(c)
  <2>1. handled' = handled /\ \A d \in Conns : net'[d].up = net[d].up
    <3>1. CASE Write(c)
      <4>1. handled' = handled BY <3>1 DEF Write
      <4>2. CASE net' = net BY <4>1, <4>2
      <4>3. CASE net' = [net EXCEPT ![target[c]].down = @ + 1] BY <1>2, <4>1, <4>3 DEF Nets
      <4> QED BY <3>1, <4>2, <4>3 DEF Write
    <3>2. CASE ~ Write(c)
      BY <1>7, <3>2 DEF Attach, Handled, TakeWriter, NoReply, EndOfInput, Detach, ReleaseAll
    <3> QED BY <3>1, <3>2
  <2> QED BY <1>6, <2>1 DEF OInv, Sorted
<1>8. CASE ReadBadLine(c)
  <2>1. /\ handled' = handled /\ net[c].up # << >> /\ net'[c].up = Tail(net[c].up)
        /\ \A d \in Conns \ {c} : net'[d] = net[d]
    BY <1>2, <1>8 DEF ReadBadLine, Reads, Scan, Nets
  <2>2. IdsOf(net'[c].up) \subseteq IdsOf(net[c].up) /\ Rising(net'[c].up)
    BY <1>2, <2>1, TailIds DEF OInv, Sorted
  <2> QED BY <1>6, <2>1, <2>2 DEF OInv, Sorted
<1>9. CASE Close(c)
  <2>1. /\ handled' = handled /\ net'[c].up = << >>
        /\ \A d \in Conns \ {c} : net'[d] = net[d]
    BY <1>2, <1>9 DEF Close, Nets
  <2>2. IdsOf(net'[c].up) = {} /\ Rising(net'[c].up) BY <2>1 DEF IdsOf, Rising
  <2> QED BY <1>6, <2>1, <2>2 DEF OInv, Sorted
<1>10. CASE HandleMessage(c)
  <2> DEFINE h == Head(net[c].up).id
  <2>1. /\ net[c].up # << >> /\ net'[c].up = Tail(net[c].up)
        /\ \A d \in Conns \ {c} : net'[d] = net[d]
    BY <1>2, <1>10 DEF HandleMessage, Reads, Scan, Nets
  <2>2. /\ IdsOf(net[c].up) = {h} \cup IdsOf(net'[c].up) /\ Rising(net'[c].up)
        /\ Below({h}, IdsOf(net'[c].up))
    BY <1>2, <2>1, TailIds DEF OInv, Sorted
  <2>3. \/ handled' = handled
        \/ h # 0 /\ handled' = [handled EXCEPT ![c] = Append(@, h)]
    BY <1>10 DEF HandleMessage, Hello, Line
  <2>4. CASE handled' = handled BY <1>6, <2>1, <2>2, <2>4 DEF OInv, Sorted
  <2>5. CASE h # 0 /\ handled' = [handled EXCEPT ![c] = Append(@, h)]
    <3> DEFINE s == handled[c]
    <3>1. h \in Nat /\ h > 0
      <4>1. h \in IdsOf(net[c].up) BY <2>2
      <4>2. h \in Nat BY <4>1, IdTypes DEF OInv, Passed
      <4> QED BY <2>5, <4>2
    <3> HIDE DEF h
    <3>2. /\ handled'[c] = Append(s, h) /\ \A d \in Conns \ {c} : handled'[d] = handled[d]
          /\ s \in Seq(1 .. MaxLines)
      BY <1>2, <2>5
    <3>3. /\ DOMAIN Append(s, h) = DOMAIN s \cup {Len(s) + 1} /\ DOMAIN s = 1 .. Len(s)
          /\ Len(s) \in Nat /\ Append(s, h)[Len(s) + 1] = h
          /\ \A i \in DOMAIN s : Append(s, h)[i] = s[i]
      BY <3>2
    <3>4. \A i \in DOMAIN s : s[i] \in Nat /\ s[i] > 0 /\ s[i] < h
      <4>1. \A i \in DOMAIN s : s[i] \in 1 .. MaxLines
        <5>1. \A S : s \in Seq(S) => \A i \in DOMAIN s : s[i] \in S BY ElementOfSeq
        <5> QED BY <3>2, <5>1
      <4>2. \A i \in DOMAIN s : s[i] \in Nat /\ s[i] > 0 BY <4>1, LinkAssumption
      <4>3. \A i \in DOMAIN s : s[i] \in HandledOn(c) BY DEF HandledOn
      <4>4. h \in IdsOf(net[c].up) BY <2>2
      <4> QED BY <3>1, <4>2, <4>3, <4>4 DEF OInv, Sorted, Below
    <3>5. HandledOn(c)' = HandledOn(c) \cup {h} BY <3>2, <3>3 DEF HandledOn
    <3>6. Ascending(handled'[c])
      <4> HIDE DEF s
      <4>1. Ascending(s) BY DEF OInv, Sorted, s
      <4> QED BY <3>2, <3>3, <3>4, <4>1 DEF Ascending
    <3>7. \A d \in Conns \ {c} : HandledOn(d)' = HandledOn(d) BY <3>2 DEF HandledOn
    <3>8. Below(HandledOn(c)', IdsOf(net'[c].up)) BY <2>2, <3>5 DEF OInv, Sorted, Below
    <3>9. Passed(c)' \subseteq Passed(c) BY <2>2, <3>5 DEF Passed
    <3>10. ASSUME NEW d \in Conns \ {c}
           PROVE  /\ Passed(d)' \subseteq Passed(d)
                  /\ Rising(net'[d].up) /\ Ascending(handled'[d])
                  /\ Below(HandledOn(d)', IdsOf(net'[d].up))
      <4>1. net'[d] = net[d] /\ handled'[d] = handled[d] /\ HandledOn(d)' = HandledOn(d)
        BY <2>1, <3>2, <3>7
      <4>2. Passed(d)' = Passed(d) BY <4>1 DEF Passed
      <4> QED BY <4>1, <4>2 DEF OInv, Sorted
    <3> QED BY <2>2, <3>6, <3>8, <3>9, <3>10
  <2> QED BY <2>3, <2>4, <2>5
<1> QED BY <1>7, <1>8, <1>9, <1>10 DEF Serve

\* Every step keeps the lines sorted.
LEMMA StepSorts ==
    ASSUME OInv, [Next]_vars
    PROVE  OInv'
<1>1. CASE SendLine
  <2>1. game.conn \in Conns /\ game.batch \in Seq(Lines) /\ game.batch # << >>
    BY <1>1 DEF OInv, TInv, TypeOK, Connected, SendLine
  <2>2. Head(game.batch) \in Lines BY <2>1, TailIds
  <2> QED BY <1>1, <2>1, <2>2, SendSorts
<1>2. CASE Next /\ ~ SendLine
  BY <1>2, BridgeSorts, ConnectSorts, SocketSorts, ResetSorts, ServeSorts DEF Next, Worker
<1>3. CASE UNCHANGED vars
  <2>1. UNCHANGED <<game, nextLine, net, phase, handled>> BY <1>3 DEF vars
  <2>2. TInv' BY <1>3 DEF vars, OInv, TInv, TypeOK, Connected
  <2>3. \A c \in Conns : HandledOn(c)' = HandledOn(c) BY <2>1 DEF HandledOn
  <2>4. Ahead' = Ahead /\ \A c \in Conns : Passed(c)' = Passed(c) BY <2>1, <2>3 DEF Ahead, Passed
  <2>5. Sorted' BY <2>1, <2>3, <2>4 DEF OInv, Sorted
  <2>6. Opened' BY <2>1, <2>4 DEF OInv, Opened
  <2> QED BY <2>2, <2>5, <2>6 DEF OInv
<1> QED BY <1>1, <1>2, <1>3

\* Lines are sorted, at any time, from the newest in the queue to the oldest
\* handled (worker_loop, handleClient).
LEMMA SortedAlways == Spec => []OInv
<1>1. Init => OInv
  <2> SUFFICES ASSUME Init PROVE OInv OBVIOUS
  <2>1. TInv BY InitTypes
  <2>2. game.batch = << >> /\ game.queue = << >> /\ game.conn = None /\ nextLine = 1
    BY DEF Init, Started
  <2>3. Rising(<< >>) /\ Ascending(<< >>) /\ IdsOf(<< >>) = {} /\ \A S : Below({}, S) /\ Below(S, {})
    BY DEF Rising, Ascending, IdsOf, Below
  <2>4. \A c \in Conns : /\ net[c].up = << >> /\ handled[c] = << >> /\ phase[c] = "none"
    BY DEF Init
  <2>5. Ahead = {} /\ \A c \in Conns : Passed(c) = {} /\ HandledOn(c) = {}
    BY <2>2, <2>3, <2>4 DEF Ahead, Passed, HandledOn
  <2>6. Sorted BY <2>2, <2>3, <2>4, <2>5 DEF Sorted
  <2>7. Opened BY <2>2, <2>4, <2>5 DEF Opened, Conns
  <2> QED BY <2>1, <2>6, <2>7 DEF OInv
<1>2. OInv /\ [Next]_vars => OInv' BY StepSorts
<1> QED BY <1>1, <1>2, PTL DEF Spec

\* No line is handled twice, and a connection's lines are handled in the order
\* the game queued them (handleClient, send_queued).
THEOREM HandledOnceInOrder == Spec => []HandledInOrder
<1>1. OInv => HandledInOrder
  <2> SUFFICES ASSUME OInv, NEW c \in Conns, NEW d \in Conns,
                      NEW i \in DOMAIN handled[c], NEW j \in DOMAIN handled[d]
               PROVE  /\ handled[c][i] = handled[d][j] => c = d /\ i = j
                      /\ c = d /\ i < j => handled[c][i] < handled[c][j]
    BY DEF HandledInOrder
  <2> DEFINE a == handled[c][i]
             b == handled[d][j]
  <2>1. a \in Passed(c) /\ b \in Passed(d) BY DEF Passed, HandledOn
  <2>2. a \in Nat /\ a > 0 /\ b \in Nat /\ b > 0 /\ i \in Nat /\ j \in Nat
    <3>1. handled[c] \in Seq(1 .. MaxLines) /\ handled[d] \in Seq(1 .. MaxLines)
      BY DEF OInv, TInv, TypeOK
    <3>2. \A S, s : s \in Seq(S) => \A k \in DOMAIN s : s[k] \in S /\ k \in Nat BY ElementOfSeq
    <3>3. a \in 1 .. MaxLines /\ b \in 1 .. MaxLines /\ i \in Nat /\ j \in Nat BY <3>1, <3>2
    <3> QED BY <3>3, LinkAssumption
  <2>3. c \in Nat /\ d \in Nat BY LinkAssumption DEF Conns
  <2>4. CASE c < d
    <3>1. a < b BY <2>1, <2>2, <2>4 DEF OInv, Sorted, Below
    <3> QED BY <2>2, <2>3, <2>4, <3>1
  <2>5. CASE d < c
    <3>1. b < a BY <2>1, <2>2, <2>5 DEF OInv, Sorted, Below
    <3> QED BY <2>2, <2>3, <2>5, <3>1
  <2>6. CASE c = d
    <3>1. Ascending(handled[c]) BY DEF OInv, Sorted
    <3>2. (i < j => a < b) /\ (j < i => b < a) BY <2>6, <3>1 DEF Ascending
    <3> QED BY <2>2, <2>6, <3>2
  <2> QED BY <2>3, <2>4, <2>5, <2>6
<1> QED BY <1>1, SortedAlways, PTL

-----------------------------------------------------------------------------
(* No line is lost. *)

\* The bridge runs, and none of its connections has ended.
Up == (\A c \in Conns : c > game.since => ~ Ended(c)) /\ game.worker # "off"

Whole(lines) == \A i \in DOMAIN lines : lines[i].whole

\* A bridge uses connections of its own, whose lines are its own; only a broken
\* one leaves a fragment.
Session ==
    /\ game.conn \in Conns => game.conn > game.since
    /\ game.worker # "sending" => game.batch = << >>
    /\ \A c \in Conns : c <= game.since =>
          phase[c] # "none" /\ \A x \in Passed(c) : x < game.line
    /\ Up => /\ Whole(game.queue) /\ Whole(game.batch)
             /\ \A c \in Conns : c > game.since => Whole(net[c].up)

NInv == OInv /\ Session /\ NothingLostWhileUp

\* Where all lines are.
LEMMA Everywhere == OnTheWay \cup HandledIds = Ahead \cup UNION {Passed(c) : c \in Conns}
  BY DEF OnTheWay, HandledIds, Ahead, Passed, HandledOn
LEMMA EverywhereNext ==
    (OnTheWay \cup HandledIds)' = Ahead' \cup UNION {Passed(c)' : c \in Conns}
  BY DEF OnTheWay, HandledIds, Ahead, Passed, HandledOn

\* A step that drops no line of this bridge loses none.
LEMMA DropsNothing ==
    ASSUME NInv, Up' => Up, game'.line = game.line, nextLine' = nextLine,
           Up' => \A x \in Ahead \cup UNION {Passed(c) : c \in Conns} :
                     x >= game.line => x \in Ahead' \cup UNION {Passed(c)' : c \in Conns}
    PROVE  NothingLostWhileUp'
<1> DEFINE All == Ahead \cup UNION {Passed(c) : c \in Conns}
           Later == Ahead' \cup UNION {Passed(c)' : c \in Conns}
<1>1. (OnTheWay \cup HandledIds)' = Later BY EverywhereNext
<1>2. Up' => game.line .. nextLine - 1 \subseteq All
  BY Everywhere DEF NInv, NothingLostWhileUp, Up
<1>3. \A x \in game.line .. nextLine - 1 : x >= game.line
  BY LinkAssumption DEF NInv, OInv, TInv, TypeOK
<1> HIDE DEF All, Later
<1>4. Up' => game.line .. nextLine - 1 \subseteq Later BY <1>2, <1>3 DEF All, Later
<1> QED BY <1>1, <1>4 DEF NothingLostWhileUp, Up

\* The connections opened are the first ones.
LEMMA OpenedAreFirst ==
    ASSUME Opened, NEW c \in Conns
    PROVE  phase[c] # "none" <=> c <= Cardinality({d \in Conns : phase[d] # "none"})
<1> DEFINE S == {d \in Conns : phase[d] # "none"}
<1>1. c \in Nat /\ c >= 1 /\ MaxConns \in Nat /\ c <= MaxConns BY LinkAssumption DEF Conns
<1>2. IsFiniteSet(S) /\ Cardinality(S) \in Nat
  <2>1. IsFiniteSet(Conns) BY LinkAssumption, FS_Interval DEF Conns
  <2> QED BY <2>1, FS_Subset, FS_CardinalityType
<1>3. CASE phase[c] # "none"
  <2>1. 1 .. c \subseteq S
    <3> SUFFICES ASSUME NEW d \in 1 .. c PROVE d \in S OBVIOUS
    <3>1. d \in Conns BY <1>1 DEF Conns
    <3>2. d = c \/ d < c BY <1>1
    <3> QED BY <1>3, <3>1, <3>2 DEF Opened
  <2>2. Cardinality(1 .. c) = c BY <1>1, FS_Interval
  <2> HIDE DEF S
  <2>3. Cardinality(1 .. c) <= Cardinality(S) BY <1>2, <2>1, FS_Subset
  <2> QED BY <1>3, <2>2, <2>3 DEF S
<1>4. CASE phase[c] = "none"
  <2>1. S \subseteq 1 .. c - 1
    <3> SUFFICES ASSUME NEW d \in S PROVE d \in 1 .. c - 1 OBVIOUS
    <3>1. ~ (c < d) /\ c # d BY <1>4 DEF Opened
    <3> QED BY <1>1, <3>1 DEF Conns
  <2>2. IsFiniteSet(1 .. c - 1) /\ Cardinality(1 .. c - 1) = c - 1 BY <1>1, FS_Interval
  <2> HIDE DEF S
  <2>3. Cardinality(S) <= c - 1 BY <2>1, <2>2, FS_Subset
  <2> QED BY <1>1, <1>2, <1>4, <2>3 DEF S
<1> QED BY <1>3, <1>4

\* The session of a bridge goes on while it changes its queues only.
LEMMA SessionGoesOn ==
    ASSUME Session, game'.since = game.since, game'.line = game.line,
           game'.conn \in Conns => game'.conn > game.since,
           game'.worker # "sending" => game'.batch = << >>,
           \A c \in Conns : phase[c] # "none" => phase'[c] # "none",
           \A c \in Conns : c <= game.since => Passed(c)' \subseteq Passed(c),
           Up' => /\ Whole(game'.queue) /\ Whole(game'.batch)
                  /\ \A c \in Conns : c > game.since => Whole(net'[c].up)
    PROVE  Session'
  BY DEF Session

\* Queueing, taking the queue, and the end of a batch.
LEMMA QueueLosesNothing ==
    ASSUME NInv, OInv', Enqueue \/ TakeQueue \/ BatchSent
    PROVE  NInv'
<1>1. /\ game \in Games /\ game.queue \in Seq(Lines) /\ game.batch \in Seq(Lines)
      /\ nextLine \in Nat /\ game.line \in Nat
  BY LinkAssumption DEF NInv, OInv, TInv, TypeOK, Games
<1>2. UNCHANGED <<net, phase, handled>> BY DEF Enqueue, TakeQueue, BatchSent, server
<1>3. \A c \in Conns : Passed(c)' = Passed(c) BY <1>2 DEF Passed, HandledOn
<1>4. /\ game'.since = game.since /\ game'.line = game.line /\ game'.conn = game.conn
      /\ game.worker # "off"
  BY <1>1 DEF Enqueue, TakeQueue, BatchSent, Games
<1>5. Up' => Up BY <1>2, <1>4 DEF Up, Ended
<1>6. CASE Enqueue
  <2>1. Line(nextLine) \in Lines /\ Line(nextLine).id = nextLine /\ Line(nextLine).whole
    BY <1>1, <1>6, LinkAssumption DEF Enqueue, Line, Lines
  <2>2. /\ game'.queue = Append(game.queue, Line(nextLine)) /\ game'.batch = game.batch
        /\ game'.worker = game.worker /\ nextLine' = nextLine + 1
    BY <1>1, <1>6 DEF Enqueue, Games
  <2>3. IdsOf(game'.queue) = IdsOf(game.queue) \cup {nextLine}
    <3>1. IdsOf(Append(game.queue, Line(nextLine))) = IdsOf(game.queue) \cup {Line(nextLine).id}
      BY <1>1, <2>1, AppendIds
    <3> QED BY <2>1, <2>2, <3>1
  <2>4. Whole(game.queue) => Whole(game'.queue) BY <1>1, <2>1, <2>2 DEF Whole
  <2>5. Session' BY <1>2, <1>3, <1>4, <1>5, <2>2, <2>4, SessionGoesOn DEF NInv, Session
  <2>6. Ahead' = Ahead \cup {nextLine} BY <2>2, <2>3 DEF Ahead
  <2>7. NothingLostWhileUp'
    <3>1. (OnTheWay \cup HandledIds)' = Ahead' \cup UNION {Passed(c)' : c \in Conns}
      BY EverywhereNext
    <3>2. Up' => game.line .. nextLine - 1 \subseteq Ahead \cup UNION {Passed(c) : c \in Conns}
      BY <1>5, Everywhere DEF NInv, NothingLostWhileUp, Up
    <3>3. \A x \in game.line .. nextLine' - 1 : x = nextLine \/ x \in game.line .. nextLine - 1
      BY <1>1, <2>2
    <3>4. Up' => game.line .. nextLine' - 1 \subseteq (OnTheWay \cup HandledIds)'
      BY <1>3, <2>6, <3>1, <3>2, <3>3
    <3> QED BY <1>4, <3>4 DEF NothingLostWhileUp, Up
  <2> QED BY <2>5, <2>7 DEF NInv
<1>7. CASE TakeQueue
  <2>1. game.batch = << >> BY <1>7 DEF NInv, Session, TakeQueue
  <2>2. game'.batch = game.queue /\ game'.queue = << >> /\ game'.worker = "sending"
    BY <1>1, <1>7 DEF TakeQueue, Games
  <2>3. Whole(<< >>) /\ IdsOf(<< >>) = {} BY DEF Whole, IdsOf
  <2>4. Session' BY <1>2, <1>3, <1>4, <1>5, <2>2, <2>3, SessionGoesOn DEF NInv, Session
  <2>5. Ahead' = Ahead BY <2>1, <2>2 DEF Ahead
  <2>6. nextLine' = nextLine BY <1>7 DEF TakeQueue
  <2>7. NothingLostWhileUp' BY <1>3, <1>4, <1>5, <2>5, <2>6, DropsNothing
  <2> QED BY <2>4, <2>7 DEF NInv
<1>8. CASE BatchSent
  <2>1. game'.batch = game.batch /\ game'.queue = game.queue /\ game.batch = << >>
    BY <1>1, <1>8 DEF BatchSent, Games
  <2>2. Session' BY <1>2, <1>3, <1>4, <1>5, <2>1, SessionGoesOn DEF NInv, Session
  <2>3. Ahead' = Ahead /\ nextLine' = nextLine BY <1>8, <2>1 DEF Ahead, BatchSent
  <2>4. NothingLostWhileUp' BY <1>3, <1>4, <1>5, <2>3, DropsNothing
  <2> QED BY <2>2, <2>4 DEF NInv
<1> QED BY <1>6, <1>7, <1>8

\* Lines are sent in order, and what a broken connection swallows is no longer owed.
LEMMA SendLosesNothing ==
    ASSUME NInv, OInv', SendLine \/ SendIntoVoid \/ SendFails
    PROVE  NInv'
<1>1. /\ game \in Games /\ game.queue \in Seq(Lines) /\ game.batch \in Seq(Lines)
      /\ net \in [Conns -> Nets] /\ game.conn \in Conns
  BY DEF NInv, OInv, TInv, TypeOK, Games, Nets, Connected, SendLine, SendIntoVoid, SendFails
<1>2. game.conn > game.since BY <1>1 DEF NInv, Session
<1>3. /\ game'.since = game.since /\ game'.line = game.line /\ game'.conn = game.conn
      /\ game.worker = "sending" /\ game.batch # << >>
      /\ UNCHANGED <<nextLine, phase, handled>>
  BY <1>1 DEF SendLine, SendIntoVoid, SendFails, Games, server
<1>4. CASE SendLine
  <2>1. PICK k \in Conns : k = game.conn BY <1>1
  <2>2. PICK h \in Lines : h = Head(game.batch) BY <1>1, <1>3, TailIds
  <2>3. /\ game'.batch = Tail(game.batch) /\ game'.queue = game.queue
        /\ game'.worker = "sending"
        /\ net'[k].up = Append(net[k].up, h) /\ net[k].up \in Seq(Lines)
        /\ \A c \in Conns \ {k} : net'[c] = net[c]
        /\ \A c \in Conns : net'[c].left = net[c].left /\ net'[c].broken = net[c].broken
    BY <1>1, <1>3, <1>4, <2>1, <2>2 DEF SendLine, Games, Nets
  <2>4. /\ IdsOf(game.batch) = {h.id} \cup IdsOf(game'.batch)
        /\ IdsOf(net'[k].up) = IdsOf(net[k].up) \cup {h.id}
    <3>1. game.batch # << >> => IdsOf(game.batch) = {Head(game.batch).id} \cup IdsOf(Tail(game.batch))
      BY <1>1, TailIds
    <3>2. \A s \in Seq(Lines) : IdsOf(Append(s, h)) = IdsOf(s) \cup {h.id} BY AppendIds
    <3> QED BY <1>3, <2>2, <2>3, <3>1, <3>2
  <2>5. \A c \in Conns \ {k} : Passed(c)' = Passed(c)
    BY <1>3, <2>3 DEF Passed, HandledOn
  <2>6. Passed(k)' = Passed(k) \cup {h.id} BY <1>3, <2>4 DEF Passed, HandledOn
  <2>7. Up' => Up BY <1>3, <2>3 DEF Up, Ended
  <2>8. Whole(game.batch) => h.whole /\ Whole(game'.batch)
    <3>1. /\ Len(game.batch) \in Nat /\ Len(game.batch) > 0
          /\ DOMAIN game.batch = 1 .. Len(game.batch) /\ h = game.batch[1]
          /\ DOMAIN game'.batch = 1 .. Len(game.batch) - 1
          /\ \A i \in 1 .. Len(game.batch) - 1 : game'.batch[i] = game.batch[i + 1]
      BY <1>1, <1>3, <2>2, <2>3
    <3>2. \A i \in DOMAIN game'.batch : i + 1 \in DOMAIN game.batch BY <3>1
    <3> QED BY <3>1, <3>2 DEF Whole
  <2>9. h.whole /\ Whole(net[k].up) => Whole(net'[k].up) BY <2>3 DEF Whole
  <2>10. Up' => /\ Whole(game'.queue) /\ Whole(game'.batch)
                /\ \A c \in Conns : c > game.since => Whole(net'[c].up)
    BY <1>2, <2>1, <2>3, <2>7, <2>8, <2>9 DEF NInv, Session
  <2>11. \A c \in Conns : c <= game.since => c # k
    BY <1>1, <1>2, <2>1 DEF Games, Conns
  <2>12. Session' BY <1>2, <1>3, <2>3, <2>5, <2>10, <2>11, SessionGoesOn DEF NInv
  <2>13. \A x \in Ahead : x \in Ahead' \cup Passed(k)' BY <2>3, <2>4, <2>6 DEF Ahead
  <2>14. \A c \in Conns : Passed(c) \subseteq Passed(c)' BY <2>5, <2>6
  <2>15. NothingLostWhileUp' BY <1>3, <2>7, <2>13, <2>14, DropsNothing
  <2> QED BY <2>12, <2>15 DEF NInv
<1>5. CASE SendIntoVoid \/ SendFails
  <2>1. net' = net /\ Ended(game.conn) BY <1>5 DEF SendIntoVoid, SendFails, Ended
  <2>2. ~ Up' BY <1>1, <1>2, <1>3, <2>1 DEF Up, Ended
  <2>3. game'.worker # "sending" => game'.batch = << >>
    BY <1>1, <1>5 DEF SendIntoVoid, SendFails, Games
  <2>4. \A c \in Conns : Passed(c)' = Passed(c) BY <1>3, <2>1 DEF Passed, HandledOn
  <2>5. Session' BY <1>2, <1>3, <2>2, <2>3, <2>4, SessionGoesOn DEF NInv
  <2>6. NothingLostWhileUp' BY <2>2 DEF NothingLostWhileUp, Up
  <2> QED BY <2>5, <2>6 DEF NInv
<1> QED BY <1>4, <1>5

\* Opening, reading, leaving and starting again lose nothing of this bridge's.
LEMMA SocketLosesNothing ==
    ASSUME NInv, OInv',
           Receive \/ Reconnect \/ GameExits \/ GameStarts \/ \E c \in Conns : Connect(c)
    PROVE  NInv'
<1>1. game \in Games /\ net \in [Conns -> Nets] /\ game.queue \in Seq(Lines)
  BY DEF NInv, OInv, TInv, TypeOK, Games, Nets
<1>2. CASE Receive \/ Reconnect
  <2>1. /\ game'.since = game.since /\ game'.line = game.line /\ game.worker = "waiting"
        /\ game'.worker # "sending" /\ (game'.conn = game.conn \/ game'.conn = None)
        /\ game'.batch = game.batch /\ game'.queue = game.queue
        /\ nextLine' = nextLine /\ phase' = phase /\ handled' = handled
    BY <1>1, <1>2 DEF Receive, Reconnect, Games, server
  <2>2. /\ \A c \in Conns : net'[c].up = net[c].up /\ net'[c].broken = net[c].broken
        /\ \A c \in Conns : net[c].left => net'[c].left
    <3>1. CASE Receive BY <1>1, <3>1 DEF Receive, Nets
    <3>2. CASE Reconnect BY <1>1, <3>2 DEF Reconnect, Nets
    <3> QED BY <1>2, <3>1, <3>2
  <2>3. \A c \in Conns : Passed(c)' = Passed(c) BY <2>1, <2>2 DEF Passed, HandledOn
  <2>4. Up' => Up BY <2>1, <2>2 DEF Up, Ended
  <2>5. ~ (None \in Conns) BY DEF Conns
  <2>6. Session' BY <2>1, <2>2, <2>3, <2>4, <2>5, SessionGoesOn DEF NInv, Session
  <2>7. Ahead' = Ahead BY <2>1 DEF Ahead
  <2>8. NothingLostWhileUp' BY <2>1, <2>3, <2>4, <2>7, DropsNothing
  <2> QED BY <2>6, <2>8 DEF NInv
<1>3. CASE GameExits
  <2>1. /\ game'.since = game.since /\ game'.line = game.line /\ game'.worker = "off"
        /\ game'.conn = None /\ game'.batch = << >>
        /\ UNCHANGED <<phase, handled>>
    BY <1>1, <1>3 DEF GameExits, Games, server
  <2>2. \A c \in Conns : net'[c].up = net[c].up BY <1>1, <1>3 DEF GameExits, Nets
  <2>3. \A c \in Conns : Passed(c)' = Passed(c) BY <2>1, <2>2 DEF Passed, HandledOn
  <2>4. ~ Up' BY <2>1 DEF Up
  <2>5. ~ (None \in Conns) BY DEF Conns
  <2>6. Session' BY <2>1, <2>3, <2>4, <2>5, SessionGoesOn DEF NInv
  <2>7. NothingLostWhileUp' BY <2>4 DEF NothingLostWhileUp, Up
  <2> QED BY <2>6, <2>7 DEF NInv
<1>4. CASE GameStarts
  <2> DEFINE n == Cardinality({c \in Conns : phase[c] # "none"})
  <2>1. /\ game'.since = n /\ game'.line = nextLine /\ game'.conn = None
        /\ game'.batch = << >> /\ game'.queue = << >>
        /\ UNCHANGED <<nextLine, net, phase, handled>>
    BY <1>4 DEF GameStarts, Started, server
  <2>2. \A c \in Conns : phase[c] # "none" => c <= n BY OpenedAreFirst DEF NInv, OInv
  <2>3. \A c \in Conns : c <= n => phase[c] # "none" BY OpenedAreFirst DEF NInv, OInv
  <2> HIDE DEF n
  <2>4. \A c \in Conns : Passed(c)' = Passed(c) BY <2>1 DEF Passed, HandledOn
  <2>5. \A c \in Conns : \A x \in Passed(c) : x < nextLine
    <3>1. \A c \in Conns : \A x \in Passed(c) : x \in Nat BY IdTypes DEF NInv, OInv
    <3>2. nextLine \in Nat /\ nextLine > 0 BY LinkAssumption DEF NInv, OInv, TInv, TypeOK
    <3>3. \A c \in Conns : \A x \in Passed(c) : x > 0 => x < nextLine
      BY <3>2 DEF NInv, OInv, Sorted, Below
    <3> QED BY <3>1, <3>2, <3>3
  <2>6. Whole(<< >>) BY DEF Whole
  <2>7. \A c \in Conns : c > n => Whole(net'[c].up)
    <3>1. ASSUME NEW c \in Conns, c > n PROVE Whole(net[c].up)
      <4>1. n \in Nat /\ c \in Nat BY OpenedBound, LinkAssumption DEF n, Conns
      <4>2. phase[c] = "none" BY <2>2, <3>1, <4>1
      <4>3. IdsOf(net[c].up) = {} BY <4>2 DEF NInv, OInv, Opened, Passed
      <4> QED BY <4>3 DEF IdsOf, Whole
    <3> QED BY <2>1, <3>1
  <2>8. ~ (None \in Conns) BY DEF Conns
  <2>9. Session' BY <2>1, <2>3, <2>4, <2>5, <2>6, <2>7, <2>8 DEF Session
  <2>10. NothingLostWhileUp'
    <3>1. game'.line .. nextLine' - 1 = {}
      BY <2>1, LinkAssumption DEF NInv, OInv, TInv, TypeOK
    <3> QED BY <3>1 DEF NothingLostWhileUp
  <2> QED BY <2>9, <2>10 DEF NInv
<1>5. ASSUME NEW k \in Conns, Connect(k) PROVE NInv'
  <2>1. Hello \in Lines /\ Hello.id = 0 /\ Hello.whole
    BY LinkAssumption DEF Hello, Line, Lines
  <2>2. /\ game'.since = game.since /\ game'.line = game.line /\ game'.conn = k
        /\ game'.batch = game.batch /\ game'.queue = Append(game.queue, Hello)
        /\ game.worker = "connecting" /\ game'.worker = "taking"
        /\ phase[k] = "none" /\ \A c \in Conns : phase[c] # "none" => phase'[c] # "none"
        /\ UNCHANGED <<nextLine, net, handled>>
    BY <1>1, <1>5 DEF Connect, Games, NInv, OInv, TInv, TypeOK
  <2>3. k > game.since
    <3>1. ~ (k <= game.since) BY <2>2 DEF NInv, Session
    <3> QED BY <1>1, <3>1, LinkAssumption DEF Games, Conns
  <2>4. \A c \in Conns : Passed(c)' = Passed(c) BY <2>2 DEF Passed, HandledOn
  <2>5. Up' => Up BY <2>2 DEF Up, Ended
  <2>6. IdsOf(game'.queue) = IdsOf(game.queue) \cup {0} BY <1>1, <2>1, <2>2, AppendIds
  <2>7. Whole(game.queue) => Whole(game'.queue) BY <1>1, <2>1, <2>2 DEF Whole
  <2>8. Session' BY <2>2, <2>3, <2>4, <2>5, <2>7, SessionGoesOn DEF NInv, Session
  <2>9. Ahead \subseteq Ahead' BY <2>2, <2>6 DEF Ahead
  <2>10. NothingLostWhileUp' BY <2>2, <2>4, <2>5, <2>9, DropsNothing
  <2> QED BY <2>8, <2>10 DEF NInv
<1> QED BY <1>2, <1>3, <1>4, <1>5

\* What connection k loses is not this bridge's, or the bridge is no longer up.
LEMMA ConnectionLoses ==
    ASSUME NInv, OInv', NEW k \in Conns, game' = game, nextLine' = nextLine,
           \A c \in Conns : phase[c] # "none" => phase'[c] # "none",
           \A c \in Conns : Ended(c) => Ended(c)',
           \A c \in Conns \ {k} : Passed(c)' = Passed(c) /\ net'[c].up = net[c].up,
           Passed(k)' \subseteq Passed(k),
           Whole(net[k].up) => Whole(net'[k].up),
           Up' => \A x \in Passed(k) : x < game.line \/ x = 0 \/ x \in Passed(k)'
    PROVE  NInv'
<1>1. game.since \in Nat /\ game.line \in Nat /\ game.line > 0
  <2>1. game \in Games BY DEF NInv, OInv, TInv, TypeOK, Games
  <2>2. game.since \in 0 .. MaxConns /\ game.line \in 1 .. MaxLines + 1 BY <2>1 DEF Games
  <2> QED BY <2>2, LinkAssumption
<1>2. Up' => Up BY DEF Up
<1>3. Up' => /\ Whole(game'.queue) /\ Whole(game'.batch)
             /\ \A c \in Conns : c > game.since => Whole(net'[c].up)
  BY <1>2 DEF NInv, Session
<1>4. \A c \in Conns : Passed(c)' \subseteq Passed(c) OBVIOUS
<1>5. Session' BY <1>3, <1>4, SessionGoesOn DEF NInv, Session
<1>6. Ahead' = Ahead BY DEF Ahead
<1>7. \A c \in Conns : \A x \in Passed(c) : x \in Nat BY IdTypes DEF NInv, OInv
<1>8. ASSUME Up', NEW c \in Conns, NEW x \in Passed(c), x >= game.line
      PROVE  x \in Passed(c)'
  <2>1. x \in Nat BY <1>7
  <2>2. ~ (x < game.line) /\ x # 0 BY <1>1, <1>8, <2>1
  <2> QED BY <1>8, <2>2
<1>9. NothingLostWhileUp' BY <1>2, <1>6, <1>8, DropsNothing
<1> QED BY <1>5, <1>9 DEF NInv

\* A reset loses what is on a connection, and the bridge's lines with it; what an
\* earlier bridge left there is lost to it alone.
LEMMA ResetLosesNothing ==
    ASSUME NInv, OInv', NEW k \in Conns, Reset(k)
    PROVE  NInv'
<1>1. net \in [Conns -> Nets] /\ game \in Games
  BY DEF NInv, OInv, TInv, TypeOK, Games, Nets
<1>2. PICK n \in 0 .. Len(net[k].up) :
         net' = [net EXCEPT ![k].broken = TRUE, ![k].reset = TRUE, ![k].down = 0,
                            ![k].up = SubSeq(@, 1, n)]
  BY DEF Reset
<1>3. /\ net'[k].up = SubSeq(net[k].up, 1, n) /\ net'[k].broken = TRUE
      /\ \A c \in Conns \ {k} : net'[c] = net[c]
      /\ net'[k].left = net[k].left /\ net[k].up \in Seq(Lines)
  BY <1>1, <1>2 DEF Nets
<1>4. /\ game' = game /\ nextLine' = nextLine /\ phase' = phase /\ handled' = handled
  BY DEF Reset, server
<1>5. IdsOf(net'[k].up) \subseteq IdsOf(net[k].up) BY <1>3, PrefixIds
<1>6. Whole(net[k].up) => Whole(net'[k].up)
  <2>1. \A i \in DOMAIN net'[k].up : i \in DOMAIN net[k].up /\ net'[k].up[i] = net[k].up[i]
    <3>1. \A s \in Seq(Lines) : \A m \in 0 .. Len(s) : \A i \in DOMAIN SubSeq(s, 1, m) :
             i \in DOMAIN s /\ SubSeq(s, 1, m)[i] = s[i]
      OBVIOUS
    <3> QED BY <1>3, <3>1
  <2> QED BY <2>1 DEF Whole
<1>7. \A c \in Conns : Ended(c) => Ended(c)' BY <1>3 DEF Ended
<1>8. Passed(k)' \subseteq Passed(k) BY <1>4, <1>5 DEF Passed, HandledOn
<1>9. \A c \in Conns \ {k} : Passed(c)' = Passed(c) /\ net'[c].up = net[c].up
  BY <1>3, <1>4 DEF Passed, HandledOn
<1>10. Up' => \A x \in Passed(k) : x < game.line
  <2>1. Up' => ~ (k > game.since) BY <1>3, <1>4 DEF Up, Ended
  <2>2. k > game.since \/ k <= game.since BY <1>1, LinkAssumption DEF Games, Conns
  <2> QED BY <2>1, <2>2 DEF NInv, Session
<1> QED BY <1>4, <1>6, <1>7, <1>8, <1>9, <1>10, ConnectionLoses

\* The server reads a line to handle it; the fragments it drops, and what it leaves
\* when it closes, are of a connection that has ended.
LEMMA ServeLosesNothing ==
    ASSUME NInv, OInv', NEW k \in Conns, Serve(k)
    PROVE  NInv'
<1>1. net \in [Conns -> Nets] /\ game \in Games /\ handled \in [Conns -> Seq(1 .. MaxLines)]
      /\ target \in [Conns -> Conns] /\ phase \in [Conns -> Phases]
  BY DEF NInv, OInv, TInv, TypeOK, Games, Nets
<1>2. game' = game /\ nextLine' = nextLine
  BY DEF Serve, Attach, ReadBadLine, HandleMessage, Handled, TakeWriter, Write, NoReply,
         EndOfInput, Detach, ReleaseAll, Close
<1>3. \A c \in Conns : phase[c] # "none" => phase'[c] # "none"
  BY <1>1 DEF Serve, Attach, ReadBadLine, HandleMessage, Handled, TakeWriter, Write, NoReply,
              EndOfInput, Detach, ReleaseAll, Close, Go
<1>4. Up' => \A x \in Passed(k) : k <= game.since => x < game.line
  BY DEF NInv, Session
<1>5. k > game.since \/ k <= game.since BY <1>1, LinkAssumption DEF Games, Conns
<1>6. CASE Attach(k) \/ Handled(k) \/ TakeWriter(k) \/ NoReply(k) \/ EndOfInput(k)
           \/ Detach(k) \/ ReleaseAll(k)
  <2>1. net' = net /\ handled' = handled
    BY <1>6 DEF Attach, Handled, TakeWriter, NoReply, EndOfInput, Detach, ReleaseAll
  <2>2. \A c \in Conns : Passed(c)' = Passed(c) BY <2>1 DEF Passed, HandledOn
  <2>3. \A c \in Conns : Ended(c) => Ended(c)' BY <2>1 DEF Ended
  <2> QED BY <1>2, <1>3, <2>1, <2>2, <2>3, ConnectionLoses
<1>7. CASE Write(k)
  <2>1. PICK t \in Conns : t = target[k] BY <1>1
  <2>2. handled' = handled
        /\ net' = IF Ended(t) THEN net ELSE [net EXCEPT ![t].down = @ + 1]
    BY <1>7, <2>1 DEF Write
  <2>3. \A c \in Conns : /\ net'[c].up = net[c].up
                          /\ net'[c].left = net[c].left /\ net'[c].broken = net[c].broken
    <3>1. CASE Ended(t) BY <2>2, <3>1
    <3>2. CASE ~ Ended(t) BY <1>1, <2>2, <3>2 DEF Nets
    <3> QED BY <3>1, <3>2
  <2>4. \A c \in Conns : Passed(c)' = Passed(c) BY <2>2, <2>3 DEF Passed, HandledOn
  <2>5. \A c \in Conns : Ended(c) => Ended(c)' BY <2>3 DEF Ended
  <2>6. Whole(net[k].up) => Whole(net'[k].up) BY <2>3
  <2> QED BY <1>2, <1>3, <2>3, <2>4, <2>5, <2>6, ConnectionLoses
<1>8. CASE Close(k)
  <2>1. /\ handled' = handled /\ net'[k].up = << >> /\ net'[k].broken = TRUE
        /\ \A c \in Conns \ {k} : net'[c] = net[c]
    BY <1>1, <1>8 DEF Close, Nets
  <2>2. \A c \in Conns \ {k} : Passed(c)' = Passed(c) /\ net'[c].up = net[c].up
    BY <2>1 DEF Passed, HandledOn
  <2>3. \A c \in Conns : Ended(c) => Ended(c)' BY <2>1 DEF Ended
  <2>4. Passed(k)' \subseteq Passed(k) BY <2>1 DEF Passed, HandledOn, IdsOf
  <2>5. Whole(net'[k].up) BY <2>1 DEF Whole
  <2>6. Up' => ~ (k > game.since) BY <1>2, <2>1 DEF Up, Ended
  <2> QED BY <1>2, <1>3, <1>4, <1>5, <2>2, <2>3, <2>4, <2>5, <2>6, ConnectionLoses
<1>9. CASE ReadBadLine(k) \/ HandleMessage(k)
  <2>1. /\ net[k].up \in Seq(Lines) /\ net[k].up # << >>
        /\ net' = [net EXCEPT ![k].up = Tail(@)]
    BY <1>1, <1>9 DEF ReadBadLine, HandleMessage, Reads, Scan, Nets
  <2>2. PICK h \in Lines : h = Head(net[k].up) BY <2>1, TailIds
  <2>3. /\ net'[k].up = Tail(net[k].up)
        /\ \A c \in Conns \ {k} : net'[c] = net[c]
        /\ \A c \in Conns : net'[c].left = net[c].left /\ net'[c].broken = net[c].broken
    BY <1>1, <2>1 DEF Nets
  <2>4. IdsOf(net[k].up) = {h.id} \cup IdsOf(net'[k].up)
    <3>1. net[k].up # << >> =>
             IdsOf(net[k].up) = {Head(net[k].up).id} \cup IdsOf(Tail(net[k].up))
      BY <2>1, TailIds
    <3> QED BY <2>1, <2>2, <2>3, <3>1
  <2>5. Whole(net[k].up) => h.whole /\ Whole(net'[k].up)
    <3> DEFINE s == net[k].up
               t == Tail(s)
    <3>1. /\ Len(s) \in Nat /\ Len(s) > 0 /\ DOMAIN s = 1 .. Len(s) /\ h = s[1]
          /\ DOMAIN t = 1 .. Len(s) - 1
          /\ \A i \in 1 .. Len(s) - 1 : t[i] = s[i + 1]
      BY <2>1, <2>2
    <3>2. \A i \in DOMAIN t : i + 1 \in DOMAIN s BY <3>1
    <3>3. t = net'[k].up BY <2>3
    <3> HIDE DEF s, t
    <3>4. Whole(s) => h.whole /\ Whole(t) BY <3>1, <3>2 DEF Whole
    <3> QED BY <3>3, <3>4 DEF s
  <2>6. \A c \in Conns : Ended(c) => Ended(c)' BY <2>3 DEF Ended
  <2>7. \A c \in Conns \ {k} : handled'[c] = handled[c]
    BY <1>1, <1>9 DEF ReadBadLine, HandleMessage
  <2>8. \A c \in Conns \ {k} : Passed(c)' = Passed(c) /\ net'[c].up = net[c].up
    BY <2>3, <2>7 DEF Passed, HandledOn
  <2>9. CASE handled'[k] = handled[k] /\ (h.id = 0 \/ ~ h.whole)
    <3>1. Passed(k) = {h.id} \cup Passed(k)' BY <2>4, <2>9 DEF Passed, HandledOn
    <3>2. Up' => Up BY <1>2, <2>6 DEF Up
    <3>3. Up' /\ k > game.since => h.whole BY <2>5, <3>2 DEF NInv, Session
    <3>4. Up' => h.id < game.line \/ h.id = 0 BY <1>4, <1>5, <2>9, <3>1, <3>3
    <3> QED BY <1>2, <1>3, <2>5, <2>6, <2>8, <3>1, <3>4, ConnectionLoses
  <2>10. CASE handled'[k] = Append(handled[k], h.id)
    <3>1. HandledOn(k)' = HandledOn(k) \cup {h.id}
      <4>1. \A s \in Seq(1 .. MaxLines) : \A x :
               {Append(s, x)[i] : i \in DOMAIN Append(s, x)} = {s[i] : i \in DOMAIN s} \cup {x}
        <5> SUFFICES ASSUME NEW s \in Seq(1 .. MaxLines), NEW x
                     PROVE  {Append(s, x)[i] : i \in DOMAIN Append(s, x)}
                              = {s[i] : i \in DOMAIN s} \cup {x}
          OBVIOUS
        <5> DEFINE t == Append(s, x)
        <5>1. /\ Len(s) \in Nat /\ DOMAIN s = 1 .. Len(s) /\ DOMAIN t = 1 .. Len(s) + 1
              /\ \A i \in 1 .. Len(s) : t[i] = s[i]
              /\ t[Len(s) + 1] = x
          OBVIOUS
        <5>2. DOMAIN t = DOMAIN s \cup {Len(s) + 1} BY <5>1
        <5> HIDE DEF t
        <5>3. {t[i] : i \in DOMAIN t} = {s[i] : i \in DOMAIN s} \cup {x} BY <5>1, <5>2
        <5> QED BY <5>3 DEF t
      <4>2. PICK s \in Seq(1 .. MaxLines) : s = handled[k] BY <1>1
      <4>3. handled'[k] = Append(s, h.id) BY <2>10, <4>2
      <4>4. HandledOn(k)' = {Append(s, h.id)[i] : i \in DOMAIN Append(s, h.id)}
        BY <4>3 DEF HandledOn
      <4>5. HandledOn(k) = {s[i] : i \in DOMAIN s} BY <4>2 DEF HandledOn
      <4> QED BY <4>1, <4>4, <4>5
    <3>2. Passed(k)' = Passed(k) BY <2>4, <3>1 DEF Passed
    <3> QED BY <1>2, <1>3, <2>5, <2>6, <2>8, <3>2, ConnectionLoses
  <2>11. \/ handled'[k] = handled[k] /\ (h.id = 0 \/ ~ h.whole)
         \/ handled'[k] = Append(handled[k], h.id)
    <3>1. CASE ReadBadLine(k) BY <2>2, <3>1 DEF ReadBadLine
    <3>2. CASE HandleMessage(k) BY <1>1, <2>2, <3>2 DEF HandleMessage, Hello, Line
    <3> QED BY <1>9, <3>1, <3>2
  <2> QED BY <2>9, <2>10, <2>11
<1> QED BY <1>6, <1>7, <1>8, <1>9 DEF Serve

\* A line the game queued is lost only with a connection: while none that this
\* bridge opened broke, every line is on its way or handled (enqueue, send_queued,
\* handleClient).
THEOREM NothingIsLost == Spec => []NothingLostWhileUp
<1>1. Init => Session /\ NothingLostWhileUp
  <2> SUFFICES ASSUME Init PROVE Session /\ NothingLostWhileUp OBVIOUS
  <2>1. /\ game.line = 1 /\ nextLine = 1 /\ game.since = 0 /\ game.conn = None
        /\ game.batch = << >> /\ game.queue = << >>
    BY DEF Init, Started
  <2>2. \A c \in Conns : c > game.since /\ ~ (c <= game.since) /\ c # None
    BY <2>1, LinkAssumption DEF Conns
  <2>3. Whole(<< >>) /\ \A c \in Conns : net[c].up = << >> BY DEF Init, Whole
  <2>4. Session BY <2>1, <2>2, <2>3 DEF Session
  <2>5. NothingLostWhileUp BY <2>1 DEF NothingLostWhileUp
  <2> QED BY <2>4, <2>5
<1>2. NInv /\ OInv' /\ [Next]_vars => NInv'
  <2> SUFFICES ASSUME NInv, OInv', [Next]_vars PROVE NInv' OBVIOUS
  <2>1. CASE UNCHANGED vars
    BY <2>1 DEF vars, NInv, Session, Up, Whole, NothingLostWhileUp, Ended, Passed, HandledOn,
                IdsOf, OnTheWay, HandledIds
  <2>2. CASE Enqueue BY <2>2, QueueLosesNothing
  <2>3. CASE Worker
    BY <2>3, QueueLosesNothing, SendLosesNothing, SocketLosesNothing DEF Worker
  <2>4. CASE GameExits \/ GameStarts BY <2>4, SocketLosesNothing
  <2>5. ASSUME NEW c \in Conns, Reset(c) \/ Serve(c) PROVE NInv'
    BY <2>5, ResetLosesNothing, ServeLosesNothing
  <2> QED BY <2>1, <2>2, <2>3, <2>4, <2>5 DEF Next
<1>3. NInv => NothingLostWhileUp BY DEF NInv
<1> QED BY <1>1, <1>2, <1>3, SortedAlways, PTL DEF Spec, NInv
=============================================================================
