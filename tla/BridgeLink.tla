----------------------------- MODULE BridgeLink -----------------------------
(***************************************************************************)
(* The link between the game bridge and the Go runtime: the bridge's IPC   *)
(* worker (bridge/src/ipc_client.cpp), the TCP connections it opens one    *)
(* after the other, and the server's goroutine for each of them            *)
(* (runtime-go/internal/ipc/server.go), which share the runtime's lock,    *)
(* the write lock and the current connection.                              *)
(***************************************************************************)
EXTENDS Naturals, Sequences, FiniteSets

CONSTANTS
    MaxConns,   \* bound: the connections the bridge opens
    MaxLines,   \* bound: the lines the game queues
    MaxResets,  \* bound: the connections broken or left before a reset, and that reset
    UpRoom,     \* lines a connection holds on their way to the server
    DownRoom    \* messages it holds on their way to the bridge

ASSUME LinkAssumption ==
    /\ MaxConns \in Nat \ {0} /\ MaxLines \in Nat /\ MaxResets \in Nat
    /\ UpRoom \in Nat \ {0} /\ DownRoom \in Nat \ {0}

Conns == 1 .. MaxConns
None == 0               \* no connection

VARIABLES
    game,       \* the bridge's process: its worker's phase, socket and queues
    nextLine,   \* the number of the next line the game queues
    net,        \* of each connection: what is in it, and who has left it
    phase,      \* of each connection: where its goroutine is
    current,    \* Server.conn
    lock,       \* the connection whose goroutine holds the runtime's lock
    writer,     \* the connection whose goroutine holds writeMu
    target,     \* of each connection: whom its goroutine is about to write to
    owned,      \* whether the runtime owns an NPC
    handled,    \* history: the lines handled on each connection, in order
    overlap     \* history: two connections have been served at once

vars == <<game, nextLine, net, phase, current, lock, writer, target, owned, handled, overlap>>
server == <<phase, current, lock, writer, target, owned, handled, overlap>>

\* A line by its number, or what is left of it, and the hello of a connection.
Line(id) == [id |-> id, whole |-> TRUE]
Hello == Line(0)

Phases == {"none", "accepted", "reading", "handling", "sending", "replying",
           "ending", "releasing", "closing", "closed"}
Served == {"reading", "handling", "sending", "replying", "ending", "releasing", "closing"}

\* The worker is away, opening a connection, taking the queue, sending, or waiting.
Workers == {"off", "connecting", "taking", "sending", "waiting"}

-----------------------------------------------------------------------------
(* The bridge: IpcClient. *)

\* A bridge that has just started: its queues are empty, and the lines and the
\* connections before these belong to an earlier one.
Started(line, conn) ==
    [worker |-> "connecting", conn |-> None, queue |-> << >>, batch |-> << >>,
     line |-> line, since |-> conn]

\* enqueue, called by the game thread whatever the worker is doing.
Enqueue ==
    /\ game.worker # "off"
    /\ nextLine <= MaxLines
    /\ nextLine' = nextLine + 1
    /\ game' = [game EXCEPT !.queue = Append(@, Line(nextLine))]
    /\ UNCHANGED <<net, server>>

\* Seeded fault: a new connection starts with an empty queue.
ConnectClean(c) ==
    /\ game.worker = "connecting"
    /\ phase[c] = "none" /\ \A d \in Conns : d < c => phase[d] # "none"
    /\ game' = [game EXCEPT !.worker = "taking", !.conn = c, !.queue = <<Hello>>]
    /\ phase' = [phase EXCEPT ![c] = "accepted"]
    /\ UNCHANGED <<nextLine, net, current, lock, writer, target, owned, handled, overlap>>

\* connect_to succeeds as soon as the server's socket has the connection; the
\* hello goes behind what is queued already.
Connect(c) ==
    /\ game.worker = "connecting"
    /\ phase[c] = "none" /\ \A d \in Conns : d < c => phase[d] # "none"
    /\ game' = [game EXCEPT !.worker = "taking", !.conn = c, !.queue = Append(@, Hello)]
    /\ phase' = [phase EXCEPT ![c] = "accepted"]
    /\ UNCHANGED <<nextLine, net, current, lock, writer, target, owned, handled, overlap>>

\* send_queued takes the whole queue ...
TakeQueue ==
    /\ game.worker = "taking"
    /\ game' = [game EXCEPT !.worker = "sending", !.batch = game.queue, !.queue = << >>]
    /\ UNCHANGED <<nextLine, net, server>>

\* ... and sends it; it blocks while the connection is full.
SendLine ==
    LET c == game.conn IN
    /\ game.worker = "sending" /\ game.batch # << >>
    /\ ~ net[c].broken
    /\ Len(net[c].up) < UpRoom
    /\ net' = [net EXCEPT ![c].up = Append(@, Head(game.batch))]
    /\ game' = [game EXCEPT !.batch = Tail(@)]
    /\ UNCHANGED <<nextLine, server>>

\* On a connection the server has left a send may still succeed, to no one.
SendIntoVoid ==
    /\ game.worker = "sending" /\ game.batch # << >>
    /\ net[game.conn].broken
    /\ game' = [game EXCEPT !.batch = Tail(@)]
    /\ UNCHANGED <<nextLine, net, server>>

\* Seeded fault: the lines behind the failed one stay with it, and one that was sent is
\* queued again.
RequeuedAll(line, batch) == IF line.id > 1 THEN <<Line(line.id - 1)>> \o batch ELSE batch

\* A failed send puts what is left of its line, all of it or an end of it, at the
\* front of the queue; the lines behind it are dropped with the batch.  The
\* beginning that was sent ends in a connection nobody answers on.
Requeued(line, batch) == <<line>>

SendFails ==
    /\ game.worker = "sending" /\ game.batch # << >>
    /\ net[game.conn].broken
    /\ \E line \in {Head(game.batch), [Head(game.batch) EXCEPT !.whole = FALSE]} :
          game' = [game EXCEPT !.worker = "waiting", !.batch = << >>,
                               !.queue = Requeued(line, game.batch) \o @]
    /\ UNCHANGED <<nextLine, net, server>>

BatchSent ==
    /\ game.worker = "sending" /\ game.batch = << >>
    /\ game' = [game EXCEPT !.worker = "waiting"]
    /\ UNCHANGED <<nextLine, net, server>>

\* Seeded fault: the socket is read only when nothing waits to be sent.
ReceiveWhenIdle ==
    LET c == game.conn IN
    /\ game.worker = "waiting" /\ game.queue = << >>
    /\ net[c].down > 0 \/ ~ net[c].broken
    /\ net' = [net EXCEPT ![c].down = 0]
    /\ game' = [game EXCEPT !.worker = "taking"]
    /\ UNCHANGED <<nextLine, server>>

\* wait_readable and recv_bytes: nothing to read, or messages to hand to the
\* callback.
Receive ==
    LET c == game.conn IN
    /\ game.worker = "waiting"
    /\ net[c].down > 0 \/ ~ net[c].broken
    /\ net' = [net EXCEPT ![c].down = 0]
    /\ game' = [game EXCEPT !.worker = "taking"]
    /\ UNCHANGED <<nextLine, server>>

\* The end of the stream or an error: the socket is closed and reopened.
Reconnect ==
    LET c == game.conn IN
    /\ game.worker = "waiting"
    /\ net[c].broken /\ net[c].down = 0
    /\ game' = [game EXCEPT !.worker = "connecting", !.conn = None]
    /\ net' = [net EXCEPT ![c].left = TRUE]
    /\ UNCHANGED <<nextLine, server>>

\* The game ends, with whatever its queues hold; what it sent is still delivered.
GameExits ==
    /\ game.worker # "off"
    /\ game' = [game EXCEPT !.worker = "off", !.conn = None, !.queue = << >>, !.batch = << >>]
    /\ net' = IF game.conn = None THEN net ELSE [net EXCEPT ![game.conn].left = TRUE]
    /\ UNCHANGED <<nextLine, server>>

GameStarts ==
    /\ game.worker = "off"
    /\ game' = Started(nextLine, Cardinality({c \in Conns : phase[c] # "none"}))
    /\ UNCHANGED <<nextLine, net, server>>

-----------------------------------------------------------------------------
(* The network. *)

\* A reset loses what the bridge has not read, and what the server has not yet
\* taken into its scanner's buffer.
Reset(c) ==
    /\ Cardinality({d \in Conns : net[d].reset \/ net[d].left}) < MaxResets
    /\ phase[c] \notin {"none", "closed"} /\ ~ net[c].broken
    /\ \E k \in 0 .. Len(net[c].up) :
          net' = [net EXCEPT ![c].broken = TRUE, ![c].reset = TRUE, ![c].down = 0,
                             ![c].up = SubSeq(@, 1, k)]
    /\ UNCHANGED <<game, nextLine, server>>

-----------------------------------------------------------------------------
(* The server: handleClient. *)

Go(c, p) == phase' = [phase EXCEPT ![c] = p]

\* The goroutine makes its connection the current one, whichever was before: the
\* goroutines of two connections may do so in either order.
Attach(c) ==
    /\ phase[c] = "accepted"
    /\ Go(c, "reading")
    /\ current' = c
    /\ overlap' = (overlap \/ \E d \in Conns \ {c} : phase[d] \in Served)
    /\ UNCHANGED <<game, nextLine, net, lock, writer, target, owned, handled>>

\* The scanner's next line.  A fragment is not JSON and gets an error back.
Ended(c) == net[c].left \/ net[c].broken
Reads(c) == phase[c] = "reading" /\ net[c].up # << >>
Scan(c) == net' = [net EXCEPT ![c].up = Tail(@)]

ReadBadLine(c) ==
    /\ Reads(c) /\ ~ Head(net[c].up).whole
    /\ Scan(c)
    /\ Go(c, "replying")
    /\ UNCHANGED <<game, nextLine, current, lock, writer, target, owned, handled, overlap>>

\* Seeded fault: a hello is handled like a line of the game.
HandleMessageAny(c) ==
    /\ Reads(c) /\ Head(net[c].up).whole
    /\ lock = None
    /\ Scan(c)
    /\ lock' = c
    /\ handled' = [handled EXCEPT ![c] = Append(@, Head(net[c].up).id)]
    /\ Go(c, "handling")
    /\ UNCHANGED <<game, nextLine, current, writer, target, owned, overlap>>

\* HandleMessage waits for the runtime's lock, and answers a hello at once.
HandleMessage(c) ==
    /\ Reads(c) /\ Head(net[c].up).whole
    /\ lock = None
    /\ Scan(c)
    /\ LET id == Head(net[c].up).id IN
       \/ /\ id = Hello.id
          /\ Go(c, "replying")
          /\ UNCHANGED <<lock, handled>>
       \/ /\ id # Hello.id
          /\ lock' = c
          /\ handled' = [handled EXCEPT ![c] = Append(@, id)]
          /\ Go(c, "handling")
    /\ UNCHANGED <<game, nextLine, current, writer, target, owned, overlap>>

\* What the handler does: nothing the link can see, take an NPC from a scan and
\* perhaps command it, or fail.  Send reads the current connection and drops the
\* command when there is none.
Handled(c) ==
    /\ phase[c] = "handling"
    /\ \/ /\ owned' \in {owned, TRUE}
          /\ lock' = None
          /\ target' = [target EXCEPT ![c] = c]
          /\ Go(c, "replying")
       \/ /\ owned' = TRUE
          /\ current # None
          /\ target' = [target EXCEPT ![c] = current]
          /\ Go(c, "sending")
          /\ UNCHANGED lock
       \/ /\ lock' = None
          /\ Go(c, "ending")
          /\ UNCHANGED <<owned, target>>
    /\ UNCHANGED <<game, nextLine, net, current, writer, handled, overlap>>

\* writeTo holds writeMu while it writes, to whichever connection.
TakeWriter(c) ==
    /\ phase[c] \in {"sending", "replying"}
    /\ writer = None
    /\ writer' = c
    /\ UNCHANGED <<game, nextLine, net, phase, current, lock, target, owned, handled, overlap>>

\* A write returns when there is room, or with an error when no one is there; the
\* dispatcher ignores the error of a command, the loop ends on that of a reply.
\* No message needs a reply: the handler may return none.
Write(c) ==
    LET t == target[c]
        gone == Ended(t)
    IN
    /\ phase[c] \in {"sending", "replying"} /\ writer = c
    /\ gone \/ net[t].down < DownRoom
    /\ net' = IF gone THEN net ELSE [net EXCEPT ![t].down = @ + 1]
    /\ writer' = None
    /\ \/ /\ phase[c] = "sending"
          /\ lock' = None
          /\ target' = [target EXCEPT ![c] = c]
          /\ Go(c, "replying")
       \/ /\ phase[c] = "replying"
          /\ Go(c, IF gone THEN "ending" ELSE "reading")
          /\ UNCHANGED <<lock, target>>
    /\ UNCHANGED <<game, nextLine, current, owned, handled, overlap>>

NoReply(c) ==
    /\ phase[c] = "replying" /\ writer # c
    /\ Go(c, "reading")
    /\ UNCHANGED <<game, nextLine, net, current, lock, writer, target, owned, handled, overlap>>

\* Seeded fault: only a broken connection ends the loop.
EndOfInputBroken(c) ==
    /\ phase[c] = "reading" /\ net[c].up = << >> /\ net[c].broken
    /\ Go(c, "ending")
    /\ UNCHANGED <<game, nextLine, net, current, lock, writer, target, owned, handled, overlap>>

EndOfInput(c) ==
    /\ phase[c] = "reading" /\ net[c].up = << >> /\ Ended(c)
    /\ Go(c, "ending")
    /\ UNCHANGED <<game, nextLine, net, current, lock, writer, target, owned, handled, overlap>>

\* Seeded faults: the connection stays the current one; or it is detached before it is
\* compared, and never found to be current.
DetachLate(c) ==
    /\ phase[c] = "ending"
    /\ Go(c, IF current = c THEN "releasing" ELSE "closing")
    /\ UNCHANGED <<game, nextLine, net, current, lock, writer, target, owned, handled, overlap>>

DetachBlind(c) ==
    /\ phase[c] = "ending"
    /\ Go(c, "closing")
    /\ current' = None
    /\ UNCHANGED <<game, nextLine, net, lock, writer, target, owned, handled, overlap>>

\* The deferred function: the connection is detached if it is still the current
\* one, and only then everything is released.
Detach(c) ==
    /\ phase[c] = "ending"
    /\ Go(c, IF current = c THEN "releasing" ELSE "closing")
    /\ current' = IF current = c THEN None ELSE current
    /\ UNCHANGED <<game, nextLine, net, lock, writer, target, owned, handled, overlap>>

ReleaseAll(c) ==
    /\ phase[c] = "releasing"
    /\ lock = None
    /\ owned' = FALSE
    /\ Go(c, "closing")
    /\ UNCHANGED <<game, nextLine, net, current, lock, writer, target, handled, overlap>>

Close(c) ==
    /\ phase[c] = "closing"
    /\ Go(c, "closed")
    /\ net' = [net EXCEPT ![c].broken = TRUE, ![c].up = << >>]
    /\ UNCHANGED <<game, nextLine, current, lock, writer, target, owned, handled, overlap>>

-----------------------------------------------------------------------------
Init ==
    /\ game = Started(1, None)
    /\ nextLine = 1
    /\ net = [c \in Conns |-> [up |-> << >>, down |-> 0, broken |-> FALSE, left |-> FALSE,
                               reset |-> FALSE]]
    /\ phase = [c \in Conns |-> "none"]
    /\ current = None
    /\ lock = None
    /\ writer = None
    /\ target = [c \in Conns |-> c]
    /\ owned = FALSE
    /\ handled = [c \in Conns |-> << >>]
    /\ overlap = FALSE

Worker ==
    \/ \E c \in Conns : Connect(c)
    \/ TakeQueue \/ SendLine \/ SendIntoVoid \/ SendFails \/ BatchSent
    \/ Receive \/ Reconnect

Serve(c) ==
    \/ Attach(c) \/ ReadBadLine(c) \/ HandleMessage(c) \/ Handled(c) \/ TakeWriter(c)
    \/ Write(c) \/ NoReply(c) \/ EndOfInput(c) \/ Detach(c) \/ ReleaseAll(c) \/ Close(c)

Next ==
    \/ Enqueue
    \/ Worker
    \/ GameExits
    \/ GameStarts
    \/ \E c \in Conns : Reset(c) \/ Serve(c)

Spec == Init /\ [][Next]_vars

\* The worker's loop and every goroutine keep running whenever they can; nothing
\* is assumed of the game, its end, or the network.
Fairness == WF_vars(Worker) /\ \A c \in Conns : WF_vars(Serve(c))
FairSpec == Spec /\ Fairness

-----------------------------------------------------------------------------
(* Properties. *)

Lines == [id : 0 .. MaxLines, whole : BOOLEAN]
TypeOK ==
    /\ game \in [worker : Workers, conn : Conns \cup {None}, queue : Seq(Lines), batch : Seq(Lines),
                line : 1 .. MaxLines + 1, since : 0 .. MaxConns]
    /\ nextLine \in 1 .. MaxLines + 1
    /\ net \in [Conns -> [up : Seq(Lines), down : 0 .. DownRoom, broken : BOOLEAN,
                          left : BOOLEAN, reset : BOOLEAN]]
    /\ phase \in [Conns -> Phases]
    /\ current \in Conns \cup {None}
    /\ lock \in Conns \cup {None}
    /\ writer \in Conns \cup {None}
    /\ target \in [Conns -> Conns]
    /\ owned \in BOOLEAN
    /\ handled \in [Conns -> Seq(1 .. MaxLines)]
    /\ overlap \in BOOLEAN

\* The numbers of the lines that are somewhere on their way.
IdsOf(lines) == {lines[i].id : i \in DOMAIN lines}
OnTheWay == IdsOf(game.queue) \cup IdsOf(game.batch)
              \cup UNION {IdsOf(net[c].up) : c \in Conns}
HandledIds == UNION {{handled[c][i] : i \in DOMAIN handled[c]} : c \in Conns}

\* A line the game queued is lost only with a connection: as long as none that
\* this bridge opened broke, connecting, taking the queue and the scanner leave
\* every line on its way or handled (enqueue, send_queued, handleClient).
NothingLostWhileUp ==
    (\A c \in Conns : c > game.since => ~ Ended(c)) /\ game.worker # "off"
      => game.line .. nextLine - 1 \subseteq OnTheWay \cup HandledIds

\* What is requeued and sent again on the next connection is never a line the
\* server has handled, so no scan, key or result counts twice; and on one connection
\* the lines are handled in the order the game queued them, the requeued one ahead
\* of those queued after it.
HandledInOrder ==
    \A c, d \in Conns : \A i \in DOMAIN handled[c], j \in DOMAIN handled[d] :
        /\ handled[c][i] = handled[d][j] => c = d /\ i = j
        /\ c = d /\ i < j => handled[c][i] < handled[c][j]

\* The current connection is one whose goroutine has not begun to end: what the
\* runtime sends after a disconnect is dropped or goes to a living bridge
\* ("anything ReleaseAll emits is not written to a dying socket").
CurrentIsServed == current # None => phase[current] \in {"reading", "handling", "sending",
                                                          "replying", "ending"}

\* With one bridge at a time, nothing is owned once it is gone.
OrphansNeedOverlap ==
    (\A c \in Conns : phase[c] \in {"none", "accepted", "closed"}) /\ ~ overlap => ~ owned

\* "a bridge disconnect releases all temporary AI ownership back to Rockstar AI":
\* nothing is owned when every bridge has gone.  It does not hold: the goroutine
\* of an older connection handles a scan after the current one was released, and
\* its own end releases nothing.
AllGoneReleased ==
    (\A c \in Conns : phase[c] \in {"none", "closed"}) => ~ owned

\* The worker is blocked sending on c while a goroutine is blocked writing to it.
Stuck(c) ==
    /\ game.worker = "sending" /\ game.conn = c /\ game.batch # << >>
    /\ ~ net[c].broken /\ Len(net[c].up) = UpRoom
    /\ \E d \in Conns : writer = d /\ target[d] = c
    /\ net[c].down = DownRoom

\* A message to the bridge is read, unless the two ends block each other: the
\* worker sends a whole batch before it reads, and the server writes under the
\* locks its reading needs.
MessagesAreRead ==
    \A c \in Conns :
        net[c].down > 0 /\ ~ Ended(c) ~> net[c].down = 0 \/ Ended(c) \/ Stuck(c)

\* The goroutine of a connection the bridge has left comes to its end, and with
\* it the release, whatever the other goroutines hold, but for that standstill.
GoneCloses ==
    \A c \in Conns : net[c].left ~> phase[c] = "closed" \/ \E d \in Conns : Stuck(d)
=============================================================================
