-------------------------- MODULE WebSocketTunnel --------------------------
(***************************************************************************)
(* WebSockets through the tunnel: handleUpgrade of                         *)
(* apps/server/lib/http-router.js at the browser's side, the WebSocket     *)
(* half of apps/client/lib/proxy.js at the target's.                       *)
(*                                                                         *)
(* Each end reads WebSocket frames from its socket, cuts a large one into  *)
(* pieces (two stand for any number), sends the pieces as DATA and puts    *)
(* the frames it receives together again.  A Close frame ends its          *)
(* direction but not the stream; the stream ends by FIN, by ERROR, by a    *)
(* timer, with a socket or with the session.                               *)
(*                                                                         *)
(* The session is what SessionPair.tla promises and may fail at either     *)
(* end, as in HttpExchange.tla; a stream never outlives it and its id is   *)
(* never reused, so one session is enough.  Frames for a stream that is    *)
(* over at its receiver are dropped as soon as that is certain.            *)
(***************************************************************************)
EXTENDS Integers, FiniteSets, SequencesExt

CONSTANTS Streams,        \* stream ids, one for each upgrade request, in order
          BrowserScript,  \* per stream: kinds of the frames the browser sends
          TargetScript,   \* per stream: kinds of the frames the target sends
          MaxWebSockets   \* maxWebSocketStreams

(* Nobody sends a frame after Close (RFC 6455).                            *)
Scripts ==
  {s \in Seq({"small", "large", "close"}) :
     \A n \in DOMAIN s : s[n] = "close" => n = Len(s)}

ASSUME WebSocketAssumption ==
  /\ Streams \subseteq Nat
  /\ \A x \in Streams : BrowserScript[x] \in Scripts /\ TargetScript[x] \in Scripts
  /\ MaxWebSockets \in Nat \ {0}

VARIABLES
  serverUp, clientUp,  \* the end has not failed the session
  srv,                 \* per stream: the closure of handleUpgrade
  slots,               \* streams of ClientSession.activeStreamIds and
                       \* activeWebSockets, of the pool's handlers and of its
                       \* transport, and armed idle timers
  browser,             \* per stream: frames written to the browser
  cli,                 \* per stream: wsState and the upgrade listener
  tgt,                 \* per stream: the target's request and its socket
  target,              \* per stream: frames written to the target
  toClient, toServer,  \* per stream: ordered frames in flight
  errors               \* ERROR frames in flight, as <<end, stream>>

wires == <<toClient, toServer, errors>>
serverVars == <<serverUp, srv, slots, browser>>
clientVars == <<clientUp, cli, tgt, target>>
vars == <<serverVars, clientVars, wires>>

-----------------------------------------------------------------------------
(* Frames and pieces: frame n of a script, whole or in two pieces.         *)

Piece(n, first, last) == [type |-> "DATA", frame |-> n, first |-> first, last |-> last]
Control(type) == [type |-> type, frame |-> 0, first |-> TRUE, last |-> TRUE]

PiecesOf(script, frames) ==
  FlattenSeq([i \in DOMAIN frames |->
    IF script[frames[i]] = "large"
    THEN <<Piece(frames[i], TRUE, FALSE), Piece(frames[i], FALSE, TRUE)>>
    ELSE <<Piece(frames[i], TRUE, TRUE)>>])

(* What an end has read and not yet sent: the rest of the large frame it   *)
(* is sending (pendingLargeFrame), then the frames of its buffer.          *)
(* Mutant: the buffer goes first.                                          *)
OutputBufferFirst(script, out) == PiecesOf(script, out.buffer) \o out.rest
Output(script, out) == out.rest \o PiecesOf(script, out.buffer)

(* The rest of the large frame begun, when the pieces of left are unsent.  *)
(* Mutants: its offset is forgotten, so that it starts again; the rest is. *)
RestFromStart(script, left) ==
  IF left # <<>> /\ ~left[1].first THEN PiecesOf(script, <<left[1].frame>>) ELSE <<>>
RestLost(script, left) == <<>>
Rest(script, left) ==
  IF left # <<>> /\ ~left[1].first THEN <<left[1]>> ELSE <<>>

(* What an end keeps when it has sent k pieces: the frames begun have left *)
(* the buffer.                                                             *)
Sent(script, out, k) ==
  LET pieces == Output(script, out)
      begun == Cardinality({i \in 1 .. k : pieces[i].first})
  IN  [out EXCEPT
        !.rest = Rest(script, SubSeq(pieces, k + 1, Len(pieces))),
        !.buffer = SubSeq(@, begun + 1, Len(@))]

Closes(script, pieces) == \E p \in Range(pieces) : script[p.frame] = "close"

(* One piece in: a frame is handed on when its last piece is there, and    *)
(* nothing after Close.  A frame put together from the wrong pieces is 0.  *)
NewInput == [part |-> 0, closing |-> FALSE, seen |-> <<>>]
Reassemble(script, in, p) ==
  CASE in.closing -> in
    [] ~in.closing /\ ~p.last -> [in EXCEPT !.part = p.frame]
    [] ~in.closing /\ p.last ->
         [part |-> 0, closing |-> script[p.frame] = "close",
          seen |-> Append(in.seen, IF in.part = (IF p.first THEN 0 ELSE p.frame)
                                   THEN p.frame ELSE 0)]

Upto(n) == [i \in 1 .. n |-> i]

-----------------------------------------------------------------------------
Slots == {"ids", "webSockets", "handlers", "transport", "timers"}

NewHandler == [phase |-> "idle", upgraded |-> FALSE, full |-> FALSE,
               paused |-> FALSE, read |-> 0, buffer |-> <<>>, rest |-> <<>>,
               pump |-> "idle", writes |-> {}]
NewProxy == [phase |-> "none", early |-> <<>>, full |-> FALSE, timer |-> FALSE,
             paused |-> FALSE, read |-> 0, buffer |-> <<>>, rest |-> <<>>,
             blocked |-> FALSE, finish |-> FALSE]

Open == {x \in Streams : srv[x].phase = "open"}
Stuck == {x \in Streams : srv[x].phase = "stuck"}

(* The proxy's map activeWebSockets; and the halves in it whose stream is  *)
(* open.  A stuck one has lost its stream and stays in the map.            *)
InMap == {x \in Streams : cli[x].phase \in {"asking", "open", "stuck"}}
Linked == {x \in Streams : cli[x].phase \in {"asking", "open"}}

Pieces(x) == [type : {"DATA"}, frame : 1 .. Len(BrowserScript[x]) + Len(TargetScript[x]),
              first : BOOLEAN, last : BOOLEAN]
Controls == {Control(type) : type \in {"UPGRADE", "FIN"}}

TypeOK ==
  /\ serverUp \in BOOLEAN /\ clientUp \in BOOLEAN
  /\ slots \in [Slots -> SUBSET Streams]
  /\ errors \subseteq {"client", "server"} \X Streams
  /\ \A x \in Streams :
       /\ srv[x] \in [phase : {"idle", "open", "stuck", "done"}, upgraded : BOOLEAN,
            full : BOOLEAN, paused : BOOLEAN, read : Nat, buffer : Seq(Nat),
            rest : Seq(Pieces(x)), pump : {"idle", "scheduled", "waiting"},
            writes : SUBSET {"close", "idle", "refuse"}]
       /\ Len(srv[x].rest) <= 1 /\ Len(cli[x].rest) <= 1
       /\ cli[x] \in [phase : {"none", "asking", "open", "stuck", "done"},
            early : Seq(Pieces(x)), full : BOOLEAN, timer : BOOLEAN,
            paused : BOOLEAN, read : Nat, buffer : Seq(Nat), rest : Seq(Pieces(x)),
            blocked : BOOLEAN, finish : BOOLEAN]
       /\ tgt[x] \in [req : {"none", "asking", "answered", "failed", "upgraded"},
            sock : {"none", "open", "gone"}]
       /\ toClient[x] \in Seq(Pieces(x) \cup Controls)
       /\ toServer[x] \in Seq(Pieces(x) \cup Controls)
       /\ {browser[x], target[x]} \subseteq
            [part : Nat, closing : BOOLEAN, seen : Seq(Nat)]

Init ==
  /\ serverUp = TRUE /\ clientUp = TRUE
  /\ srv = [x \in Streams |-> NewHandler]
  /\ slots = [k \in Slots |-> {}]
  /\ browser = [x \in Streams |-> NewInput] /\ target = [x \in Streams |-> NewInput]
  /\ cli = [x \in Streams |-> NewProxy]
  /\ tgt = [x \in Streams |-> [req |-> "none", sock |-> "none"]]
  /\ toClient = [x \in Streams |-> <<>>] /\ toServer = [x \in Streams |-> <<>>]
  /\ errors = {}

Without(wire, S) == [x \in Streams |-> IF x \in S THEN <<>> ELSE wire[x]]
ClientListens(x) == clientUp /\ cli[x].phase \in {"none", "asking", "open"}
ServerListens(x) == serverUp /\ x \in Open

-----------------------------------------------------------------------------
(* The router. *)

Send(x, pieces) ==
  toClient' = IF ClientListens(x) THEN [toClient EXCEPT ![x] = @ \o pieces]
                                  ELSE toClient

(* cleanup(terminal) of the streams S: everything is given back, the       *)
(* socket destroyed, the client told.                                      *)
(* Mutant: the transport keeps the stream.                                 *)
ReleasedButTransport == Slots \ {"transport"}
Released == Slots

Spent == [NewHandler EXCEPT !.phase = "done"]

Cleanup(S, terminal) ==
  /\ srv' = [x \in Streams |-> IF x \in S THEN Spent ELSE srv[x]]
  /\ slots' = [k \in Slots |-> IF k \in Released THEN slots[k] \ S ELSE slots[k]]
  /\ toServer' = Without(toServer, S)
  /\ toClient' = [x \in Streams |->
       IF x \in S /\ terminal = "FIN" /\ ClientListens(x)
       THEN Append(toClient[x], Control("FIN")) ELSE toClient[x]]
  /\ errors' = (errors \ ({"server"} \X S)) \cup
       {<<"client", x>> : x \in {y \in S : terminal = "ERROR" /\ ClientListens(y)}}

Ends(x, terminal) ==
  Cleanup({x}, terminal) /\ UNCHANGED <<serverUp, browser, clientVars>>

ServerFails ==
  /\ serverUp
  /\ serverUp' = FALSE
  /\ Cleanup(Open, "none")
  /\ UNCHANGED <<browser, clientVars>>

(* resetIdleTimer.                                                         *)
TimerReset(x) == [slots EXCEPT !["timers"] = @ \cup {x}]

Available == serverUp /\ Cardinality(slots["webSockets"]) < MaxWebSockets

(* The next request; ids are given out in order.                           *)
Arrives(x) ==
  srv[x].phase = "idle" /\ \A y \in Streams : srv[y].phase = "idle" => x <= y

(* Any upgrade may be refused: the limit on open streams is shared with    *)
(* other requests, and allocating the id may fail.                         *)
Refuse(x) ==
  /\ Arrives(x)
  /\ srv' = [srv EXCEPT ![x].phase = "done"]
  /\ UNCHANGED <<serverUp, slots, browser, clientVars, wires>>

Accept(x) ==
  /\ Arrives(x) /\ Available
  /\ srv' = [srv EXCEPT ![x].phase = "open"]
  /\ slots' = [k \in Slots |-> slots[k] \cup {x}]
  /\ Send(x, <<Control("UPGRADE")>>)
  /\ UNCHANGED <<serverUp, browser, clientVars, toServer, errors>>

(* The session fails while it sends the opening frame, which throws.  The  *)
(* catch block's cleanup() reads variables whose declarations the throw    *)
(* has skipped and throws as well, having released nothing.                *)
AcceptFails(x) ==
  /\ Arrives(x) /\ Available
  /\ serverUp' = FALSE
  /\ srv' = [y \in Streams |-> IF y = x THEN [srv[y] EXCEPT !.phase = "stuck"]
                               ELSE IF y \in Open THEN Spent ELSE srv[y]]
  /\ slots' = [k \in Slots |-> (slots[k] \ Open) \cup
                               (IF k \in {"ids", "webSockets"} THEN {x} ELSE {})]
  /\ toServer' = Without(toServer, Open)
  /\ errors' = errors \ ({"server"} \X Open)
  /\ UNCHANGED <<browser, clientVars, toClient>>

(* socket 'data': any number of frames at once, or too much for the        *)
(* buffer.                                                                 *)
BrowserData(x) ==
  /\ x \in Open /\ ~srv[x].paused
  /\ \/ Ends(x, "ERROR")
     \/ \E n \in srv[x].read + 1 .. Len(BrowserScript[x]) :
          /\ srv' = [srv EXCEPT ![x].read = n,
               ![x].buffer = @ \o SubSeq(Upto(n), srv[x].read + 1, n),
               ![x].pump = IF @ = "idle" THEN "scheduled" ELSE @]
          /\ slots' = TimerReset(x)
          /\ UNCHANGED <<serverUp, browser, clientVars, wires>>

(* pumpBrowserFrames: as far as the lanes are writable.  A pump that stops *)
(* after Close leaves the input as it is: paused, if a large frame was     *)
(* before it.                                                              *)
(* Mutant: frames behind a full lane wait for the next data.               *)
WaitingForData == "idle"
Waiting == "waiting"

Pump(x) ==
  /\ x \in Open /\ srv[x].pump = "scheduled"
  /\ LET out == Output(BrowserScript[x], srv[x])
         large == \E p \in Range(out) : ~p.last
     IN  \E k \in 0 .. Len(out), writable \in BOOLEAN :
           /\ IF writable THEN k = Len(out) ELSE k > 0
           /\ Send(x, SubSeq(out, 1, k))
           /\ srv' = [srv EXCEPT ![x] =
                [Sent(BrowserScript[x], @, k) EXCEPT
                   !.pump = IF writable THEN "idle" ELSE Waiting,
                   !.paused = ~writable \/ (Closes(BrowserScript[x], out) /\ large)]]
  /\ UNCHANGED <<serverUp, slots, browser, clientVars, toServer, errors>>

PoolDrain(x) ==
  /\ x \in Open /\ srv[x].pump = "waiting"
  /\ srv' = [srv EXCEPT ![x].pump = "scheduled", ![x].paused = FALSE]
  /\ UNCHANGED <<serverUp, slots, browser, clientVars, wires>>

(* The end of the stream is seen only by a socket that is being read; an   *)
(* error, of a write for instance, always.                                 *)
BrowserEnds(x) == x \in Open /\ ~srv[x].paused /\ Ends(x, "FIN")
BrowserError(x) == x \in Open /\ Ends(x, "ERROR")

BrowserDrain(x) ==
  /\ x \in Open /\ srv[x].full
  /\ srv' = [srv EXCEPT ![x].full = FALSE]
  /\ UNCHANGED <<serverUp, slots, browser, clientVars, wires>>

(* The callbacks of the writes a stream ends with: the target's Close, the *)
(* idle timer's Close, the refusal of an inconsistent handshake.           *)
WriteDone(x, write) ==
  /\ x \in Open /\ write \in srv[x].writes
  /\ Ends(x, CASE write = "close" -> "none" [] write = "idle" -> "FIN"
               [] write = "refuse" -> "ERROR")

(* Mutant: the idle timer is for unanswered upgrades only.                 *)
IdleTimeoutUnanswered(x) == x \in slots["timers"] /\ ~srv[x].upgraded /\ Ends(x, "ERROR")

IdleTimeout(x) ==
  /\ x \in slots["timers"]
  /\ \/ ~srv[x].upgraded /\ Ends(x, "ERROR")
     \/ /\ srv[x].upgraded
        /\ srv' = [srv EXCEPT ![x].writes = @ \cup {"idle"}]
        /\ slots' = [slots EXCEPT !["timers"] = @ \ {x}]
        /\ UNCHANGED <<serverUp, browser, clientVars, wires>>

(* The frame handler.                                                      *)
ServerReceives(x) ==
  /\ toServer[x] # <<>> /\ x \in slots["handlers"] /\ ~srv[x].full
  /\ UNCHANGED <<serverUp, clientVars>>
  /\ LET frame == Head(toServer[x])
         taken == [toServer EXCEPT ![x] = Tail(@)]
     IN  \/ /\ frame.type = "UPGRADE"
            /\ \/ srv' = [srv EXCEPT ![x].upgraded = TRUE]
               \/ srv' = [srv EXCEPT ![x].writes = @ \cup {"refuse"}]
            /\ slots' = TimerReset(x) /\ toServer' = taken
            /\ UNCHANGED <<browser, toClient, errors>>
         \/ /\ frame.type = "DATA" /\ srv[x].upgraded
            /\ browser' = [browser EXCEPT ![x] = Reassemble(TargetScript[x], @, frame)]
            /\ LET wrote == browser'[x].seen # browser[x].seen
               IN  \E full \in {FALSE, wrote /\ ~browser'[x].closing} :
                     srv' = [srv EXCEPT ![x].full = full,
                       ![x].writes = IF wrote /\ browser'[x].closing
                                     THEN @ \cup {"close"} ELSE @]
            /\ slots' = TimerReset(x) /\ toServer' = taken
            /\ UNCHANGED <<toClient, errors>>
         \/ /\ frame.type = "DATA" /\ ~srv[x].upgraded
            /\ toServer' = taken
            /\ UNCHANGED <<srv, slots, browser, toClient, errors>>
         \/ /\ frame.type = "FIN" /\ ~browser[x].closing
            /\ Cleanup({x}, "none")
            /\ UNCHANGED browser
         \/ /\ frame.type = "FIN" /\ browser[x].closing
            /\ toServer' = taken
            /\ UNCHANGED <<srv, slots, browser, toClient, errors>>

(* ERROR of the client: the stream is dropped, then the handler told.      *)
ServerCancelled(x) ==
  /\ <<"server", x>> \in errors /\ x \in slots["handlers"]
  /\ Ends(x, "none")

-----------------------------------------------------------------------------
(* The proxy. *)

Reply(x, pieces) ==
  toServer' = IF ServerListens(x) THEN [toServer EXCEPT ![x] = @ \o pieces]
                                  ELSE toServer

Completed == [NewProxy EXCEPT !.phase = "done"]
SockGone(t) == IF t.sock = "open" THEN [t EXCEPT !.sock = "gone"] ELSE t

(* The wsStates of S are cleaned up: their sockets are destroyed, but not  *)
(* an upgrade request that is still pending.                               *)
Finished(S) ==
  /\ cli' = [x \in Streams |-> IF x \in S THEN Completed ELSE cli[x]]
  /\ tgt' = [x \in Streams |-> IF x \in S THEN SockGone(tgt[x]) ELSE tgt[x]]

(* VirtualSocket._failSession, with the proxy's handleSessionReset.        *)
(* Mutant: only the halves with an open stream are cleaned up.             *)
AbortAllLinked ==
  /\ clientUp' = FALSE
  /\ Finished(Linked)
  /\ toClient' = Without(toClient, Streams)
  /\ errors' = errors \ ({"client"} \X Streams)
  /\ UNCHANGED <<target, toServer, serverVars>>

AbortAll ==
  /\ clientUp' = FALSE
  /\ Finished(InMap)
  /\ toClient' = Without(toClient, Streams)
  /\ errors' = errors \ ({"client"} \X Streams)
  /\ UNCHANGED <<target, toServer, serverVars>>

ClientFails == clientUp /\ AbortAll

(* cleanup() of a wsState, with FIN or, told so, without.                  *)
Quit(x) ==
  /\ Finished({x})
  /\ toClient' = [toClient EXCEPT ![x] = <<>>]
  /\ UNCHANGED <<clientUp, target, serverVars>>

QuitWithFin(x) ==
  /\ Quit(x)
  /\ Reply(x, IF cli[x].phase = "open" THEN <<Control("FIN")>> ELSE <<>>)
  /\ errors' = errors \ {<<"client", x>>}

(* cleanup() before the upgrade has been answered: its FIN would come      *)
(* before the UPGRADE, and TransportSession.prepare fails the session.     *)
QuitUnanswered(x) == AbortAll

(* The frames of pieces are written to the target.  A write that is not    *)
(* writable pauses the stream, Close starts the timer of five seconds.     *)
Deliver(x, c, in, pieces) ==
  LET out == FoldLeft(LAMBDA i, p : Reassemble(BrowserScript[x], i, p), in, pieces)
  IN  /\ target' = [target EXCEPT ![x] = out]
      /\ \E full \in {c.full, out.seen # in.seen} :
           cli' = [cli EXCEPT ![x] =
             [c EXCEPT !.full = full, !.timer = @ \/ (out.closing /\ ~in.closing)]]

ClientReceives(x) ==
  /\ clientUp /\ toClient[x] # <<>> /\ ~cli[x].full
  /\ LET frame == Head(toClient[x])
         taken == [toClient EXCEPT ![x] = Tail(@)]
         asking == cli[x].phase = "asking"
     IN  \/ /\ frame.type = "UPGRADE"
            /\ cli' = [cli EXCEPT ![x].phase = "asking"]
            /\ tgt' = [tgt EXCEPT ![x].req = "asking"]
            /\ toClient' = taken
            /\ UNCHANGED <<clientUp, target, toServer, errors, serverVars>>
         \/ /\ frame.type = "DATA" /\ asking
            /\ \/ /\ cli' = [cli EXCEPT ![x].early = Append(@, frame)]
                  /\ toClient' = taken
                  /\ UNCHANGED <<clientUp, tgt, target, toServer, errors, serverVars>>
               \/ QuitUnanswered(x)
         \/ /\ frame.type = "DATA" /\ ~asking
            /\ Deliver(x, cli[x], target[x], <<frame>>)
            /\ toClient' = taken
            /\ UNCHANGED <<clientUp, tgt, toServer, errors, serverVars>>
         \/ frame.type = "FIN" /\ asking /\ QuitUnanswered(x)
         \/ frame.type = "FIN" /\ ~asking /\ ~target[x].closing /\ QuitWithFin(x)
         \/ /\ frame.type = "FIN" /\ ~asking /\ target[x].closing
            /\ toClient' = taken
            /\ UNCHANGED <<clientVars, toServer, errors, serverVars>>

(* ERROR of the server.  It may overtake the UPGRADE on a lane that joined *)
(* later, which fails the session.                                         *)
ClientCancelled(x) ==
  /\ clientUp /\ <<"client", x>> \in errors
  /\ \/ cli[x].phase = "none" /\ AbortAll
     \/ /\ cli[x].phase # "none"
        /\ Quit(x)
        /\ errors' = errors \ {<<"client", x>>}
        /\ UNCHANGED toServer

TargetDrain(x) ==
  /\ cli[x].full
  /\ cli' = [cli EXCEPT ![x].full = FALSE]
  /\ UNCHANGED <<clientUp, tgt, target, wires, serverVars>>

(* A stream paused with frames waiting fails the session in the end.       *)
FlowTimeout(x) == clientUp /\ cli[x].full /\ toClient[x] # <<>> /\ AbortAll

CloseTimer(x) == cli[x].timer /\ QuitWithFin(x)

(* processTargetData, having read up to frame n.  It goes on past a small  *)
(* frame that is not writable, stops inside or behind a large one          *)
(* (blocked, and then paused), and at Close asks for FIN in the next turn  *)
(* of the loop.  The outcomes: what it sends and what it leaves.           *)
Processed(x, c, n) ==
  LET out == [c EXCEPT !.read = n,
                       !.buffer = @ \o SubSeq(Upto(n), c.read + 1, n)]
      pieces == Output(TargetScript[x], out)
      Large(k) == k > 0 /\ TargetScript[x][pieces[k].frame] = "large"
      Outcome(k, blocked, paused) ==
        [sent |-> SubSeq(pieces, 1, k),
         closes |-> ~blocked /\ Closes(TargetScript[x], pieces),
         c |-> [Sent(TargetScript[x], out, k) EXCEPT
                  !.blocked = blocked, !.paused = paused,
                  !.finish = @ \/ (~blocked /\ Closes(TargetScript[x], pieces))]]
  IN  {Outcome(k, TRUE, TRUE) : k \in {i \in DOMAIN pieces : Large(i)}} \cup
      {Outcome(Len(pieces), FALSE, paused) :
         paused \in IF pieces = <<>> THEN {c.paused} ELSE BOOLEAN}

TargetData(x) ==
  /\ cli[x].phase = "open" /\ tgt[x].sock = "open" /\ ~cli[x].paused
  /\ \/ QuitWithFin(x)
     \/ \E n \in cli[x].read + 1 .. Len(TargetScript[x]) :
          \E step \in Processed(x, cli[x], n) :
            /\ Reply(x, step.sent)
            /\ cli' = [cli EXCEPT ![x] = step.c]
            /\ target' = [target EXCEPT ![x].closing = @ \/ step.closes]
            /\ UNCHANGED <<clientUp, tgt, toClient, errors, serverVars>>

(* The lanes drain: the rest of a large frame is sent.  The frames behind  *)
(* it stay in the buffer until the target sends more.                      *)
LaneDrain(x) ==
  /\ cli[x].phase = "open" /\ cli[x].paused
  /\ Reply(x, cli[x].rest)
  /\ \E blocked \in {FALSE, cli[x].rest # <<>>} :
       cli' = [cli EXCEPT ![x].rest = <<>>, ![x].blocked = blocked,
                          ![x].paused = blocked]
  /\ UNCHANGED <<clientUp, tgt, target, toClient, errors, serverVars>>

(* proxyReq 'upgrade': the answer, what came with it, and what the browser *)
(* has sent meanwhile.  One that comes after cleanup() leaves a socket     *)
(* which nothing destroys.                                                 *)
TargetUpgrades(x) ==
  /\ tgt[x].req = "asking"
  /\ tgt' = [tgt EXCEPT ![x] = [req |-> "upgraded", sock |-> "open"]]
  /\ UNCHANGED <<clientUp, toClient, errors, serverVars>>
  /\ \/ cli[x].phase = "done" /\ UNCHANGED <<cli, target, toServer>>
     \/ /\ cli[x].phase = "asking"
        /\ \E n \in 0 .. Len(TargetScript[x]) :
             \E step \in Processed(x, [cli[x] EXCEPT !.phase = "open", !.early = <<>>], n) :
               /\ Reply(x, <<Control("UPGRADE")>> \o step.sent)
               /\ Deliver(x, step.c, [target[x] EXCEPT !.closing = step.closes],
                          cli[x].early)

(* An error or a timeout of the request: ERROR, and cleanup(false).        *)
UpgradeFails(x) ==
  /\ tgt[x].req = "asking"
  /\ tgt' = [tgt EXCEPT ![x].req = "failed"]
  /\ UNCHANGED <<clientUp, target, toServer, serverVars>>
  /\ \/ cli[x].phase = "done" /\ UNCHANGED <<cli, toClient, errors>>
     \/ /\ cli[x].phase = "asking"
        /\ cli' = [cli EXCEPT ![x] = Completed]
        /\ toClient' = [toClient EXCEPT ![x] = <<>>]
        /\ errors' = (errors \ {<<"client", x>>}) \cup
                     {<<"server", y>> : y \in {x} \cap Open}

(* An answer other than 101: nobody listens for 'response', and the        *)
(* browser waits for the router's idle timer.                              *)
TargetAnswers(x) ==
  /\ tgt[x].req = "asking"
  /\ tgt' = [tgt EXCEPT ![x].req = "answered"]
  /\ UNCHANGED <<clientUp, cli, target, wires, serverVars>>

(* The turn after the target's Close.  FIN releases the stream even when   *)
(* it is not writable; the drain that cleanup() then waits for never comes.*)
Finish(x) ==
  /\ cli[x].finish
  /\ \/ QuitWithFin(x)
     \/ /\ cli' = [cli EXCEPT ![x] = [Completed EXCEPT !.phase = "stuck",
                                                     !.timer = cli[x].timer]]
        /\ Reply(x, <<Control("FIN")>>)
        /\ toClient' = [toClient EXCEPT ![x] = <<>>]
        /\ errors' = errors \ {<<"client", x>>}
        /\ UNCHANGED <<clientUp, tgt, target, serverVars>>

(* The socket's 'close' and 'error'.  A paused socket does not see the end.*)
TargetEnds(x) ==
  /\ tgt[x].sock = "open" /\ ~cli[x].paused
  /\ \/ cli[x].phase = "open" /\ ~target[x].closing /\ QuitWithFin(x)
     \/ /\ cli[x].phase # "open" \/ target[x].closing
        /\ tgt' = [tgt EXCEPT ![x].sock = "gone"]
        /\ UNCHANGED <<clientUp, cli, target, wires, serverVars>>

TargetError(x) ==
  tgt[x].sock = "open" /\ cli[x].phase \in {"open", "stuck"} /\ QuitWithFin(x)

-----------------------------------------------------------------------------
RouterStep(x) ==
  \/ Refuse(x) \/ Accept(x) \/ AcceptFails(x)
  \/ BrowserData(x) \/ Pump(x) \/ PoolDrain(x)
  \/ BrowserEnds(x) \/ BrowserError(x) \/ BrowserDrain(x)
  \/ \E write \in srv[x].writes : WriteDone(x, write)
  \/ IdleTimeout(x) \/ ServerReceives(x) \/ ServerCancelled(x)

ProxyStep(x) ==
  \/ ClientReceives(x) \/ ClientCancelled(x) \/ TargetDrain(x)
  \/ FlowTimeout(x) \/ CloseTimer(x) \/ TargetData(x) \/ LaneDrain(x)
  \/ TargetUpgrades(x) \/ UpgradeFails(x) \/ TargetAnswers(x)
  \/ Finish(x) \/ TargetEnds(x) \/ TargetError(x)

Next ==
  \/ \E x \in Streams : RouterStep(x) \/ ProxyStep(x)
  \/ ServerFails \/ ClientFails

(* Timers fire, a write to the browser completes or fails, what a live     *)
(* session carries arrives, and each end notices that the other has        *)
(* destroyed their lanes.  Neither browser nor target owes any progress.   *)
Fairness ==
  /\ \A x \in Streams :
       /\ WF_vars(IdleTimeout(x)) /\ WF_vars(CloseTimer(x)) /\ WF_vars(FlowTimeout(x))
       /\ WF_vars(\E write \in srv[x].writes : WriteDone(x, write))
       /\ WF_vars(ClientReceives(x)) /\ WF_vars(ClientCancelled(x))
       /\ WF_vars(Finish(x))
  /\ WF_vars(~serverUp /\ ClientFails) /\ WF_vars(~clientUp /\ ServerFails)

Spec == Init /\ [][Next]_vars /\ Fairness

-----------------------------------------------------------------------------
(* What the browser and the target are given is an initial part of what    *)
(* the other sent, frame by frame, however the WebSocket ends.             *)
FramesIntact ==
  \A x \in Streams : \A in \in {browser[x], target[x]} : in.seen = Upto(Len(in.seen))

(* While a WebSocket is open at both ends every frame read from the        *)
(* browser is at the target or on its way, piece by piece in order, and    *)
(* likewise the other way: no pump, pause or buffer loses or repeats one.  *)
(* (A Close that has been handed on ends its direction.)                   *)
Halved(part) == IF part = 0 THEN <<>> ELSE <<Piece(part, TRUE, FALSE)>>
DataOf(wire) ==
  FoldLeft(LAMBDA data, p : IF p.type = "DATA" THEN Append(data, p) ELSE data, <<>>, wire)
Arrived(script, in) == PiecesOf(script, in.seen) \o Halved(in.part)

NothingLost ==
  \A x \in Open \cap Linked : clientUp =>
    /\ ~target[x].closing =>
         Arrived(BrowserScript[x], target[x]) \o cli[x].early \o DataOf(toClient[x])
           \o Output(BrowserScript[x], srv[x])
         = PiecesOf(BrowserScript[x], Upto(srv[x].read))
    /\ (srv[x].upgraded \/ (toServer[x] # <<>> /\ Head(toServer[x]).type = "UPGRADE")) =>
         Arrived(TargetScript[x], browser[x]) \o DataOf(toServer[x])
           \o Output(TargetScript[x], cli[x])
         = PiecesOf(TargetScript[x], Upto(cli[x].read))

(* The router's pump never stops with work to do: what is in the buffer    *)
(* will be sent without new data of the browser ("frames already buffered  *)
(* in wsBuffer are never stranded").                                       *)
PumpRuns ==
  \A x \in Open : Output(BrowserScript[x], srv[x]) # <<>> => srv[x].pump # "idle"

(* An id, a place among the WebSockets, a handler, a transport stream and  *)
(* a timer live and die together, whichever way a WebSocket ends; without  *)
(* its timer a stream has a write pending whose callback ends it.  The     *)
(* exception is an upgrade whose opening frame could not be sent.          *)
SlotsMatch ==
  /\ \A k \in {"handlers", "transport"} : slots[k] = Open
  /\ \A k \in {"ids", "webSockets"} : slots[k] = Open \cup Stuck
  /\ slots["timers"] \subseteq Open
  /\ \A x \in Open \ slots["timers"] : srv[x].writes # {}

(* Every WebSocket ends at the router, at the latest with the idle timer.  *)
WebSocketsEnd == \A x \in Streams : srv[x].phase = "open" ~> srv[x].phase = "done"

(* The client's half leaves the proxy's map, with its socket, in the end.  *)
(* The one that may stay is stranded: after the target's Close its FIN was *)
(* not writable, and the drain that cleanup() waits for is never told,     *)
(* since FIN released the stream (proxy.js, waitForConnectionDrain;        *)
(* virtual-socket.js, write and onceDrainForStream).  It leaves, like any  *)
(* other, by the timer of the browser's Close, or when either end loses    *)
(* the session.                                                            *)
Stranded(x) == cli[x].phase = "stuck" /\ ~cli[x].timer /\ clientUp /\ serverUp

ClientHalvesEnd ==
  \A x \in Streams :
    /\ x \in InMap ~> (x \notin InMap \/ Stranded(x))
    /\ (x \in InMap /\ (cli[x].timer \/ ~clientUp \/ ~serverUp)) ~> x \notin InMap

(* Every path releases the stream (docs/http-server-fixes.md: any failure  *)
(* after allocateStream() runs cleanup, so the stream id can never leak).  *)
NoIdLeaks == slots["ids"] = Open

(* A lost session aborts every WebSocket in flight (handleSessionReset):   *)
(* afterwards no socket to the target is open.                             *)
NoOrphanSocket == ~clientUp => \A x \in Streams : tgt[x].sock # "open"
=============================================================================
