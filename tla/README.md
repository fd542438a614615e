# okproxy in TLA+

okproxy publishes HTTP and WebSocket services that run behind a client.  The
client opens several TLS connections (*lanes*, one or more per network
interface) to a server; the server's public side turns each request into a
*stream* of frames and sends it to the client over one lane or over all of
them; the client's proxy performs the request locally and answers on the same
stream.  The specifications in this directory model that tunnel: how lanes
become one session, how a session turns unordered, repeated and lost frames
into ordered streams, and what each end may rely on.

## The system and its parts

| Part | Source | State it keeps | Operations | Interacts with |
| --- | --- | --- | --- | --- |
| Reorder window | `packages/frame-protocol/ordered-window.js` | next number, buffer, gap timer | accept, takeNext, dispose | owned by a stream of the transport session |
| Transport session | `packages/frame-protocol/transport-session.js` | streams, tombstones, byte counters, pause owners, timers | open, receive, prepare, pause/resume, drop, fail | called by both owners below; calls `deliver`, `fatal`, `retire` |
| Virtual socket | `apps/client/lib/virtual-socket.js` | lanes by name, both session nonces, stream modes | write, lane frame/loss/retirement, session accept and failure | RealSockets (events), proxy (frames, `sessionReset`) |
| Real socket | `apps/client/lib/real-socket.js` | one TLS socket, handshake state, timers | connect, INIT, close, reconnect, destroy | server's TLS handler |
| TLS server | `apps/server/lib/tls-server.js` | sockets per certificate, per-socket handshake | INIT, frame routing, close, eviction | connection pool, multi-client manager |
| Connection pool | `apps/server/lib/connection-pool.js` | lanes, session nonce, bound client nonce, handlers | add, remove, send, register/unregister, evict | transport session, HTTP router |
| Local proxy | `apps/client/lib/proxy.js` | HTTP streams and WebSockets in progress | start request, forward, finish, cancel, reset | virtual socket, target service |
| HTTP router | `apps/server/lib/http-router.js` | public requests and sockets in progress | dispatch, forward, finish, cancel, time out | pool, multi-client manager, TLS server |
| Multi-client manager | `apps/server/lib/multi-client-manager.js` | sessions by serial, routes by domain, issued domains | register lane, remove lane, evict, reload | TLS server, router, CA files |
| Certificate authority | `apps/server/lib/ca.js`, `apps/server/bin/tunnel-ca.js` | serial counter, metadata, CRL and its cache | issue, revoke, check | files, revocation watch |
| Interface detector, watchdog | `apps/client/lib/interface-detector.js`, `network-watchdog.js` | known interfaces, failures, run number | poll, probe, stop | virtual socket |
| macOS application and helper | `macos-client/Sources` | child processes, run records, install phase, log | spawn, stop, reclaim, install, log | the Node client as a child |
| Deployment | `scripts/deploy` | release directories, trust pointer | promote, roll back | systemd, CA files |

`PROJECT.json` lists every component with its status, and every hazard with the
line where it bites.  The hard parts are these.

* **Reordering and re-entrancy.**  A frame may reach the consumer from the
  network, from the window or from the queue of a paused stream, and the
  consumer may pause, resume, drop or fail from inside the call.
* **Partial knowledge of a lane's death.**  `destroy()` and the `close` event
  are different moments, and differ again at the other end.
* **All-or-nothing recovery.**  There is no acknowledgement and no replay:
  losing an established lane fails the session at both ends, and the tunnel must
  come back without mixing old and new frames.
* **Limits.**  Streams, identifiers, bytes, frames and sequence numbers are all
  bounded and fail the session when exceeded.

What makes each component correct:

* *Reorder window, transport session*: streams are handed over gap-free and
  once, closed streams stay closed, memory is accounted for, nothing waits for
  ever.
* *Both sessions together*: what one end takes is a prefix of what the other
  sent; no success before the request is complete; no end finds fault with the
  other, except a client that a frame reaches before the opening of its stream.
* *Lanes and sessions*: frames never cross sessions, and after the last fault
  all lanes are in one session again.
* *Proxy and router*: one answer per request; nothing truncated looks complete,
  neither an answer nor an upload; WebSocket frames arrive whole and in order;
  every resource of a stream released when it ends, whatever ends it; work at
  the target ends when the public side has gone.
* *Routing*: one active client per domain, an evicted session reachable by no
  route, no lane joins or stays with a revoked certificate.
* *Certificates*: serial numbers are unique, certificates in force do not share
  domains unasked, a revoked domain is free, wherever a command has stopped.
* *macOS and deployment* (planned): one complete installation after any crash,
  no child left behind, no release without its trust material.

## Modules

`OrderedWindow` holds the pure part of one reorder window.  `TransportSession`
extends it with one endpoint of a session.  `OrderedDelivery` is the abstract
promise the endpoint implements (`OrderedDeliverySpec` instantiates it with a
refinement mapping).  `SessionPair` composes two instances of
`TransportSession`, a client's and a server's.  `TunnelSession` is the layer
below: lanes, handshakes, closes and nonces.  `HttpExchange` and
`WebSocketTunnel` are the layer above: router and proxy, joined by streams that
keep the promise of `SessionPair` and by sessions that may fail at either end.
`ClientRouting` is beside it, the server's choice of a session for a domain, and
`CertificateAuthority` the files that routing and handshakes trust.  `MC*`
modules add what only TLC needs.  The modules named `*Proofs` hold the theorems,
one or two for each component; `SessionPair` instantiates `TransportRefinementProofs`,
which is `TransportSession` with its theorems, so that they can be cited of each end.
Definitions whose comment begins with *Mutant* are wrong on purpose: each
replaces the definition after it to show that a property notices the mistake;
nothing else uses them.

### OrderedWindow and TransportSession

| Code | Model |
| --- | --- |
| `OrderedDedupWindow` fields | record `Window`; the buffer maps sequence numbers to frame types |
| `accept`, its four results | `OutOfBounds`, `IsDuplicate`, `IsNext`, `IsAhead` and `Overflows`; effects `Advance`, `Keep` |
| `takeNext` | `CanTake`, `Take` |
| stream state object | record `Stream`; `drains` is left out |
| `streams`, `known`, `bytes`, `globalPaused`, `failed` | variables of the same names, `failure` keeps the reason |
| `receive` | `ReceiveOpening`, `ReceiveNext`, `ReceiveAhead`, `ReceiveCancellation`, `ReceiveFatal` |
| `deliverOrQueue` + `dispatch` | `DeliverOrQueue`, `DeliverOrQueueFails` |
| loops of `receive` and `resume` | `DrainWindow`, `DrainQueue`, `DrainEnd` |
| `prepare`, with `VirtualSocket.write` / `ConnectionPool.send` around it | `SendOrdered`, `SendCancellation`, `SendFails` |
| `open` by `registerStream`, `drop`, `pause`, `resume`, `pauseAll`, `resumeAll` | `Open`, `Drop`, `Pause`, `Resume`, `PauseAll`, `ResumeAll` |
| `fail`, `fatal`, `clear` | `Fail`: the owner clears the session before the call returns |
| timers | `GapTimeout`, `FlowTimeout` |

JavaScript runs one handler to its end, but a handler calls the consumer once
per frame and the consumer calls back.  One iteration of a loop is therefore
one step; `draining` names the streams whose loop is in progress, no frame
arrives and no timer fires until it is empty, and `calling` says whether the
consumer is inside a call and so able to call back.  This is what exposes a
pause, a drop or a failure in the middle of a loop.

Abstractions: a payload is its type, and a frame costs one unit of memory (the
code charges payload length plus 13 bytes), so the window's own byte counter,
which never exceeds its stream's, is left out.  Whether a response's status is an
error is a Boolean input.  The environment of a single endpoint may present any
frame at any time.  `delivered`, `sent` and `cancelled` are history variables;
no guard of the endpoint reads them.  `ResumeAll` ends the pause of all streams in one
step; the code goes on to the next stream when the deliveries of the last have ended.
In the model the loops of all resumed streams are in `draining` and run in any order,
so that a consumer called for one stream finds the others resumed, where in the code
some may be paused still.

### SessionPair

Each end receives what the other has sent, in any order, any number of times or
never: lanes are ordered by themselves but not against each other, a broadcast
stream is written to all of them, a late lane lacks a prefix, and a lost lane
swallows a suffix.  The client sends on a stream only after its consumer took the
opening frame, because `proxy.js` creates its work there.  Frames of other
sessions cannot arrive; that is what `TunnelSession` establishes (`Isolation`).

`receive` has five reasons that blame the peer.  Four of them (`Breaches`) no order of
honest frames can cause, at either end.  The fifth, `unallocated-frame-before-headers`,
a frame of the server that overtakes the opening of its stream does cause at the
client: `docs/transport-fixes.md:22-27` and `:61` describe this request-opening race
and accept it.  `BlamedOnlyInRace` says that it has no other cause: the client's
consumer had taken nothing on some stream on which the server had said more than the
opening, so that duplicates, late frames and cancellations of streams that were open,
finished or dropped since are not mistaken for it.

### TunnelSession

A lane is a named slot of the client.  A connection is one TLS socket seen from
both ends; each end has a status that separates `destroy()` from the close
event.  Nonces are compared as in the code; *epochs*, which the code does not
have, say which session an end is really in.  Every message carries the epochs of
its sender, so that `Isolation` can say that no transport is given a frame of a
session it is not paired with.

| Code | Model |
| --- | --- |
| `RealSocket._connect`, `secureConnect`, close, reconnect | `Connect`, `SecureConnect`, `ClientClose` (frees the slot) |
| `VirtualSocket._acceptSession`, `_failSession`, `_onFrame`, `write`, `_removeRealSocket` | `ReceiveAck`, `FailSession`, `ClientReceive`, `ClientSend`, `RetireLane` |
| TLS server INIT, routing, close, error, timers | `ReceiveInit`, `ServerReceive`, `ServerClose`, `ServerBreak` |
| `ConnectionPool.add`, `owns`, `send`, `remove`, `_evictAll` | `Admits`, `Owns`, `ServerSend`, `ServerClose`, `EvictAll` |
| keepalive, watchdog, INIT and connection timers, socket errors, network change | the faults `ClientBreak` and `ServerBreak`, at any moment |
| transport failure, revocation | the faults `ClientTransportFails`, `Evict` (with or without the serial's sockets that still await INIT, `PendingDestroyed`) |

### HttpExchange

One record per public request at each of its four places: the public client
(`pub`), the router's closure (`srv`, `slots`, `held`), the proxy's `streamState`
(`cli`, `mux`, `stopped`) and the target (`tgt`).  Between router and proxy are two
ordered queues per stream and a set of ERROR frames, which overtake the queues as
cancellations do in the transport session.

| Code | Model |
| --- | --- |
| request listener: lookup, limit, id, HEADERS | `Available`, `Refuse`, `Accept` |
| request `data`, `end`, `error`; response `close` | `PublicData` (also 413, and a write that fails the session), `PublicEnd`, `PublicDisconnect` |
| `cleanup`, `sendTerminal`, `failResponse` | `Cleanup`, `Abort`, `FailResponse` |
| stream timer, drain callbacks | `StreamTimeout`, `RequestDrain`, `ResponseDrain` |
| frame handler, error handler, eviction | `ServerReceives`, `ServerCancelled`, `ServerFails` |
| `handleFrame`, `streamState` methods | `ClientReceives`, `ClientCancelled`, `TargetDrain`, `Finish` |
| response callback and listeners | `TargetResponds`, `TargetData`, `LaneDrain`, `TargetEnds`, `ReportBreak`, `TargetBreaks` |
| `timeoutTarget` | `TargetTimeout` |
| `handleSessionReset` | `AbortAll`, `ClientFails` |

`slots` holds four registrations that the code keeps in four places: the id, the
pool's handler, the transport's stream and the timer.

Two things the model shows that no property forbids.  When the write of a chunk
fails the session, the handler, already cleaned up, pauses the public request and
nothing resumes it (`PublicData`); the answer is out, so only the rest of the upload
stays unread.  When the target answers an error before the upload is complete, the
proxy drops its stream at the end of the answer and leaves the target's request
neither ended nor destroyed (`TargetEnds`); the target sees no more of it.

### WebSocketTunnel

A frame is a number of the sender's script, of one piece, of two (a frame beyond
the frame limit, which both ends cut up) or a Close.  What is `wsBuffer` and
`pendingLargeFrame` with its offset in the code is `buffer` and `rest` here; one
operator, `Output`, says what is still to be sent, and `Sent` what is left when a
full lane stops the pump after k pieces.  `Reassemble` puts pieces together
again; a frame made of the wrong pieces is number 0, which `FramesIntact` excludes.

| Code | Model |
| --- | --- |
| `handleUpgrade` up to the first frame, its `catch` | `Refuse`, `Accept`, `AcceptFails` |
| `appendBrowserData`, `pumpBrowserFrames`, drain callback | `BrowserData`, `Pump`, `PoolDrain` |
| frame handler, error handler, eviction | `ServerReceives`, `ServerCancelled`, `ServerFails` |
| write callbacks, idle timer, socket events | `WriteDone`, `IdleTimeout`, `BrowserEnds`, `BrowserError`, `BrowserDrain` |
| `startWebSocketProxy`, `handleWebSocketFrame` | `ClientReceives`, `Deliver`, `ClientCancelled`, `CloseTimer`, `TargetDrain` |
| `upgrade` listener, `processTargetData`, `sendLargeFrameChunk`, `setImmediate` | `TargetUpgrades`, `Processed`, `LaneDrain`, `Finish` |
| `cleanup` of a wsState | `QuitWithFin`, `Quit`, `QuitUnanswered` |
| request error and timeout, socket close and error | `UpgradeFails`, `TargetEnds`, `TargetError` |

Observations, in the code as in the model:

* A browser that leaves while its upgrade is pending makes the proxy write FIN
  before any UPGRADE; `TransportSession.prepare` refuses that order and fails the
  session, with every other stream of it (`QuitUnanswered`).
* When the FIN after the target's Close is not writable, the stream is dropped by
  that very write, so the drain that was to call `cleanup` never comes
  (`virtual-socket.js:193`, `:265`), and the map entry and the socket stay (phase
  *stuck*).  `ClientHalvesEnd` says that no other half stays (`Stranded`), and that
  this one goes when the browser's Close had started its timer, or either end loses the
  session; an error of the socket ends it too.
* Any upgrade may be refused (`Refuse`): the limit on open streams is shared with HTTP
  requests, which this module leaves out, and allocating the id may fail.
* Frames the proxy has buffered behind a large one are looked at only when the
  target sends more (`LaneDrain`); the router's pump has no such gap (`PumpRuns`).
* A target that answers an upgrade with anything but 101 leaves the browser to the
  idle timer of 300 s (`TargetAnswers`).
* The idle timer's Close ends the WebSocket in the write's callback, which a stalled
  browser delays until its socket fails.

### ClientRouting

A session is a number; the maps, routes and sockets refer to it by that number, as
the code's references outlive the maps.  `Admit` and `Refuse` are
`addTunnelConnection`, `Close` is `removeTunnelConnection`, `EvictSessions` is
`_evictSession` for the sessions matched, `EvictSerial` the TLS server's own
eviction, `RevokeInside` the `certificate-revoked` event and `Watch` the polling of
the list.  The body of a session is a set of lanes, cleared as a whole.

Observation: a pool that clears itself (a failed transport, a full lane) stays in
`sessionsBySerial` and in the routes, because no later close event finds a lane
to remove.  A client that returns revives the session and with it routes it has not
asked for this time.  They are still within its certificate (`NoGhosts`), and
another certificate may take them over (`Yields`).

### CertificateAuthority

One action is one file operation, since commands are processes and any may stop
between two.  `writeJsonFile` replaces a file by rename, one step; the counter is
written in place, so `Truncate` and `Advance` are apart.  A process's local copy of
the metadata is `copy`, which is what makes a stale save possible.

Observations: with two issuing processes at once `UniqueSerials` fails
(`getNextSerial` reads and writes without a lock); the runs and theorems have one.  A
stop between truncation and write leaves a counter that holds no number, after which
openssl refuses every certificate until the file is repaired by hand; no serial is
given twice.  A stop after signing leaves a certificate no metadata knows, whose
domain may be issued again.  A revocation may lose the entry an issue has just
saved, by saving what it loaded before; `OneValid` holds all the same.

## Runs

| Run | Instance | Question |
| --- | --- | --- |
| `transport_streams` | 3 ids, 2 streams, 2 tombstones, 4 numbers, 1 frame, 2 units; inbound half | memory, timers, closed streams |
| `transport_server` | 2 ids, 1 stream, 2 tombstones, 2 numbers, 1 frame, 1 unit; the end that allocates | allocation, reuse of identifiers |
| `transport_window` | 1 id, 5 numbers, 2 frames, gap 2, 3 units; both halves, fair | order, stranding, refinement, held frames resolve |
| `session_pair` | 1 id, 3 numbers, 1 frame, gap 1, 2 units at each end | end to end order, early success, who is blamed and when |
| `tunnel_recovery` | 2 lanes, 3 connections, 1 fault, 1 message in flight, fair | isolation of sessions, recovery |
| `http_exchange` | 2 requests for 1 slot, one with a body of 1 chunk each way, 2 sessions, fair | truncation, one answer, leaks, both ends end |
| `websocket` | 1 talkative WebSocket, 1 waiting for its place, fair | frames, pumps, leaks, both ends end |
| `client_routing` | 2 certificates overlapping in a domain, 2 connections, 3 sessions, fair | grants, ghosts, revocation |
| `certificate_authority` | 1 issuer, 1 revoker, the server, 1 domain, 2 serials | serials, overlap, freed domains |
| `upgrade_leak`, `orphan_socket` | as `websocket` | find the two divergences below |

Why the bounds are enough to be interesting.  In `transport_streams` three
identifiers meet a limit of two, and two units of memory are shared by windows
and queues of two streams, so every limit is reached while another stream is
half way.  In `transport_server` two identifiers compete for one stream, so
registering and sending can both meet the limit or a tombstone.  In `transport_window` the gap limit, the frame limit and the last
sequence number are all reached, two frames can wait in the window while others
wait in the queue, and a stream can be paused by both owners.  In `session_pair`
three numbers are a start frame, a body frame and FIN, all of which can overtake
one another.  In `tunnel_recovery` the third connection is what lets a lane of a
new session exist while one of the old session is not closed yet; faults include
a session failure that takes all lanes, so one fault already sets off the whole
cascade at both ends.  The safety properties were also checked once with two
faults and two messages in flight (5.4 million states, not part of the runs because
of its length).  Connection identities are reused once both ends have closed, so the
number of reconnections is not bounded.  In `http_exchange` two requests meet a
table of one stream, so that the second may be refused, or may reach a proxy that has
not heard of the first one's end; one chunk is enough to tell a whole body from a
truncated one, and a second session is what late work of the first could reach.  In
`websocket` the browser sends a large frame and Close, the target a small one, a
large one and Close, so a full lane may stop either end inside a frame, behind it and
before the Close, with data arriving before the answer to the upgrade.  In
`client_routing` the shared domain is what certificates contend for, and three sessions
let one be made, evicted and replaced while sockets of it are still closing.  In
`certificate_authority` two serials are the fewest that can collide or overlap, and the
counter's bound stops a run there.

Deadlock is not checked: a failed session, a tunnel without faults left and with
nothing in flight, requests that have all ended, and an authority at the bound of its
serials may rest.

### Fairness

In `TransportSession`: a delivery loop runs to its end before anything else
(JavaScript's run to completion), and an armed timer fires.  Nothing else is
fair; the network, the peer and the consumer may be silent for ever, so
`HeldFramesResolve` rests on the timers.  In `TunnelSession`: the TLS handshake
completes or fails, what TCP carries arrives or the connection closes, a close
reaches the other end (FIN, RST or keepalive), `destroy()` is followed by its
event, and the reconnect timer fires.  Traffic and faults are not fair.
In `HttpExchange` and `WebSocketTunnel`: an armed timer fires, what a live session
carries arrives (cancellations in `HttpExchange`, all frames in `WebSocketTunnel`),
an end notices that the other has failed the session, a turn of the event loop that
was asked for comes, and a write to the browser completes or fails.  Neither the
public client, the target nor a new session is owed.  The timers of a stream are
restarted by each frame; the bounded bodies and scripts stand for peers that fall
silent in the end, and a peer that never does keeps its stream by design.  In
`ClientRouting` only the revocation watch, an interval timer, is fair.

## Divergences between documentation and code

`docs/http-server-fixes.md:120-122` says that any failure of an upgrade after its id
was allocated runs `cleanup()`, "so the stream id (and idle timer) can never leak".
When sending the opening frame throws, the variables `cleanup()` reads have not been
declared yet (`http-router.js:742`), so `cleanup()` throws as well: the id and the place
among the WebSockets are kept for the life of the client session, which survives the
pool's failure when the client returns.  `upgrade_leak` shows it; `SlotsMatch` holds
for every other way an upgrade can end.

`proxy.js:213` says that a session's loss aborts every WebSocket in flight.  One whose
upgrade is pending is only forgotten: its request goes on, and the `upgrade` listener
takes the socket of a late answer without looking whether it is still wanted.
`orphan_socket` shows it.

## Proofs

Everything here is proved for all values of the constants, under the assumptions
`WindowAssumption` (limits are positive), `SessionAssumption` (identifiers are a
finite set, limits are positive), `PairAssumption` (the same of both ends),
`TunnelAssumption` (there is a lane, `None` is neither a connection nor a number),
`HttpAssumption` (bodies have a length, limits are positive), `WebSocketAssumption`
(ids are numbers, nobody sends behind Close, the limit is positive),
`RoutingAssumption` (there is a certificate, and each names domains) and
`AuthorityAssumption` (the commands that issue are not those that revoke).

* `TransportSessionProofs!TypeCorrect`: `TypeOK` is inductive by itself.  Lemmas
  say that each operator on windows and streams keeps its domain; one lemma per
  group of actions follows.
* `TransportSessionProofs`, its second part: `NothingSkipped`, `TimersMatch`,
  `NoStrandedFrame` and `ClosedForGood`.  None is inductive alone.  `receive()` hands the next frame
  straight to the consumer of an unpaused stream, so order needs that its queue is
  empty, which is `NoStrandedFrame`; that needs that a resume which frees a queue
  enters the stream in `draining`; an opening stream starts at 1, so nothing may
  have been delivered on it before (`Allocation`); and failed sessions and closed
  streams must be blank for timers to be fenced.  `OrderInv` is the conjunction.
  `InHand` describes the state between taking a frame out and handing it over, so
  that one lemma (`DeliverOrder`) serves the four places that deliver.
  `ClosedForGood` is an action property: a case analysis over `Next` under
  `OrderInv`.
* `TransportSessionProofs!RetainedExactlyCorrect`: `RetainedExactly` is inductive
  given `OrderInv`, which keeps the frames of a stream's queue and window apart, so
  that each is counted once.  The session's counter is the cardinality of a set of
  pairs of stream and number (`UnitsOf`), and a step adds, removes or moves pairs
  of one stream (`ReplaceSame`, `ReplaceAdd`, `ReplaceRemove`, `ReplaceBlank`).
* `TransportRefinementProofs!ImplementsOrderedDelivery`: `Spec` implies
  `OrderedDeliverySpec`.  The abstract state is a function of the concrete one, but
  what a stream began with is known to the code only as `openType` and to the
  abstraction as the log; `BegunInv` ties the two, and `ended` to a final FIN.
  Every step is then one of five kinds: one that leaves streams and logs alone, an
  opening, a delivery, a closing, or an abort.
* `SessionPairProofs`: `EndToEndCorrect`, `NoEarlySuccessCorrect` and
  `BlamedOnlyInRaceCorrect`.  What one end can do to the other depends on what it
  says, so the second part of `TransportRefinementProofs` proves of one end, with any
  peer, that its output keeps a shape (`EndInv`: one opening frame, first; nothing
  after FIN; what the stream object remembers is what was sent), and that a step given
  frames of such a peer takes and says only what it may (`HonestStep` and its
  neighbours).  `PairInv` then adds what ties the two ends together: everything an end
  has taken, queued or buffered was said by the other under that number (`Genuine`); a
  response that has ended answers a request that was taken whole, or is an error or an
  upgrade (`Justified`, kept by `prepare`, which refuses any other FIN); and
  `BlamedOnlyInRace` itself.  For the last, a frame on which the client gives up is of a
  stream it never knew, so nothing was taken there (`RaceReceive`), and by the shape of
  the server's output it is not the only frame of its stream unless it is a
  cancellation (`OvertakenNow`); afterwards the client takes nothing more
  (`OvertakenForGood`), and what the server said stays said (`OvertakenStays`).
  `EndToEnd` follows from `Genuine` and `NothingSkipped`,
  `NoEarlySuccess` from `Genuine` and `Justified`.  `EndsAreSessions` says that each end
  of the pair behaves as `TransportSession` does, so the theorems above hold of both.
* `TunnelSessionProofs`: `TunnelTypeCorrect` and `IsolationCorrect`.  `Isolation`
  says nothing of connections, so `TunnelInv` adds why nonces are enough: every
  connection carries, after the INIT and its ACK, frames of one pairing only, that of the
  client session which said hello on it with the server session it was bound to
  (`LaneInv`); a socket that is still open is in its slot, so that failing the
  session reaches it (`SlotsInv`); the members of a pool are bound to its present
  nonce and said hello with its present client's (`MembersInv`).  `SlotStep` and
  `MemberStep` say what a step may do to one connection without disturbing the
  last two, and each action is shown to do no more, or to clear the slot or the
  pool.
* `HttpExchangeProofs`: `HttpTypes`, `SlotsReleased`, `UploadsWhole`, `AnswersWhole` and
  `OneAnswerCorrect`.  `UploadIntegrity` and `ResponseIntegrity` speak of what has
  ended, and need what was true all the way: `HttpInv` says of every stream that the
  chunks the router read are those the target got and those in flight (`Upload`), that
  the chunks the target sent are those the public client has and those in flight
  (`Answer`), that a wire holds at most one head and one last frame, in their places
  (`Continues`), and that a last frame in flight means the rest is whole.  `Ends` keeps
  the two halves of a stream in step: what the proxy has dropped is never carried
  again, and what the router has closed is neither answered nor sent on.  Cleanups,
  timeouts and failed sessions then only forget, which no equation minds.
  `OneAnswer` is an action property under `HttpInv`.
* `WebSocketTunnelProofs`: `TunnelTypes`, `PlacesReleased`, `PumpNeverIdle`,
  `FramesStayIntact` and `NothingIsLost`, for scripts of any length.  A script of n
  frames has 2n + 1 *places*, and a piece leads from one to the next (`Moves`), so that
  pieces are a path (`Path`) and pieces between the same two places are the same
  (`SamePath`).  `TunnelInv` says that what a receiver has put together is a place
  (`Reached`), that what a sender has read and not sent begins at a place (`Held`), and
  that the wire, with the frames that came before the upgrade was answered, is a path
  from the one to the other (`Down`, `Up`), as long as the receiver listens.  Reading
  more, sending k pieces, stopping behind half a frame and resuming each move a place
  along the same path.  Around this: UPGRADE is first and only once (`DownWire`,
  `UpWire`), nothing comes from a target that has not answered (`Unanswered`), and a
  stream that was not begun is untouched (`Idle`).  The sequences of the model are folds
  and concatenations of sequences; what they are for every input is proved by
  induction over sets of naturals (`Induct`, from the well-foundedness of `<`), since a
  set, unlike a predicate, can be instantiated.

* `ClientRoutingProofs`: `RoutingTypes`, `DomainsExclusive`, `SessionsLeaveNothing`
  and `RevokedNeverJoin`, for any number of certificates, connections and sessions.
  `GrantsHonoured` is about what a lane was granted, and is kept by `LaneInv`: a
  lane's connection names its session, is open or dying, and every domain it was
  granted is routed to that session.  Admission moves the route of a domain only from
  its own session or from one without lanes, so nobody's grant is lost.  Eviction
  removes routes by the session's own set of domains, which is why `NoGhosts` has to
  say that a route leads to a session that has the domain; `SerialInv` (a serial leads
  to a session of its own) makes the session found the one that was evicted.
  `NoRevokedJoin` is an action property: only the INIT handler makes a lane, it looks
  at the list again, and every other step leaves lanes or removes them.
* `CertificateAuthorityProofs`: `AuthorityTypes`, `SerialsUnique`,
  `ValidCertificatesApart` and `DomainsFreed`, each under `OneIssuer` (at most one
  issuing process), for any number of revoking ones.  `SerialInv`: the counter, or the
  number just read from it, exceeds every serial signed.  `RecordInv`: every entry, in the
  file or in a copy some process may still save, is of a signed certificate, and the
  index names only such.  `OverlapInv`: the certificates in force are apart in the
  file and in every copy, and what an issuing process has checked stays true until it
  saves, because the list of revocations only grows and nobody else adds entries.

Every safety property of a passing run, the refinement of `OrderedDelivery` among them,
is stated by a theorem.  Only model-checked is liveness (`HeldFramesResolve`, `Recovers`,
`RequestsEnd`, `TargetWorkEnds`, `WebSocketsEnd`, `ClientHalvesEnd`, `RevokedLeave`),
which rests on fairness and is outside the prover's reach, and what the runs that find
divergences check, which is false.

## Not modelled, and the plan

1. *Theorems.*  What an end of `HttpExchange` or `WebSocketTunnel` writes to a stream
   keeps to the order that `TransportSession.prepare` asks for, which is what lets those
   two modules take the session's promise for granted; that the places among the
   WebSockets and the streams never exceed their limits, as invariants of their own.
2. *Environment of the client.*  `InterfaceDetector` with late probe results; stream
   pinning, weighted lane choice and interface synchronisation in `TunnelSession`.
3. *Routing and files.*  The cache of the revocation list against file times, and an
   index that cannot be read; two issuing processes, should the counter get a lock.
4. *Functions.*  `DedupWindow` modulo 2^w against unbounded arithmetic; the frame
   decoder and the WebSocket frame parser against reference parsers on short inputs.
5. *macOS and deployment.*  `ProcessSupervisor`, `NodeInstall` (crash points of the
   phase file), `LogStore`, and the server release transaction.

In the modelled parts these are left out.  Malformed headers and payloads, since neither
end of the tunnel sends any.  The domain probe of the web server, which keeps no
state.  The choice between one lane and all of them, which is below the streams'
promise.  `destroy()` of the proxy at shutdown, after which there is nothing to be
right.

Out of scope: argument parsing and wiring (`index.js` of both applications), the
user interface, package installation, and the contents of headers.
