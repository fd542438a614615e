---------------------------- MODULE HttpExchange ----------------------------
(***************************************************************************)
(* Public HTTP requests through the tunnel: the router of                  *)
(* apps/server/lib/http-router.js, which answers the public client, and    *)
(* the proxy of apps/client/lib/proxy.js, which asks the target, joined by *)
(* one tunnel session at a time.                                           *)
(*                                                                         *)
(* The session is what SessionPair.tla promises: the ordered frames of a   *)
(* stream arrive in order or the session fails, and an ERROR overtakes     *)
(* them.  Either end may fail its session at any time (a lost lane, a flow *)
(* or gap timer, a full lane), the other end notices later, and the next   *)
(* session begins when both have.  A frame is its type; the client's       *)
(* HEADERS carry the status of the answer.                                 *)
(*                                                                         *)
(* A handler whose write makes the client fail its session finds its       *)
(* stream completed and does nothing more, so such a write is a write      *)
(* followed by ClientFails; at the server PublicData shows the difference. *)
(* A frame for a stream that is over at its receiver, or for an end that   *)
(* has failed, is dropped on arrival without effect (a duplicate, a frame  *)
(* of another session), here as soon as that is certain.                   *)
(* Malformed headers are not modelled: neither end sends any.              *)
(***************************************************************************)
EXTENDS Integers, Sequences, FiniteSets

CONSTANTS Streams,       \* stream ids, one for each public request
          MaxChunks,     \* per stream: chunks each side may send (a bound)
          MaxStreams,    \* maxConcurrentStreams, the same at both ends
          MaxSessions    \* sessions of the tunnel (a bound)

ASSUME HttpAssumption ==
  /\ MaxChunks \in [Streams -> Nat]
  /\ MaxStreams \in Nat \ {0} /\ MaxSessions \in Nat \ {0}

VARIABLES
  session,      \* sessions begun so far
  serverUp, clientUp,  \* the end has not failed the current session
  pub,          \* per stream: the public request and its response
  srv,          \* per stream: the router's handler
  slots,        \* streams of ClientSession.activeStreamIds, of the pool's
                \* activeStreams and of its transport, and armed stream timers
  held,         \* streams the router has paused, its response being full
  toClient, toServer,  \* per stream: ordered frames in flight
  errors,       \* ERROR frames in flight, as <<end, stream>>
  cli,          \* per stream: streamState of the proxy
  mux,          \* streams of the client's transport
  stopped,      \* streams the proxy has paused, its target being full
  tgt           \* per stream: the target's request and response

serverVars == <<serverUp, pub, srv, slots, held>>
clientVars == <<clientUp, cli, mux, stopped, tgt>>
wires == <<toClient, toServer, errors>>
vars == <<session, serverVars, clientVars, wires>>

TargetStatus == {"success", "failure"}      \* below 400, and 400 to 599
LocalStatus == {"gateway", "plain"}         \* the router's, sendPlainResponse's
Request == {"none", "flowing", "ended", "aborted"}
Response == {"none", "open", "ended", "destroyed"}
Slots == {"ids", "handlers", "transport", "timers"}

NewPublic == [req |-> "none", paused |-> FALSE, sent |-> 0,
              res |-> "none", status |-> "none", body |-> 0]
NewProxy == [phase |-> "none", requestEnded |-> FALSE, responding |-> FALSE,
             timer |-> FALSE, full |-> FALSE, paused |-> FALSE]
NewTarget == [req |-> "none", got |-> 0, res |-> "none", status |-> "none",
              sent |-> 0]

(* Longest body a public client is sent: the target's, or the one piece    *)
(* of an answer the proxy makes up.                                        *)
BodyBound(x) == IF MaxChunks[x] = 0 THEN 1 ELSE MaxChunks[x]

TypeOK ==
  /\ session \in 1 .. MaxSessions
  /\ serverUp \in BOOLEAN /\ clientUp \in BOOLEAN
  /\ pub \in [Streams -> [req : Request, paused : BOOLEAN, sent : Nat,
              res : Response, status : TargetStatus \cup LocalStatus \cup {"none"},
              body : Nat]]
  /\ \A x \in Streams : pub[x].body <= BodyBound(x)
  /\ srv \in [Streams -> {"idle", "open", "done"}]
  /\ slots \in [Slots -> SUBSET Streams]
  /\ held \subseteq Streams
  /\ toClient \in [Streams -> Seq({"HEADERS", "DATA", "FIN"})]
  /\ toServer \in [Streams -> Seq(TargetStatus \cup {"plain", "DATA", "FIN"})]
  /\ errors \subseteq {"client", "server"} \X Streams
  /\ cli \in [Streams -> [phase : {"none", "active", "done"}, requestEnded : BOOLEAN,
              responding : BOOLEAN, timer : BOOLEAN, full : BOOLEAN, paused : BOOLEAN]]
  /\ mux \subseteq Streams /\ stopped \subseteq Streams
  /\ tgt \in [Streams -> [req : {"none", "open", "ended", "destroyed"},
              got : Nat, res : {"none", "open", "ended"},
              status : TargetStatus \cup {"none"}, sent : Nat]]

Init ==
  /\ session = 1 /\ serverUp = TRUE /\ clientUp = TRUE
  /\ pub = [x \in Streams |-> NewPublic]
  /\ srv = [x \in Streams |-> "idle"]
  /\ slots = [k \in Slots |-> {}]
  /\ held = {}
  /\ toClient = [x \in Streams |-> <<>>] /\ toServer = [x \in Streams |-> <<>>]
  /\ errors = {}
  /\ cli = [x \in Streams |-> NewProxy]
  /\ mux = {} /\ stopped = {}
  /\ tgt = [x \in Streams |-> NewTarget]

-----------------------------------------------------------------------------
(* The router. *)

(* Mutant: an answer that has begun gets the router's text appended.       *)
FailResponseGrafting(p) ==
  IF p.res \in {"ended", "destroyed"} THEN p
                                      ELSE [p EXCEPT !.res = "ended", !.status = "gateway"]

(* An answer that has begun is cut off rather than continued with a text   *)
(* of the router's.                                                        *)
FailResponse(p) ==
  CASE p.res \in {"ended", "destroyed"} -> p
    [] p.res = "open" -> [p EXCEPT !.res = "destroyed"]
    [] p.res = "none" -> [p EXCEPT !.res = "ended", !.status = "gateway"]

(* What cleanup() gives back, and what a request takes.                    *)
(* Mutants: the id is never released; the timer is never armed.            *)
ReleasedButIds == Slots \ {"ids"}
Released == Slots
TakenUntimed == Slots \ {"timers"}
Taken == Slots

(* cleanup() of the streams S: the handler is spent and gives back all it  *)
(* holds; with a terminal, the tunnel client is told.                      *)
Without(wire, S) == [x \in Streams |-> IF x \in S THEN <<>> ELSE wire[x]]
ClientListens(x) == clientUp /\ cli[x].phase # "done"

Cleanup(S, terminal) ==
  /\ srv' = [x \in Streams |-> IF x \in S THEN "done" ELSE srv[x]]
  /\ slots' = [k \in Slots |-> IF k \in Released THEN slots[k] \ S ELSE slots[k]]
  /\ held' = held \ S
  /\ toServer' = Without(toServer, S)
  /\ errors' = (errors \ ({"server"} \X S)) \cup
       {<<"client", x>> : x \in {y \in S : terminal /\ ClientListens(y)}}

(* Mutant: the tunnel client is not told.                                  *)
AbortSilently(x, after) ==
  /\ Cleanup({x}, FALSE)
  /\ pub' = [pub EXCEPT ![x] = [FailResponse(@) EXCEPT !.paused = FALSE,
                                                      !.req = after]]
  /\ UNCHANGED <<session, serverUp, clientVars, toClient>>

(* Both halves of an abort: tell the tunnel client once, and tell the      *)
(* public client.  after says what becomes of the public request.          *)
Abort(x, after) ==
  /\ Cleanup({x}, TRUE)
  /\ pub' = [pub EXCEPT ![x] = [FailResponse(@) EXCEPT !.paused = FALSE,
                                                      !.req = after]]
  /\ UNCHANGED <<session, serverUp, clientVars, toClient>>

Send(x, frame) ==
  toClient' = IF ClientListens(x) THEN [toClient EXCEPT ![x] = Append(@, frame)]
                                  ELSE toClient

(* ConnectionPool._evictAll: every handler's errorHandler runs.            *)
Open == {x \in Streams : srv[x] = "open"}
AfterEviction ==
  [x \in Streams |-> IF x \in Open THEN [FailResponse(pub[x]) EXCEPT !.paused = FALSE]
                                   ELSE pub[x]]

ServerFails ==
  /\ serverUp
  /\ serverUp' = FALSE
  /\ Cleanup(Open, FALSE)
  /\ pub' = AfterEviction
  /\ UNCHANGED <<session, clientVars, toClient>>

(* A public request: refused without a stream when the tunnel is down or   *)
(* the table is full, else given an id and forwarded.  A write that is not *)
(* writable pauses the request until a lane drains.                        *)
Available == serverUp /\ Cardinality(slots["handlers"]) < MaxStreams

Refuse(x) ==
  /\ srv[x] = "idle" /\ ~Available
  /\ srv' = [srv EXCEPT ![x] = "done"]
  /\ pub' = [pub EXCEPT ![x] = [FailResponse(@) EXCEPT !.req = "flowing"]]
  /\ UNCHANGED <<session, serverUp, slots, held, clientVars, wires>>

Accept(x) ==
  /\ srv[x] = "idle" /\ Available
  /\ srv' = [srv EXCEPT ![x] = "open"]
  /\ slots' = [k \in Slots |-> IF k \in Taken THEN slots[k] \cup {x} ELSE slots[k]]
  /\ \E writable \in BOOLEAN :
       pub' = [pub EXCEPT ![x].req = "flowing", ![x].paused = ~writable]
  /\ Send(x, "HEADERS")
  /\ UNCHANGED <<session, serverUp, held, clientVars, toServer, errors>>

(* req.on('data').  The chunk may take the body past maxBodySize, which    *)
(* destroys the request.  Else the write may find the lanes writable,      *)
(* full, or fail the session from inside; then the handler, cleaned up     *)
(* meanwhile, still pauses the request, and nothing resumes it.            *)
PublicData(x) ==
  /\ srv[x] = "open" /\ pub[x].req = "flowing" /\ ~pub[x].paused
  /\ pub[x].sent < MaxChunks[x]
  /\ \/ Abort(x, "aborted")
     \/ /\ Send(x, "DATA")
        /\ UNCHANGED <<session, clientVars>>
        /\ \/ /\ \E writable \in BOOLEAN :
                   pub' = [pub EXCEPT ![x].sent = @ + 1, ![x].paused = ~writable]
              /\ UNCHANGED <<serverUp, srv, slots, held, toServer, errors>>
           \/ /\ serverUp' = FALSE
              /\ Cleanup(Open, FALSE)
              /\ pub' = [AfterEviction EXCEPT ![x].sent = @ + 1, ![x].paused = TRUE]

PublicEnd(x) ==
  /\ srv[x] = "open" /\ pub[x].req = "flowing" /\ ~pub[x].paused
  /\ pub' = [pub EXCEPT ![x].req = "ended"]
  /\ Send(x, "FIN")
  /\ UNCHANGED <<session, serverUp, srv, slots, held, clientVars, toServer, errors>>

RequestDrain(x) ==
  /\ pub[x].paused /\ x \in slots["transport"]
  /\ pub' = [pub EXCEPT ![x].paused = FALSE]
  /\ UNCHANGED <<session, serverUp, srv, slots, held, clientVars, wires>>

(* req.on('error') while the request is coming in, res.on('close') later:  *)
(* the public connection is gone either way.                               *)
PublicDisconnect(x) ==
  /\ srv[x] = "open"
  /\ Cleanup({x}, TRUE)
  /\ pub' = [pub EXCEPT ![x].res = "destroyed", ![x].paused = FALSE,
               ![x].req = IF @ = "flowing" THEN "aborted" ELSE @]
  /\ UNCHANGED <<session, serverUp, clientVars, toClient>>

(* Every frame of either direction restarts the timer; MaxChunks bounds    *)
(* how often, so it may fire at any time.                                  *)
StreamTimeout(x) == x \in slots["timers"] /\ Abort(x, pub[x].req)

(* The frame handler: HEADERS and DATA go to the response, a full response *)
(* pauses the stream, FIN ends both.                                       *)
ServerReceives(x) ==
  /\ toServer[x] # <<>> /\ x \in slots["handlers"] \ held
  /\ UNCHANGED <<session, serverUp, clientVars, toClient>>
  /\ LET frame == Head(toServer[x])
         taken == [toServer EXCEPT ![x] = Tail(@)]
     IN  \/ /\ frame = "FIN"
            /\ Cleanup({x}, FALSE)
            /\ pub' = [pub EXCEPT ![x].res = "ended", ![x].paused = FALSE]
         \/ /\ frame = "DATA"
            /\ pub' = [pub EXCEPT ![x].body = @ + 1]
            /\ held' \in {held, held \cup {x}}
            /\ toServer' = taken
            /\ UNCHANGED <<srv, slots, errors>>
         \/ /\ frame \notin {"DATA", "FIN"}
            /\ pub' = [pub EXCEPT ![x].res = "open", ![x].status = frame]
            /\ toServer' = taken
            /\ UNCHANGED <<srv, slots, held, errors>>

ResponseDrain(x) ==
  /\ x \in held
  /\ held' = held \ {x}
  /\ UNCHANGED <<session, serverUp, pub, srv, slots, clientVars, wires>>

(* An ERROR of the client: the stream is dropped, then the handler told.   *)
ServerCancelled(x) ==
  /\ <<"server", x>> \in errors /\ x \in slots["handlers"]
  /\ Cleanup({x}, FALSE)
  /\ pub' = [pub EXCEPT ![x] = [FailResponse(@) EXCEPT !.paused = FALSE]]
  /\ UNCHANGED <<session, serverUp, clientVars, toClient>>

-----------------------------------------------------------------------------
(* The proxy. *)

Active == {x \in Streams : cli[x].phase = "active"}

(* cleanup() of a streamState: out of activeStreams and of the transport.  *)
(* Nothing reads the rest of a completed one.                              *)
Completed == [NewProxy EXCEPT !.phase = "done"]

Finish(S) ==
  /\ cli' = [x \in Streams |-> IF x \in S THEN Completed ELSE cli[x]]
  /\ mux' = mux \ S
  /\ stopped' = stopped \ S
  /\ toClient' = Without(toClient, S)

ServerListens(x) == serverUp /\ srv[x] = "open"
Cancelling(x) == errors \ {<<"client", x>>}

(* Mutant: an aborted request is ended rather than destroyed.              *)
DestroyedByEnding == [NewTarget EXCEPT !.req = "ended"]
Destroyed == [NewTarget EXCEPT !.req = "destroyed"]

(* VirtualSocket._failSession, with the proxy's handleSessionReset.        *)
AbortAll ==
  /\ clientUp' = FALSE
  /\ cli' = [x \in Streams |-> IF x \in Active THEN Completed ELSE cli[x]]
  /\ mux' = {} /\ stopped' = {}
  /\ tgt' = [x \in Streams |-> IF x \in Active THEN Destroyed ELSE tgt[x]]
  /\ toClient' = Without(toClient, Streams)
  /\ errors' = errors \ ({"client"} \X Streams)

ClientFails ==
  /\ clientUp
  /\ AbortAll
  /\ UNCHANGED <<session, serverVars, toServer>>

(* Mutant: a write that is not writable is repeated.                       *)
ReplyTwice(x, frames) ==
  toServer' = IF ServerListens(x) THEN [toServer EXCEPT ![x] = @ \o frames \o frames]
                                  ELSE toServer

Reply(x, frames) ==
  toServer' = IF ServerListens(x) THEN [toServer EXCEPT ![x] = @ \o frames]
                                  ELSE toServer

(* An ordered frame for the proxy.  A stream that opens while the table is *)
(* full (the cancellation that made room being late) fails the session; a  *)
(* frame of a stream that is over is a duplicate.                          *)
ClientReceives(x) ==
  /\ clientUp /\ toClient[x] # <<>> /\ x \notin stopped
  /\ UNCHANGED <<session, serverVars, toServer>>
  /\ LET frame == Head(toClient[x])
         taken == [toClient EXCEPT ![x] = Tail(@)]
     IN  \/ /\ frame = "HEADERS" /\ Cardinality(mux) >= MaxStreams
            /\ AbortAll
         \/ /\ frame = "HEADERS" /\ Cardinality(mux) < MaxStreams
            /\ cli' = [cli EXCEPT ![x].phase = "active"]
            /\ mux' = mux \cup {x}
            /\ tgt' = [tgt EXCEPT ![x].req = "open"]
            /\ toClient' = taken
            /\ UNCHANGED <<clientUp, stopped, errors>>
         \/ /\ frame = "DATA"
            /\ tgt' = [tgt EXCEPT ![x].got = @ + 1]
            /\ \E full \in {cli[x].full, TRUE} :
                 /\ cli' = [cli EXCEPT ![x].full = full]
                 /\ stopped' = IF full /\ ~cli[x].full THEN stopped \cup {x} ELSE stopped
            /\ toClient' = taken
            /\ UNCHANGED <<clientUp, mux, errors>>
         \/ /\ frame = "FIN"
            /\ cli' = [cli EXCEPT ![x].requestEnded = TRUE,
                                  ![x].timer = ~cli[x].responding]
            /\ tgt' = [tgt EXCEPT ![x].req = "ended"]
            /\ toClient' = taken
            /\ UNCHANGED <<clientUp, mux, stopped, errors>>

(* An ERROR of the server ends the target's work.  On a lane that joined   *)
(* after the stream was opened it may come before the HEADERS, which fails *)
(* the session.                                                            *)
ClientCancelled(x) ==
  /\ clientUp /\ <<"client", x>> \in errors
  /\ UNCHANGED <<session, serverVars, toServer>>
  /\ \/ cli[x].phase = "none" /\ AbortAll
     \/ /\ cli[x].phase = "active"
        /\ Finish({x})
        /\ tgt' = [tgt EXCEPT ![x] = Destroyed]
        /\ errors' = Cancelling(x)
        /\ UNCHANGED clientUp

TargetDrain(x) ==
  /\ cli[x].phase = "active" /\ cli[x].full
  /\ cli' = [cli EXCEPT ![x].full = FALSE]
  /\ stopped' = stopped \ {x}
  /\ UNCHANGED <<session, serverVars, clientUp, mux, tgt, wires>>

(* The response callback; a lane that is not writable pauses the target.   *)
TargetResponds(x, status) ==
  /\ cli[x].phase = "active" /\ ~cli[x].responding
  /\ Reply(x, <<status>>)
  /\ \E writable \in BOOLEAN :
       cli' = [cli EXCEPT ![x].responding = TRUE, ![x].timer = FALSE,
                          ![x].paused = ~writable]
  /\ tgt' = [tgt EXCEPT ![x].res = "open", ![x].status = status]
  /\ UNCHANGED <<session, serverVars, clientUp, mux, stopped, toClient, errors>>

TargetData(x) ==
  /\ cli[x].phase = "active" /\ cli[x].responding /\ ~cli[x].paused
  /\ tgt[x].sent < MaxChunks[x]
  /\ Reply(x, <<"DATA">>)
  /\ \E writable \in BOOLEAN : cli' = [cli EXCEPT ![x].paused = ~writable]
  /\ tgt' = [tgt EXCEPT ![x].sent = @ + 1]
  /\ UNCHANGED <<session, serverVars, clientUp, mux, stopped, toClient, errors>>

LaneDrain(x) ==
  /\ cli[x].phase = "active" /\ cli[x].paused
  /\ cli' = [cli EXCEPT ![x].paused = FALSE]
  /\ UNCHANGED <<session, serverVars, clientUp, mux, stopped, tgt, wires>>

(* proxyRes 'end'.  TransportSession.prepare refuses the FIN of a success  *)
(* whose request is incomplete, and fails the session.                     *)
TargetEnds(x) ==
  /\ cli[x].phase = "active" /\ cli[x].responding /\ ~cli[x].paused
  /\ UNCHANGED <<session, serverVars>>
  /\ \/ /\ ~cli[x].requestEnded /\ tgt[x].status = "success"
        /\ AbortAll
        /\ UNCHANGED toServer
     \/ /\ cli[x].requestEnded \/ tgt[x].status = "failure"
        /\ Reply(x, <<"FIN">>)
        /\ Finish({x})
        /\ tgt' = [tgt EXCEPT ![x].res = "ended"]
        /\ errors' = Cancelling(x)
        /\ UNCHANGED clientUp

(* Mutant: the early close of an answer is reported as its end.            *)
ReportBreakAsEnd(x) == Reply(x, <<"FIN">>) /\ errors' = Cancelling(x)

ReportBreak(x) ==
  /\ errors' = Cancelling(x) \cup {<<"server", y>> : y \in {x} \cap Open}
  /\ UNCHANGED toServer

(* The request's 'error' before a response (a refused connection is        *)
(* answered in full, anything else with ERROR), the response's 'error' or  *)
(* early 'close' after it.                                                 *)
TargetBreaks(x) ==
  /\ cli[x].phase = "active"
  /\ \/ ReportBreak(x)
     \/ /\ ~cli[x].responding
        /\ Reply(x, <<"plain", "DATA", "FIN">>)
        /\ errors' = Cancelling(x)
  /\ Finish({x})
  /\ tgt' = [tgt EXCEPT ![x] = Destroyed]
  /\ UNCHANGED <<session, serverVars, clientUp>>

(* timeoutTarget: a complete answer of its own, the request destroyed.     *)
TargetTimeout(x) ==
  /\ cli[x].phase = "active" /\ cli[x].timer
  /\ Reply(x, <<"plain", "DATA", "FIN">>)
  /\ Finish({x})
  /\ tgt' = [tgt EXCEPT ![x] = Destroyed]
  /\ errors' = Cancelling(x)
  /\ UNCHANGED <<session, serverVars, clientUp>>

-----------------------------------------------------------------------------
(* Both ends have failed, so nothing of the old session is in flight.      *)
Reconnect ==
  /\ ~serverUp /\ ~clientUp /\ session < MaxSessions
  /\ session' = session + 1
  /\ serverUp' = TRUE /\ clientUp' = TRUE
  /\ UNCHANGED <<pub, srv, slots, held, cli, mux, stopped, tgt, wires>>

RouterStep(x) ==
  \/ Refuse(x) \/ Accept(x) \/ PublicData(x) \/ PublicEnd(x) \/ RequestDrain(x)
  \/ PublicDisconnect(x) \/ StreamTimeout(x) \/ ServerReceives(x)
  \/ ResponseDrain(x) \/ ServerCancelled(x)

ProxyStep(x) ==
  \/ ClientReceives(x) \/ ClientCancelled(x) \/ TargetDrain(x)
  \/ \E status \in TargetStatus : TargetResponds(x, status)
  \/ TargetData(x) \/ LaneDrain(x) \/ TargetEnds(x) \/ TargetBreaks(x)
  \/ TargetTimeout(x)

Next ==
  \/ \E x \in Streams : RouterStep(x) \/ ProxyStep(x)
  \/ ServerFails \/ ClientFails \/ Reconnect

(* What the runtime does by itself: an armed timer fires, what a live      *)
(* session carries arrives, and an end notices that the other has          *)
(* destroyed their lanes.  Neither the public client nor the target owes   *)
(* anybody progress, and no session need ever fail or begin.               *)
Fairness ==
  /\ \A x \in Streams :
       /\ WF_vars(StreamTimeout(x))
       /\ WF_vars(ClientCancelled(x)) /\ WF_vars(ServerCancelled(x))
       /\ WF_vars(TargetTimeout(x))
  /\ WF_vars(~serverUp /\ ClientFails) /\ WF_vars(~clientUp /\ ServerFails)

Spec == Init /\ [][Next]_vars /\ Fairness

-----------------------------------------------------------------------------
(* An answer of the target that looks complete to the public client is the *)
(* target's whole answer, whatever was lost, cancelled or timed out on the *)
(* way: a truncated one is cut off (failResponse, FIN only from 'end').    *)
ResponseIntegrity ==
  \A x \in Streams :
    pub[x].res = "ended" /\ pub[x].status \in TargetStatus =>
      /\ tgt[x].res = "ended" /\ pub[x].status = tgt[x].status
      /\ pub[x].body = tgt[x].sent

(* A request the target has seen to its end is the public client's whole   *)
(* request: an upload that was aborted, too large or cut by a session's    *)
(* end never looks complete (endRequest only at FIN, req.end nowhere else).*)
UploadIntegrity ==
  \A x \in Streams :
    tgt[x].req = "ended" => pub[x].req = "ended" /\ tgt[x].got = pub[x].sent

(* The stream slot, the pool's handler, the transport's stream and the     *)
(* timer of a request live and die together, whichever of the eight ways   *)
(* it ends: none leaks until the table is full.  Likewise at the client,   *)
(* where a stream the session dropped leaves no request behind.            *)
SlotsMatch ==
  /\ \A k \in Slots : slots[k] = Open
  /\ held \subseteq Open
  /\ mux = Active /\ stopped \subseteq Active

(* The public client gets one answer: what has ended stays as it is, and   *)
(* a status that went out is never changed or grafted upon.                *)
OneAnswer ==
  [][\A x \in Streams :
       /\ pub[x].res \in {"ended", "destroyed"} =>
            /\ pub'[x].res = pub[x].res /\ pub'[x].body = pub[x].body
       /\ pub[x].status # "none" => pub'[x].status = pub[x].status]_vars

(* Every request comes to an end at the router, and the work it started at *)
(* the target is ended too: the proxy has no timer of its own for an       *)
(* upload or an answer that stalls and relies on the router's ERROR or on  *)
(* the loss of the session.                                                *)
RequestsEnd == \A x \in Streams : srv[x] = "open" ~> srv[x] = "done"
TargetWorkEnds == \A x \in Streams : cli[x].phase = "active" ~> cli[x].phase = "done"
=============================================================================
