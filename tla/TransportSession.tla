-------------------------- MODULE TransportSession --------------------------
(***************************************************************************)
(* One endpoint of a protocol-v2 session: class TransportSession of        *)
(* packages/frame-protocol/transport-session.js, with the way its two      *)
(* owners call it (VirtualSocket.write on the client, ConnectionPool.send  *)
(* and registerStream on the server).                                      *)
(*                                                                         *)
(* The peer and the network are an environment that may present any frame  *)
(* at any time, any number of times: lanes reorder frames against each     *)
(* other, a broadcast stream arrives once per lane, and a lane that joins  *)
(* late carries only a suffix.  SessionPair.tla replaces it by a peer.     *)
(*                                                                         *)
(* JavaScript runs one handler at a time.  The loops of receive() and      *)
(* resume() call the consumer once per frame and the consumer may call the *)
(* session back (pause, resume, drop, send), so one iteration of a loop is *)
(* one step, "draining" holds the streams whose loop is in progress, and   *)
(* "calling" tells that the consumer is being called: no frame arrives and *)
(* no timer fires before the loop has ended, and in a loop only a consumer *)
(* that is being called can call back.                                     *)
(***************************************************************************)
EXTENDS OrderedWindow, Sequences

CONSTANTS Ids,             \* stream identifiers this session meets
          Initiator,       \* TRUE on the server, which allocates identifiers
          MaxStreams,      \* open streams                       (100)
          MaxIds,          \* identifiers in one session         (65536)
          MaxStreamBytes,  \* retained units per stream          (4 MiB)
          MaxBytes         \* retained units per session         (16 MiB)

ASSUME SessionAssumption == /\ IsFiniteSet(Ids)
                            /\ Initiator \in BOOLEAN
                            /\ MaxStreams \in Nat \ {0}
                            /\ MaxIds \in Nat \ {0}
                            /\ MaxStreamBytes \in Nat \ {0}
                            /\ MaxBytes \in Nat \ {0}

VARIABLES failure,    \* why the session failed, "none" while it lives
          streams,    \* keys of the streams map
          known,      \* tombstones: identifiers opened in this session
          bytes,      \* retained units of the session
          stream,     \* per stream, its state object
          globalPaused,
          draining,   \* streams whose delivery loop is in progress
          calling,    \* whether such a loop is inside the consumer's handler
          delivered,  \* history: frames the consumer took, in order
          sent,       \* history: ordered frames prepared, in order
          cancelled   \* history: streams for which ERROR was prepared

vars == <<failure, streams, known, bytes, stream, globalPaused, draining,
          calling, delivered, sent, cancelled>>
loop == <<draining, calling>>
histories == <<delivered, sent, cancelled>>

Owners == {"stream", "global"}
FrameTypes == OrderedTypes \cup {"ERROR", "OTHER"}
InboundFrames == [id : Ids, type : FrameTypes, seq : 0..(MaxSeq + 1)]
Frame == [type : OrderedTypes, seq : SeqNos]
SentFrame == [type : OrderedTypes, err : BOOLEAN]
FailureReasons ==
  { "stream-id-reuse-or-invalid", "stream-allocation-limit",
    "unallocated-frame-before-headers", "invalid-cancellation",
    "invalid-frame-type", "ordering-sequence-boundary", "ordering-overflow",
    "ordering-gap-timeout", "flow-buffer-limit", "invalid-stream-order",
    "consumer-handler-error", "invalid-outbound-order",
    "response-before-request-complete", "sequence-exhausted",
    "flow-control-timeout", "owner" }

Stream == [ window : Window, queue : Seq(Frame), bytes : Int,
            owners : SUBSET Owners, flowTimer : BOOLEAN,
            openType : StartTypes \cup {NoFrame}, ended : BOOLEAN,
            outStarted : BOOLEAN, outEnded : BOOLEAN,
            outErrorStatus : BOOLEAN, seq : 0..MaxSeq ]

NewStream == [ window |-> NewWindow, queue |-> <<>>, bytes |-> 0,
               owners |-> {}, flowTimer |-> FALSE,
               openType |-> NoFrame, ended |-> FALSE,
               outStarted |-> FALSE, outEnded |-> FALSE,
               outErrorStatus |-> FALSE, seq |-> 0 ]

IsStart(type) == type \in StartTypes
Paused(s) == s.owners # {}
Started(s) == s.openType # NoFrame
Held(s) == Cardinality(Buffered(s.window)) + Len(s.queue)
Alive == failure = "none"
Settled == draining = {}
CanCall == Alive /\ (Settled \/ calling)

Init ==
  /\ failure = "none"
  /\ streams = {}
  /\ known = {}
  /\ bytes = 0
  /\ stream = [i \in Ids |-> NewStream]
  /\ globalPaused = FALSE
  /\ draining = {}
  /\ calling = FALSE
  /\ delivered = [i \in Ids |-> <<>>]
  /\ sent = [i \in Ids |-> <<>>]
  /\ cancelled = {}

----------------------------------------------------------------------------
(* fail(reason): the owner's fatal callback clears the session before it   *)
(* returns; every stream is dropped and its memory released.               *)
Fail(reason) ==
  /\ failure' = reason
  /\ streams' = {}
  /\ known' = {}
  /\ bytes' = 0
  /\ stream' = [i \in Ids |-> NewStream]
  /\ globalPaused' = FALSE
  /\ calling' = FALSE
  /\ UNCHANGED draining

CanReserve(s, total) == s.bytes < MaxStreamBytes /\ total < MaxBytes

(* pause(id, owner) on a state object: the first owner arms the timer.     *)
PausedBy(s, owner) ==
  [s EXCEPT !.owners = @ \cup {owner}, !.flowTimer = TRUE]

(* resume(id, owner): the last owner stops the timer.                      *)
ResumedBy(s, owner) ==
  [s EXCEPT !.owners = @ \ {owner},
            !.flowTimer = @ /\ s.owners \ {owner} # {}]

(* The state object that open(id) creates.                                 *)
OpenedStream == IF globalPaused THEN PausedBy(NewStream, "global") ELSE NewStream

HasCapacity ==
  /\ Cardinality(streams) < MaxStreams
  /\ Cardinality(known) < MaxIds

(* Mutant: frames are accepted after FIN.                                  *)
OutOfOrderWhileOpen(s, f) ==
  \/ ~Started(s) /\ ~(IsStart(f.type) /\ f.seq = 1)
  \/ Started(s) /\ IsStart(f.type)

(* A frame that may not be next on its stream.                             *)
OutOfOrder(s, f) ==
  \/ s.ended
  \/ ~Started(s) /\ ~(IsStart(f.type) /\ f.seq = 1)
  \/ Started(s) /\ IsStart(f.type)

(* deliverOrQueue(state, frame); s is the state object and total the       *)
(* session's memory after the frame was taken from where it came.          *)
DeliverOrQueue(id, s, f, total) ==
  \/ /\ Paused(s)
     /\ Len(s.queue) < MaxFrames
     /\ CanReserve(s, total)
     /\ stream' = [stream EXCEPT
          ![id] = [s EXCEPT !.queue = Append(@, f), !.bytes = @ + 1]]
     /\ bytes' = total + 1
     /\ calling' = FALSE
     /\ UNCHANGED <<failure, globalPaused, histories>>
  \/ /\ ~Paused(s)
     /\ ~OutOfOrder(s, f)
     /\ stream' = [stream EXCEPT
          ![id] = [s EXCEPT !.openType = IF Started(s) THEN @ ELSE f.type,
                            !.ended = (f.type = "FIN")]]
     /\ bytes' = total
     /\ calling' = TRUE
     /\ delivered' = [delivered EXCEPT ![id] = Append(@, f)]
     /\ UNCHANGED <<failure, globalPaused, sent, cancelled>>

(* deliverOrQueue(state, frame) when it fails the session; a consumer may  *)
(* throw on any frame.                                                     *)
DeliverOrQueueFails(s, f, total) ==
  /\ UNCHANGED histories
  /\ \/ /\ Paused(s)
        /\ Len(s.queue) >= MaxFrames \/ ~CanReserve(s, total)
        /\ Fail("flow-buffer-limit")
     \/ /\ ~Paused(s)
        /\ OutOfOrder(s, f)
        /\ Fail("invalid-stream-order")
     \/ /\ ~Paused(s)
        /\ ~OutOfOrder(s, f)
        /\ Fail("consumer-handler-error")

----------------------------------------------------------------------------
(* receive(frame).  A duplicate, a frame of a finished stream and a frame  *)
(* the server never allocated change nothing, so they are no action here.  *)

(* Mutant: the tombstones are not consulted.                               *)
ReceiveReopening(id, type) ==
  LET s == [OpenedStream EXCEPT !.window = Advance(@)]
      f == [type |-> type, seq |-> 1]
  IN  /\ Alive /\ Settled
      /\ ~Initiator
      /\ id \notin streams
      /\ HasCapacity
      /\ DeliverOrQueue(id, s, f, bytes)
      /\ streams' = streams \cup {id}
      /\ known' = known \cup {id}
      /\ draining' = {id}

(* The client allocates a stream on its first frame.                       *)
ReceiveOpening(id, type) ==
  LET s == [OpenedStream EXCEPT !.window = Advance(@)]
      f == [type |-> type, seq |-> 1]
  IN  /\ Alive /\ Settled
      /\ ~Initiator
      /\ id \notin known
      /\ HasCapacity
      /\ \/ /\ DeliverOrQueue(id, s, f, bytes)
            /\ streams' = streams \cup {id}
            /\ known' = known \cup {id}
            /\ draining' = {id}
         \/ DeliverOrQueueFails(s, f, bytes)

ReceiveNext(id, f) ==
  LET s == [stream[id] EXCEPT !.window = Advance(@)]
  IN  /\ Alive /\ Settled
      /\ id \in streams
      /\ IsNext(stream[id].window, f.seq)
      /\ \/ /\ DeliverOrQueue(id, s, f, bytes)
            /\ draining' = {id}
            /\ UNCHANGED <<streams, known>>
         \/ DeliverOrQueueFails(s, f, bytes)

ReceiveAhead(id, f) ==
  LET s == stream[id]
  IN  /\ Alive /\ Settled
      /\ id \in streams
      /\ IsAhead(s.window, f.seq)
      /\ ~Overflows(s.window, f.seq, CanReserve(s, bytes))
      /\ stream' = [stream EXCEPT
           ![id] = [s EXCEPT !.window = Keep(@, f.seq, f.type), !.bytes = @ + 1]]
      /\ bytes' = bytes + 1
      /\ UNCHANGED <<failure, streams, known, globalPaused, loop, histories>>

(* Mutant: what waits in the window is not released.                       *)
DropStreamLeaking(id) ==
  /\ streams' = streams \ {id}
  /\ stream' = [stream EXCEPT ![id] = NewStream]
  /\ bytes' = bytes - Len(stream[id].queue)
  /\ UNCHANGED <<failure, known, globalPaused, loop>>

(* drop(id): what the stream holds is released, frame by frame.            *)
DropStream(id) ==
  /\ streams' = streams \ {id}
  /\ stream' = [stream EXCEPT ![id] = NewStream]
  /\ bytes' = bytes - Held(stream[id])
  /\ UNCHANGED <<failure, known, globalPaused, loop>>

(* ERROR overtakes the window and the flow queue.  The server catches what *)
(* its handlers throw on it.                                               *)
ReceiveCancellation(id) ==
  /\ Alive /\ Settled
  /\ id \in streams
  /\ UNCHANGED histories
  /\ \/ DropStream(id)
     \/ ~Initiator /\ Fail("consumer-handler-error")

(* Mutant: a late frame of a finished stream counts as one that came       *)
(* before its opening.                                                     *)
ReceiveFatalForgetful(f) ==
  LET s == stream[f.id]
      ordered == f.id \in streams /\ f.type \in OrderedTypes
  IN  /\ Alive /\ Settled
      /\ UNCHANGED histories
      /\ \/ /\ ~Initiator
            /\ f.id \notin streams
            /\ ~IsStart(f.type) \/ f.seq # 1
            /\ Fail("unallocated-frame-before-headers")
         \/ /\ ordered
            /\ IsAhead(s.window, f.seq)
            /\ Overflows(s.window, f.seq, CanReserve(s, bytes))
            /\ Fail("ordering-overflow")

(* A frame that fails the session.                                         *)
ReceiveFatal(f) ==
  LET s == stream[f.id]
      ordered == f.id \in streams /\ f.type \in OrderedTypes
  IN  /\ Alive /\ Settled
      /\ UNCHANGED histories
      /\ \/ /\ ~Initiator
            /\ f.id \notin known
            /\ ~IsStart(f.type) \/ f.seq # 1
            /\ Fail("unallocated-frame-before-headers")
         \/ /\ ~Initiator
            /\ f.id \notin known
            /\ IsStart(f.type) /\ f.seq = 1
            /\ ~HasCapacity
            /\ Fail("stream-allocation-limit")
         \/ /\ f.id \in streams
            /\ f.type = "ERROR" /\ f.seq # 0
            /\ Fail("invalid-cancellation")
         \/ /\ f.id \in streams
            /\ f.type = "OTHER"
            /\ Fail("invalid-frame-type")
         \/ /\ ordered
            /\ OutOfBounds(f.seq)
            /\ Fail("ordering-sequence-boundary")
         \/ /\ ordered
            /\ IsAhead(s.window, f.seq)
            /\ Overflows(s.window, f.seq, CanReserve(s, bytes))
            /\ Fail("ordering-overflow")

Receive(f) ==
  \/ f.seq = 1 /\ IsStart(f.type) /\ ReceiveOpening(f.id, f.type)
  \/ /\ f.type \in OrderedTypes
     /\ ReceiveNext(f.id, [type |-> f.type, seq |-> f.seq])
  \/ /\ f.type \in OrderedTypes
     /\ ReceiveAhead(f.id, [type |-> f.type, seq |-> f.seq])
  \/ f.type = "ERROR" /\ f.seq = 0 /\ ReceiveCancellation(f.id)
  \/ ReceiveFatal(f)

----------------------------------------------------------------------------
(* The delivery loops.  A queued frame goes first: resume() empties the    *)
(* queue before receive() can look at the window again.                    *)

DrainQueue(id) ==
  LET s == [stream[id] EXCEPT !.queue = Tail(@), !.bytes = @ - 1]
      f == Head(stream[id].queue)
  IN  /\ id \in draining \cap streams
      /\ ~Paused(stream[id])
      /\ stream[id].queue # <<>>
      /\ \/ /\ DeliverOrQueue(id, s, f, bytes - 1)
            /\ UNCHANGED <<streams, known, draining>>
         \/ DeliverOrQueueFails(s, f, bytes - 1)

DrainWindow(id) ==
  LET w == stream[id].window
      s == [stream[id] EXCEPT !.window = Take(@), !.bytes = @ - 1]
      f == [type |-> w.buffer[w.expected], seq |-> w.expected]
  IN  /\ id \in draining \cap streams
      /\ Paused(stream[id]) \/ stream[id].queue = <<>>
      /\ CanTake(w)
      /\ \/ /\ DeliverOrQueue(id, s, f, bytes - 1)
            /\ UNCHANGED <<streams, known, draining>>
         \/ DeliverOrQueueFails(s, f, bytes - 1)

(* Mutant: one frame per arrival is taken from the window, not all.        *)
DrainEndEarly(id) ==
  /\ id \in draining
  /\ draining' = draining \ {id}
  /\ calling' = FALSE
  /\ UNCHANGED <<failure, streams, known, bytes, stream, globalPaused, histories>>

(* The stream is gone, or neither loop finds another frame.                *)
DrainEnd(id) ==
  /\ id \in draining
  /\ \/ id \notin streams
     \/ /\ ~CanTake(stream[id].window)
        /\ Paused(stream[id]) \/ stream[id].queue = <<>>
  /\ draining' = draining \ {id}
  /\ calling' = FALSE
  /\ UNCHANGED <<failure, streams, known, bytes, stream, globalPaused, histories>>

Drain(id) == DrainQueue(id) \/ DrainWindow(id) \/ DrainEnd(id)

----------------------------------------------------------------------------
(* Calls of the owner: between two frames, or from inside a delivery.      *)

(* Mutant: the tombstones are not consulted.                               *)
OpenReusing(id) ==
  /\ CanCall
  /\ Initiator
  /\ id \notin streams
  /\ HasCapacity
  /\ streams' = streams \cup {id}
  /\ known' = known \cup {id}
  /\ stream' = [stream EXCEPT ![id] = OpenedStream]
  /\ UNCHANGED <<failure, bytes, globalPaused, loop, histories>>

(* open(id), which registerStream calls for a stream not opened by send.   *)
Open(id) ==
  /\ CanCall
  /\ Initiator
  /\ id \notin streams
  /\ UNCHANGED histories
  /\ \/ /\ id \in known
        /\ Fail("stream-id-reuse-or-invalid")
     \/ /\ id \notin known
        /\ ~HasCapacity
        /\ Fail("stream-allocation-limit")
     \/ /\ id \notin known
        /\ HasCapacity
        /\ streams' = streams \cup {id}
        /\ known' = known \cup {id}
        /\ stream' = [stream EXCEPT ![id] = OpenedStream]
        /\ UNCHANGED <<failure, bytes, globalPaused, loop>>

(* The state prepare(buf) works on: a start frame of the initiator opens.  *)
OpensBySending(id, type) == Initiator /\ IsStart(type) /\ id \notin streams
SendState(id) == IF id \in streams THEN stream[id] ELSE OpenedStream

MisorderedOutput(s, type) ==
  \/ s.outEnded
  \/ ~s.outStarted /\ ~IsStart(type)
  \/ s.outStarted /\ IsStart(type)

(* Mutant: the request counts as complete once it has started.             *)
PrematureBeforeStart(s, type) ==
  /\ ~Initiator
  /\ type = "FIN"
  /\ s.openType = "HEADERS"
  /\ ~Started(s)
  /\ ~s.outErrorStatus

(* A client may answer before it has the whole request only with an error. *)
Premature(s, type) ==
  /\ ~Initiator
  /\ type = "FIN"
  /\ s.openType = "HEADERS"
  /\ ~s.ended
  /\ ~s.outErrorStatus

(* Mutant: one sequence number too many.                                   *)
HasSequenceTooMany(s) == s.seq <= MaxSeq

HasSequence(s) == s.seq < MaxSeq

(* write(buf) and send(buf) with an ordered frame; err is whether HEADERS  *)
(* carry a status of 400..599.  The client forgets a stream with its FIN.  *)
SendOrdered(id, type, err) ==
  LET s == SendState(id)
      out == [s EXCEPT !.outStarted = TRUE,
                       !.outEnded = (type = "FIN"),
                       !.outErrorStatus = IF ~Initiator /\ type = "HEADERS"
                                          THEN err ELSE @,
                       !.seq = @ + 1]
  IN  /\ CanCall
      /\ \/ id \in streams
         \/ OpensBySending(id, type) /\ id \notin known /\ HasCapacity
      /\ ~MisorderedOutput(s, type)
      /\ ~Premature(s, type)
      /\ HasSequence(s)
      /\ sent' = [sent EXCEPT ![id] = Append(@, [type |-> type, err |-> err])]
      /\ IF ~Initiator /\ type = "FIN"
         THEN DropStream(id)
         ELSE /\ streams' = streams \cup {id}
              /\ known' = known \cup {id}
              /\ stream' = [stream EXCEPT ![id] = out]
              /\ UNCHANGED <<failure, bytes, globalPaused, loop>>
      /\ UNCHANGED <<delivered, cancelled>>

SendFails(id, type) ==
  LET s == SendState(id)
  IN  /\ CanCall
      /\ UNCHANGED histories
      /\ \/ /\ OpensBySending(id, type)
            /\ id \in known
            /\ Fail("stream-id-reuse-or-invalid")
         \/ /\ OpensBySending(id, type)
            /\ id \notin known
            /\ ~HasCapacity
            /\ Fail("stream-allocation-limit")
         \/ /\ id \in streams
            /\ MisorderedOutput(s, type)
            /\ Fail("invalid-outbound-order")
         \/ /\ id \in streams
            /\ ~MisorderedOutput(s, type)
            /\ Premature(s, type)
            /\ Fail("response-before-request-complete")
         \/ /\ id \in streams
            /\ ~MisorderedOutput(s, type)
            /\ ~Premature(s, type)
            /\ ~HasSequence(s)
            /\ Fail("sequence-exhausted")

(* ERROR has sequence number 0 and ends the stream on both sides.          *)
SendCancellation(id) ==
  /\ CanCall
  /\ id \in streams
  /\ cancelled' = cancelled \cup {id}
  /\ DropStream(id)
  /\ UNCHANGED <<delivered, sent>>

(* drop(id) by unregisterStream or clearStreamMode.                        *)
Drop(id) ==
  /\ CanCall
  /\ id \in streams
  /\ DropStream(id)
  /\ UNCHANGED histories

PauseAs(owner, ids) ==
  /\ stream' = [i \in Ids |-> IF i \in ids THEN PausedBy(stream[i], owner)
                                           ELSE stream[i]]
  /\ UNCHANGED <<failure, streams, known, bytes, loop, histories>>

ResumeAs(owner, ids) ==
  LET resumed == [i \in Ids |-> IF i \in ids THEN ResumedBy(stream[i], owner)
                                             ELSE stream[i]]
  IN  /\ stream' = resumed
      /\ draining' = draining \cup
           {i \in ids : ~Paused(resumed[i]) /\ resumed[i].queue # <<>>}
      /\ UNCHANGED <<failure, streams, known, bytes, calling, histories>>

Pause(id) ==
  /\ CanCall
  /\ id \in streams
  /\ PauseAs("stream", {id})
  /\ UNCHANGED globalPaused

Resume(id) ==
  /\ CanCall
  /\ id \in streams
  /\ ResumeAs("stream", {id})
  /\ UNCHANGED globalPaused

PauseAll == CanCall /\ PauseAs("global", streams) /\ globalPaused' = TRUE
ResumeAll == CanCall /\ ResumeAs("global", streams) /\ globalPaused' = FALSE

(* The owner fails the session: a lane was lost, retired or overflowed, or *)
(* the peer changed (evictAll, _failSession).                              *)
OwnerFails ==
  /\ CanCall
  /\ Fail("owner")
  /\ UNCHANGED histories

----------------------------------------------------------------------------
(* Timers.                                                                 *)

GapTimeout(id) ==
  /\ Settled
  /\ stream[id].window.gapTimer
  /\ Buffered(stream[id].window) # {}
  /\ Fail("ordering-gap-timeout")
  /\ UNCHANGED histories

FlowTimeout(id) ==
  /\ Settled
  /\ stream[id].flowTimer
  /\ Fail("flow-control-timeout")
  /\ UNCHANGED histories

----------------------------------------------------------------------------
Sends(id) ==
  \/ SendCancellation(id)
  \/ \E type \in OrderedTypes, err \in BOOLEAN :
       (err => type = "HEADERS") /\ SendOrdered(id, type, err)
  \/ \E type \in OrderedTypes : SendFails(id, type)

StreamCalls(id) == Open(id) \/ Drop(id) \/ Pause(id) \/ Resume(id)

SessionCalls == PauseAll \/ ResumeAll \/ OwnerFails

Internal == \E id \in Ids : Drain(id) \/ GapTimeout(id) \/ FlowTimeout(id)

Next ==
  \/ \E f \in InboundFrames : Receive(f)
  \/ \E id \in Ids : Sends(id) \/ StreamCalls(id)
  \/ SessionCalls
  \/ Internal

Spec == Init /\ [][Next]_vars

(* A loop that has begun runs to its end before the event loop turns, and  *)
(* an armed timer fires once its time is over.  Nothing else is fair: the  *)
(* network, the peer and the consumer may stop for ever.                   *)
Fairness ==
  \A id \in Ids :
    /\ WF_vars(Drain(id))
    /\ WF_vars(GapTimeout(id))
    /\ WF_vars(FlowTimeout(id))

FairSpec == Spec /\ Fairness

----------------------------------------------------------------------------
(* Properties.                                                             *)

(* Every variable stays in its domain; in particular a sequence number     *)
(* never passes MaxSeq (prepare and accept test the bound differently).    *)
TypeOK ==
  /\ failure \in FailureReasons \cup {"none"}
  /\ streams \in SUBSET Ids
  /\ known \in SUBSET Ids
  /\ bytes \in Int
  /\ stream \in [Ids -> Stream]
  /\ globalPaused \in BOOLEAN
  /\ draining \in SUBSET Ids
  /\ calling \in BOOLEAN
  /\ delivered \in [Ids -> Seq(Frame)]
  /\ sent \in [Ids -> Seq(SentFrame)]
  /\ cancelled \in SUBSET Ids

HeldSeqs(s) ==
  Buffered(s.window) \cup {s.queue[n].seq : n \in 1..Len(s.queue)}
HeldUnits == {u \in Ids \X SeqNos : u[2] \in HeldSeqs(stream[u[1]])}

(* Delivered frames, then the flow queue, then the window: together they   *)
(* number the stream 1, 2, 3, ... with no frame skipped, repeated or       *)
(* overtaken, whatever pauses, resumes and reordering moved a frame        *)
(* between the three places (receive, deliverOrQueue, resume).             *)
NothingSkipped ==
  \A i \in Ids :
    LET s == stream[i]
        done == Len(delivered[i])
    IN  /\ \A n \in 1..done : delivered[i][n].seq = n
        /\ i \in streams =>
             /\ s.window.expected = done + Len(s.queue) + 1
             /\ \A n \in 1..Len(s.queue) : s.queue[n].seq = done + n
             /\ \A n \in Buffered(s.window) : n >= s.window.expected

(* The byte counters of the session and of each stream equal what is       *)
(* retained and stay within the limits: no path of reserve, release, drop  *)
(* or requeueing leaks or double-frees a unit.                             *)
RetainedExactly ==
  /\ bytes = Cardinality(HeldUnits)
  /\ bytes <= MaxBytes
  /\ \A i \in Ids :
       LET s == stream[i]
       IN  /\ s.bytes = Held(s)
           /\ s.bytes <= MaxStreamBytes
           /\ Len(s.queue) <= MaxFrames
           /\ Cardinality(Buffered(s.window)) <= MaxFrames

(* A timer is armed exactly while there is something to time: a stalled    *)
(* stream cannot lose its deadline, and a stream that recovered or is gone *)
(* cannot be failed by a timer left behind.                                *)
TimersMatch ==
  \A i \in Ids :
    LET s == stream[i]
    IN  /\ s.window.gapTimer <=> Buffered(s.window) # {}
        /\ s.flowTimer <=> Paused(s)
        /\ i \notin streams => s = NewStream

(* Outside a delivery loop no frame waits that could be handed over: the   *)
(* next one is never left in the window, and the flow queue is only used   *)
(* while the stream is paused.                                             *)
NoStrandedFrame ==
  \A i \in streams \ draining :
    /\ ~CanTake(stream[i].window)
    /\ stream[i].queue # <<>> => Paused(stream[i])

(* A finished stream is never allocated again and neither side of it       *)
(* moves; a failed session hands over, sends and opens nothing more, even  *)
(* from a loop that was running when it failed.                            *)
ClosedForGood ==
  [][/\ \A i \in known \ streams :
          /\ i \notin streams'
          /\ delivered'[i] = delivered[i]
          /\ sent'[i] = sent[i]
     /\ ~Alive => UNCHANGED <<failure, streams, stream, histories>>]_vars

(* A frame held back by a gap or by a paused consumer does not wait for    *)
(* ever: it is handed over, or its stream or its session ends.             *)
HeldBack(i) == HeldSeqs(stream[i]) # {}
HeldFramesResolve == \A i \in Ids : HeldBack(i) ~> ~HeldBack(i)

(* The session implements the promise of OrderedDelivery.tla.              *)
Phase(i) ==
  IF ~Alive \/ i \in known \ streams THEN "closed"
  ELSE IF i \in streams THEN "open" ELSE "unused"

Promise == INSTANCE OrderedDelivery
  WITH phase <- [i \in Ids |-> Phase(i)], log <- delivered, aborted <- ~Alive

OrderedDeliverySpec == Promise!ASpec
=============================================================================
