----------------------- MODULE TransportSessionProofs -----------------------
(***************************************************************************)
(* Theorems about TransportSession for every value of its constants: its   *)
(* types, the delivery discipline (NothingSkipped, TimersMatch,            *)
(* NoStrandedFrame, ClosedForGood) and its memory (RetainedExactly).       *)
(*                                                                         *)
(* None of the discipline is inductive alone.  A frame handed over by      *)
(* receive() goes straight to the consumer, past the flow queue, so        *)
(* NothingSkipped needs that outside a loop the queue of an unpaused       *)
(* stream is empty; an opened stream starts at 1, so it needs that nothing *)
(* was handed over before; and a closed stream must be blank to be fenced  *)
(* from timers.  OrderInv is the conjunction that is inductive.            *)
(* RetainedExactly is inductive given OrderInv, which keeps the frames a   *)
(* stream holds apart, so that each counts once.                           *)
(***************************************************************************)
EXTENDS TransportSession, FiniteSetTheorems, SequenceTheorems, TLAPS

----------------------------------------------------------------------------
(* The operators on one window and one stream preserve their domains.      *)

(* A fresh stream object is a stream object.                               *)
LEMMA NewStreamType == NewStream \in Stream
  BY WindowAssumption DEF NewStream, Stream, NewWindow, Window, OrderedTypes,
     StartTypes, SeqNos, Owners

(* Handing over the next frame keeps a window a window.                    *)
LEMMA AdvanceType ==
  ASSUME NEW w \in Window, w.expected \in SeqNos
  PROVE  Advance(w) \in Window
  BY WindowAssumption DEF Advance, Window, SeqNos

(* Keeping a later frame keeps a window a window.                          *)
LEMMA KeepType ==
  ASSUME NEW w \in Window, NEW seq \in SeqNos, NEW type \in OrderedTypes
  PROVE  Keep(w, seq, type) \in Window
  BY WindowAssumption DEF Keep, Window, SeqNos

(* Taking a waiting frame keeps a window a window, and the frame is one.   *)
LEMMA TakeType ==
  ASSUME NEW w \in Window, CanTake(w)
  PROVE  /\ w.expected \in SeqNos
         /\ w.buffer[w.expected] \in OrderedTypes
         /\ Take(w) \in Window
  <1>1. w.expected \in SeqNos /\ w.buffer[w.expected] \in OrderedTypes
    BY DEF CanTake, Buffered, Window
  <1> DEFINE rest == [w EXCEPT !.buffer[w.expected] = NoFrame, !.expected = @ + 1]
             timer == rest.gapTimer /\ Buffered(rest) # {}
  <1>2. rest \in Window
    <2>1. [w.buffer EXCEPT ![w.expected] = NoFrame]
            \in [SeqNos -> OrderedTypes \cup {NoFrame}]
      BY DEF Window
    <2>2. w.expected + 1 \in 1..(MaxSeq + 1)
      BY <1>1, WindowAssumption DEF SeqNos
    <2>3. QED BY <2>1, <2>2 DEF Window
  <1>3. timer \in BOOLEAN
    OBVIOUS
  <1>4. [rest EXCEPT !.gapTimer = timer] \in Window
    <2> HIDE DEF rest, timer
    <2> QED BY <1>2, <1>3 DEF Window
  <1>5. Take(w) = [rest EXCEPT !.gapTimer = timer]
    BY DEF Take
  <1>6. QED BY <1>1, <1>4, <1>5

(* Pausing and resuming keep a stream object a stream object.              *)
LEMMA PauseResumeType ==
  ASSUME NEW s \in Stream, NEW owner \in Owners
  PROVE  PausedBy(s, owner) \in Stream /\ ResumedBy(s, owner) \in Stream
  BY DEF PausedBy, ResumedBy, Stream

(* The object of a stream that opens is a stream object.                   *)
LEMMA OpenedStreamType == OpenedStream \in Stream
  BY NewStreamType, PauseResumeType DEF OpenedStream, Owners

(* A stream object with another window is a stream object.                 *)
LEMMA SetWindowType ==
  ASSUME NEW s \in Stream, NEW w \in Window
  PROVE  [s EXCEPT !.window = w] \in Stream
  BY DEF Stream

(* So is one with another byte counter.                                    *)
LEMMA SetBytesType ==
  ASSUME NEW s \in Stream, NEW n \in Int
  PROVE  [s EXCEPT !.bytes = n] \in Stream
  BY DEF Stream

(* Queueing a frame keeps a stream object a stream object.                 *)
LEMMA QueueType ==
  ASSUME NEW s \in Stream, NEW f \in Frame
  PROVE  [s EXCEPT !.queue = Append(@, f), !.bytes = @ + 1] \in Stream
  <1>1. Append(s.queue, f) \in Seq(Frame)
    BY DEF Stream
  <1>2. s.bytes + 1 \in Int
    BY DEF Stream
  <1>3. QED BY <1>1, <1>2 DEF Stream

(* Handing over a frame that is in order keeps it one, too.                *)
LEMMA HandOverType ==
  ASSUME NEW s \in Stream, NEW f \in Frame, ~OutOfOrder(s, f)
  PROVE  [s EXCEPT !.openType = IF Started(s) THEN @ ELSE f.type,
                   !.ended = (f.type = "FIN")] \in Stream
  <1>1. (IF Started(s) THEN s.openType ELSE f.type) \in StartTypes \cup {NoFrame}
    BY DEF OutOfOrder, IsStart, Stream
  <1>2. (f.type = "FIN") \in BOOLEAN
    OBVIOUS
  <1>3. QED BY <1>1, <1>2 DEF Stream

(* Sets of sequence numbers are finite, so what a stream holds is a number. *)
LEMMA BufferedFinite ==
  ASSUME NEW w
  PROVE  IsFiniteSet(Buffered(w)) /\ Cardinality(Buffered(w)) \in Nat
  <1>1. IsFiniteSet(SeqNos)
    BY FS_Interval, WindowAssumption DEF SeqNos
  <1>2. Buffered(w) \in SUBSET SeqNos
    BY DEF Buffered
  <1>3. QED BY <1>1, <1>2, FS_Subset, FS_CardinalityType

(* The bytes a stream holds are a number. *)
LEMMA HeldType ==
  ASSUME NEW s \in Stream
  PROVE  Held(s) \in Nat
  BY BufferedFinite, LenProperties DEF Held, Stream

----------------------------------------------------------------------------
(* What the parts of an action that several actions share do to TypeOK.    *)

(* fail() leaves every variable in its domain.                             *)
LEMMA FailType ==
  ASSUME TypeOK, NEW reason \in FailureReasons, Fail(reason), UNCHANGED histories
  PROVE  TypeOK'
  <1>1. stream' \in [Ids -> Stream]
    BY NewStreamType DEF Fail
  <1>2. delivered' = delivered /\ sent' = sent /\ cancelled' = cancelled
    BY DEF histories
  <1>3. /\ failure' \in FailureReasons \cup {"none"}
        /\ streams' \in SUBSET Ids /\ known' \in SUBSET Ids
        /\ draining' \in SUBSET Ids
    BY DEF TypeOK, Fail
  <1>4. bytes' \in Int
    BY DEF Fail
  <1>5. globalPaused' \in BOOLEAN /\ calling' \in BOOLEAN
    BY DEF Fail
  <1>6. QED BY <1>1, <1>2, <1>3, <1>4, <1>5 DEF TypeOK

(* deliverOrQueue() leaves every variable it changes in its domain.        *)
LEMMA DeliverType ==
  ASSUME TypeOK, NEW id \in Ids, NEW s \in Stream, NEW f \in Frame,
         NEW total \in Int, DeliverOrQueue(id, s, f, total),
         streams' \in SUBSET Ids, known' \in SUBSET Ids, draining' \in SUBSET Ids
  PROVE  TypeOK'
  <1>1. CASE Paused(s)
    <2>1. stream' = [stream EXCEPT
            ![id] = [s EXCEPT !.queue = Append(@, f), !.bytes = @ + 1]]
      BY <1>1 DEF DeliverOrQueue
    <2>2. stream' \in [Ids -> Stream]
      BY <2>1, QueueType DEF TypeOK
    <2>3. /\ failure' = failure /\ globalPaused' = globalPaused
          /\ bytes' = total + 1 /\ calling' = FALSE
          /\ delivered' = delivered /\ sent' = sent /\ cancelled' = cancelled
      BY <1>1 DEF DeliverOrQueue, histories
    <2>4. bytes' \in Int
      BY <2>3
    <2>5. calling' \in BOOLEAN
      BY <2>3, Zenon
    <2>6. QED BY <2>2, <2>3, <2>4, <2>5 DEF TypeOK
  <1>2. CASE ~Paused(s)
    <2>1. ~OutOfOrder(s, f)
      BY <1>2 DEF DeliverOrQueue
    <2>2. stream' = [stream EXCEPT
            ![id] = [s EXCEPT !.openType = IF Started(s) THEN @ ELSE f.type,
                              !.ended = (f.type = "FIN")]]
      BY <1>2 DEF DeliverOrQueue
    <2>3. stream' \in [Ids -> Stream]
      BY <2>1, <2>2, HandOverType DEF TypeOK
    <2>4. delivered' \in [Ids -> Seq(Frame)]
      <3>1. Append(delivered[id], f) \in Seq(Frame)
        BY DEF TypeOK
      <3>2. delivered' = [delivered EXCEPT ![id] = Append(delivered[id], f)]
        BY <1>2 DEF DeliverOrQueue
      <3>3. QED BY <3>1, <3>2 DEF TypeOK
    <2>5. QED BY <1>2, <2>3, <2>4 DEF DeliverOrQueue, TypeOK
  <1>3. QED BY <1>1, <1>2

LEMMA DeliverFailsType ==
  ASSUME TypeOK, NEW s, NEW f, NEW total, DeliverOrQueueFails(s, f, total)
  PROVE  TypeOK'
  BY FailType DEF DeliverOrQueueFails, FailureReasons

(* drop() leaves every variable it changes in its domain.                  *)
LEMMA DropType ==
  ASSUME TypeOK, NEW id \in Ids, DropStream(id),
         delivered' \in [Ids -> Seq(Frame)], sent' \in [Ids -> Seq(SentFrame)],
         cancelled' \in SUBSET Ids
  PROVE  TypeOK'
  <1>1. Held(stream[id]) \in Nat
    BY HeldType DEF TypeOK
  <1>2. stream' \in [Ids -> Stream]
    BY NewStreamType DEF TypeOK, DropStream
  <1>3. QED BY <1>1, <1>2 DEF TypeOK, DropStream, loop

LEMMA InboundFrameType ==
  ASSUME NEW f \in InboundFrames
  PROVE  /\ f.id \in Ids
         /\ f.type \in OrderedTypes /\ f.seq \in SeqNos
              => [type |-> f.type, seq |-> f.seq] \in Frame
         /\ f.type \in FrameTypes
         /\ f.seq \in Nat
  BY WindowAssumption DEF InboundFrames, Frame

----------------------------------------------------------------------------
(* Type correctness, one lemma per group of actions.                       *)

LEMMA ReceiveTypeOK ==
  ASSUME TypeOK, NEW f \in InboundFrames, Receive(f)
  PROVE  TypeOK'
  <1>1. CASE f.seq = 1 /\ IsStart(f.type) /\ ReceiveOpening(f.id, f.type)
    <2> DEFINE s == [OpenedStream EXCEPT !.window = Advance(@)]
               g == [type |-> f.type, seq |-> 1]
    <2>1. s \in Stream
      <3>1. OpenedStream.window = NewWindow
        BY DEF OpenedStream, PausedBy, NewStream
      <3>2. NewWindow \in Window /\ NewWindow.expected \in SeqNos
        BY NewStreamType, WindowAssumption DEF NewStream, Stream, NewWindow, SeqNos
      <3>3. QED BY <3>1, <3>2, AdvanceType, OpenedStreamType DEF Stream
    <2>2. g \in Frame
      BY <1>1, WindowAssumption DEF Frame, IsStart, OrderedTypes, SeqNos
    <2>3. CASE DeliverOrQueue(f.id, s, g, bytes) /\ streams' = streams \cup {f.id}
               /\ known' = known \cup {f.id} /\ draining' = {f.id}
      <3> HIDE DEF s, g
      <3> QED BY <2>1, <2>2, <2>3, DeliverType, InboundFrameType DEF TypeOK
    <2>4. CASE DeliverOrQueueFails(s, g, bytes)
      BY <2>4, DeliverFailsType
    <2>5. QED BY <1>1, <2>3, <2>4 DEF ReceiveOpening
  <1>2. CASE f.type \in OrderedTypes
             /\ ReceiveNext(f.id, [type |-> f.type, seq |-> f.seq])
    <2> DEFINE s == [stream[f.id] EXCEPT !.window = Advance(@)]
               g == [type |-> f.type, seq |-> f.seq]
    <2>1. f.seq \in SeqNos /\ f.seq = stream[f.id].window.expected /\ f.id \in Ids
      BY <1>2, InboundFrameType DEF ReceiveNext, IsNext
    <2>2. s \in Stream
      <3>1. stream[f.id] \in Stream /\ stream[f.id].window \in Window
        BY <2>1 DEF TypeOK, Stream
      <3>2. s = [stream[f.id] EXCEPT !.window = Advance(stream[f.id].window)]
        OBVIOUS
      <3>3. QED BY <2>1, <3>1, <3>2, AdvanceType, SetWindowType
    <2>3. g \in Frame
      BY <1>2, <2>1 DEF Frame
    <2>4. CASE DeliverOrQueue(f.id, s, g, bytes) /\ draining' = {f.id}
               /\ UNCHANGED <<streams, known>>
      <3> HIDE DEF s, g
      <3> QED BY <2>1, <2>2, <2>3, <2>4, DeliverType DEF TypeOK
    <2>5. CASE DeliverOrQueueFails(s, g, bytes)
      BY <2>5, DeliverFailsType
    <2>6. QED BY <1>2, <2>4, <2>5 DEF ReceiveNext
  <1>3. CASE f.type \in OrderedTypes
             /\ ReceiveAhead(f.id, [type |-> f.type, seq |-> f.seq])
    <2>1. f.seq \in SeqNos /\ f.id \in Ids
      BY <1>3, InboundFrameType DEF ReceiveAhead, IsAhead
    <2>2. Keep(stream[f.id].window, f.seq, f.type) \in Window
      BY <1>3, <2>1, KeepType DEF TypeOK, Stream
    <2> DEFINE s == [stream[f.id] EXCEPT !.window = Keep(@, f.seq, f.type),
                                         !.bytes = @ + 1]
    <2>3. stream' \in [Ids -> Stream]
      <3>1. stream[f.id] \in Stream
        BY <2>1 DEF TypeOK
      <3>2. s = [[stream[f.id] EXCEPT !.window = Keep(stream[f.id].window, f.seq, f.type)]
                   EXCEPT !.bytes = stream[f.id].bytes + 1]
        BY <3>1 DEF Stream
      <3>3. stream[f.id].bytes + 1 \in Int
        BY <3>1 DEF Stream
      <3>4. s \in Stream
        BY <3>1, <2>2, <3>2, <3>3, SetWindowType, SetBytesType
      <3>5. stream' = [stream EXCEPT ![f.id] = s]
        BY <1>3 DEF ReceiveAhead
      <3>6. QED BY <2>1, <3>4, <3>5 DEF TypeOK
    <2>4. QED BY <1>3, <2>3 DEF ReceiveAhead, TypeOK, loop, histories
  <1>4. CASE f.type = "ERROR" /\ f.seq = 0 /\ ReceiveCancellation(f.id)
    <2>1. CASE DropStream(f.id)
      BY <1>4, <2>1, DropType, InboundFrameType DEF ReceiveCancellation, TypeOK, histories
    <2>2. CASE Fail("consumer-handler-error")
      BY <1>4, <2>2, FailType DEF ReceiveCancellation, FailureReasons
    <2>3. QED BY <1>4, <2>1, <2>2 DEF ReceiveCancellation
  <1>5. CASE ReceiveFatal(f)
    BY <1>5, FailType DEF ReceiveFatal, FailureReasons
  <1>6. QED BY <1>1, <1>2, <1>3, <1>4, <1>5 DEF Receive

LEMMA DrainTypeOK ==
  ASSUME TypeOK, NEW id \in Ids, Drain(id)
  PROVE  TypeOK'
  <1>1. CASE DrainQueue(id)
    <2> DEFINE s == [stream[id] EXCEPT !.queue = Tail(@), !.bytes = @ - 1]
               f == Head(stream[id].queue)
    <2>1. stream[id] \in Stream /\ stream[id].queue \in Seq(Frame)
          /\ stream[id].queue # <<>> /\ stream[id].bytes \in Int
      BY <1>1 DEF DrainQueue, TypeOK, Stream
    <2>2. f \in Frame /\ Tail(stream[id].queue) \in Seq(Frame)
      BY <2>1, HeadTailProperties
    <2>3. s \in Stream
      <3>1. stream[id].bytes - 1 \in Int
        BY <2>1
      <3>2. QED BY <2>1, <2>2, <3>1 DEF Stream
    <2>4. CASE DeliverOrQueue(id, s, f, bytes - 1)
               /\ UNCHANGED <<streams, known, draining>>
      <3>1. bytes - 1 \in Int
        BY DEF TypeOK
      <3> HIDE DEF s, f
      <3> QED BY <2>2, <2>3, <2>4, <3>1, DeliverType DEF TypeOK
    <2>5. CASE DeliverOrQueueFails(s, f, bytes - 1)
      BY <2>5, DeliverFailsType
    <2>6. QED BY <1>1, <2>4, <2>5 DEF DrainQueue
  <1>2. CASE DrainWindow(id)
    <2> DEFINE w == stream[id].window
               s == [stream[id] EXCEPT !.window = Take(@), !.bytes = @ - 1]
               f == [type |-> w.buffer[w.expected], seq |-> w.expected]
    <2>1. stream[id] \in Stream /\ w \in Window /\ CanTake(w)
          /\ stream[id].bytes - 1 \in Int
      BY <1>2 DEF DrainWindow, TypeOK, Stream
    <2>2. Take(w) \in Window /\ f \in Frame
      BY <2>1, TakeType DEF Frame
    <2>3. s \in Stream
      <3>1. s = [[stream[id] EXCEPT !.window = Take(w)]
                   EXCEPT !.bytes = stream[id].bytes - 1]
        BY <2>1 DEF Stream
      <3>2. QED BY <2>1, <2>2, <3>1, SetWindowType, SetBytesType
    <2>4. CASE DeliverOrQueue(id, s, f, bytes - 1)
               /\ UNCHANGED <<streams, known, draining>>
      <3>1. bytes - 1 \in Int
        BY DEF TypeOK
      <3> HIDE DEF s, f
      <3> QED BY <2>2, <2>3, <2>4, <3>1, DeliverType DEF TypeOK
    <2>5. CASE DeliverOrQueueFails(s, f, bytes - 1)
      BY <2>5, DeliverFailsType
    <2>6. QED BY <1>2, <2>4, <2>5 DEF DrainWindow
  <1>3. CASE DrainEnd(id)
    <2>1. calling' \in BOOLEAN
      BY <1>3 DEF DrainEnd
    <2>2. QED BY <1>3, <2>1 DEF DrainEnd, TypeOK, histories
  <1>4. QED BY <1>1, <1>2, <1>3 DEF Drain

LEMMA SendsTypeOK ==
  ASSUME TypeOK, NEW id \in Ids, Sends(id)
  PROVE  TypeOK'
  <1>1. CASE SendCancellation(id)
    BY <1>1, DropType DEF SendCancellation, TypeOK
  <1>2. ASSUME NEW type \in OrderedTypes, NEW err \in BOOLEAN,
               SendOrdered(id, type, err)
        PROVE  TypeOK'
    <2> DEFINE s == SendState(id)
               out == [s EXCEPT !.outStarted = TRUE,
                                !.outEnded = (type = "FIN"),
                                !.outErrorStatus = IF ~Initiator /\ type = "HEADERS"
                                                   THEN err ELSE @,
                                !.seq = @ + 1]
    <2>1. s \in Stream
      BY OpenedStreamType DEF SendState, TypeOK
    <2>2. out \in Stream
      <3>1. s.seq + 1 \in 0..MaxSeq
        BY <1>2, <2>1, WindowAssumption DEF SendOrdered, HasSequence, Stream
      <3>2. (IF ~Initiator /\ type = "HEADERS" THEN err ELSE s.outErrorStatus) \in BOOLEAN
        BY <2>1 DEF Stream
      <3>3. (type = "FIN") \in BOOLEAN
        OBVIOUS
      <3> HIDE DEF s
      <3>4. QED BY <2>1, <3>1, <3>2, <3>3 DEF Stream
    <2>3. sent' \in [Ids -> Seq(SentFrame)]
      <3>1. [type |-> type, err |-> err] \in SentFrame
        BY DEF SentFrame
      <3>2. Append(sent[id], [type |-> type, err |-> err]) \in Seq(SentFrame)
        BY <3>1 DEF TypeOK
      <3>3. QED BY <1>2, <3>2 DEF SendOrdered, TypeOK
    <2>4. delivered' = delivered /\ cancelled' = cancelled
      BY <1>2 DEF SendOrdered
    <2>5. CASE DropStream(id)
      BY <2>3, <2>4, <2>5, DropType DEF TypeOK
    <2>6. CASE /\ streams' = streams \cup {id}
               /\ known' = known \cup {id}
               /\ stream' = [stream EXCEPT ![id] = out]
               /\ UNCHANGED <<failure, bytes, globalPaused, loop>>
      <3>1. stream' \in [Ids -> Stream]
        <4> HIDE DEF out
        <4> QED BY <2>2, <2>6 DEF TypeOK
      <3>2. QED BY <2>3, <2>4, <2>6, <3>1 DEF TypeOK, loop
    <2>7. QED BY <1>2, <2>5, <2>6 DEF SendOrdered
  <1>3. ASSUME NEW type \in OrderedTypes, SendFails(id, type)
        PROVE  TypeOK'
    BY <1>3, FailType DEF SendFails, FailureReasons
  <1>4. QED BY <1>1, <1>2, <1>3 DEF Sends

(* Pausing and resuming keep the types, whoever the owner is. *)
LEMMA PauseAsType ==
  ASSUME TypeOK, NEW owner \in Owners, NEW ids \in SUBSET Ids,
         PauseAs(owner, ids) \/ ResumeAs(owner, ids), globalPaused' \in BOOLEAN
  PROVE  TypeOK'
  <1>1. \A i \in Ids : stream[i] \in Stream
    BY DEF TypeOK
  <1>2. stream' \in [Ids -> Stream]
    BY <1>1, PauseResumeType DEF PauseAs, ResumeAs
  <1>3. draining' \in SUBSET Ids /\ calling' = calling
    BY DEF TypeOK, PauseAs, ResumeAs, loop
  <1>4. QED BY <1>2, <1>3 DEF TypeOK, PauseAs, ResumeAs, histories

LEMMA StreamCallsTypeOK ==
  ASSUME TypeOK, NEW id \in Ids, StreamCalls(id)
  PROVE  TypeOK'
  <1>1. CASE Open(id)
    <2>1. CASE Fail("stream-id-reuse-or-invalid") \/ Fail("stream-allocation-limit")
      BY <1>1, <2>1, FailType DEF Open, FailureReasons
    <2>2. CASE /\ streams' = streams \cup {id}
               /\ known' = known \cup {id}
               /\ stream' = [stream EXCEPT ![id] = OpenedStream]
               /\ UNCHANGED <<failure, bytes, globalPaused, loop>>
      <3>1. stream' \in [Ids -> Stream]
        BY <2>2, OpenedStreamType DEF TypeOK
      <3>2. QED BY <1>1, <2>2, <3>1 DEF Open, TypeOK, loop, histories
    <2>3. QED BY <1>1, <2>1, <2>2 DEF Open
  <1>2. CASE Drop(id)
    BY <1>2, DropType DEF Drop, TypeOK, histories
  <1>3. CASE Pause(id) \/ Resume(id)
    BY <1>3, PauseAsType DEF Pause, Resume, TypeOK, Owners
  <1>4. QED BY <1>1, <1>2, <1>3 DEF StreamCalls

LEMMA SessionCallsTypeOK ==
  ASSUME TypeOK, SessionCalls
  PROVE  TypeOK'
  <1>1. CASE PauseAll
    <2>1. globalPaused' \in BOOLEAN
      BY <1>1 DEF PauseAll
    <2>2. QED BY <1>1, <2>1, PauseAsType DEF PauseAll, TypeOK, Owners
  <1>2. CASE ResumeAll
    <2>1. globalPaused' \in BOOLEAN
      BY <1>2 DEF ResumeAll
    <2>2. QED BY <1>2, <2>1, PauseAsType DEF ResumeAll, TypeOK, Owners
  <1>3. CASE OwnerFails
    BY <1>3, FailType DEF OwnerFails, FailureReasons
  <1>4. QED BY <1>1, <1>2, <1>3 DEF SessionCalls

(* Init and every step respect the domains.                                *)
LEMMA TypeInit == Init => TypeOK
  <1> SUFFICES ASSUME Init PROVE TypeOK
    OBVIOUS
  <1>1. stream \in [Ids -> Stream]
    BY NewStreamType DEF Init
  <1>2. delivered \in [Ids -> Seq(Frame)] /\ sent \in [Ids -> Seq(SentFrame)]
    BY EmptySeq DEF Init
  <1>3. globalPaused \in BOOLEAN /\ calling \in BOOLEAN
    BY DEF Init
  <1>4. /\ failure \in FailureReasons \cup {"none"}
        /\ streams \in SUBSET Ids /\ known \in SUBSET Ids
        /\ bytes \in Int
        /\ draining \in SUBSET Ids /\ cancelled \in SUBSET Ids
    BY DEF Init
  <1>5. QED BY <1>1, <1>2, <1>3, <1>4 DEF TypeOK

LEMMA TypeStep == TypeOK /\ [Next]_vars => TypeOK'
  <1> SUFFICES ASSUME TypeOK, [Next]_vars PROVE TypeOK'
    OBVIOUS
  <1>1. CASE \E f \in InboundFrames : Receive(f)
    BY <1>1, ReceiveTypeOK
  <1>2. CASE \E id \in Ids : Sends(id)
    BY <1>2, SendsTypeOK
  <1>3. CASE \E id \in Ids : StreamCalls(id)
    BY <1>3, StreamCallsTypeOK
  <1>4. CASE SessionCalls
    BY <1>4, SessionCallsTypeOK
  <1>5. CASE \E id \in Ids : Drain(id)
    BY <1>5, DrainTypeOK
  <1>6. CASE \E id \in Ids : GapTimeout(id) \/ FlowTimeout(id)
    BY <1>6, FailType DEF GapTimeout, FlowTimeout, FailureReasons
  <1>7. CASE UNCHANGED vars
    BY <1>7 DEF vars, TypeOK
  <1>8. QED BY <1>1, <1>2, <1>3, <1>4, <1>5, <1>6, <1>7 DEF Next, Internal

(* Whatever the network delivers and the consumer calls, every variable    *)
(* stays in its domain: no sequence number passes the last legal one, and  *)
(* no frame is kept under a number outside the window's range.             *)
THEOREM TypeCorrect == Spec => []TypeOK
  BY TypeInit, TypeStep, PTL DEF Spec

----------------------------------------------------------------------------
(* The delivery discipline.                                                *)

LogNumbered(d) == \A n \in 1..Len(d) : d[n].seq = n

(* Log, queue and window of one stream number it without a gap.            *)
Numbered(s, d) ==
  /\ s.window.expected = Len(d) + Len(s.queue) + 1
  /\ \A n \in 1..Len(s.queue) : s.queue[n].seq = Len(d) + n
  /\ \A n \in Buffered(s.window) : n >= s.window.expected

(* The same while frame f is in the hand of a delivery loop.               *)
InHand(s, f, d) ==
  /\ s.window.expected = Len(d) + Len(s.queue) + 2
  /\ IF Paused(s)
     THEN /\ f.seq = Len(d) + Len(s.queue) + 1
          /\ \A n \in 1..Len(s.queue) : s.queue[n].seq = Len(d) + n
     ELSE /\ f.seq = Len(d) + 1
          /\ \A n \in 1..Len(s.queue) : s.queue[n].seq = Len(d) + n + 1
  /\ \A n \in Buffered(s.window) : n >= s.window.expected

TimersFit(s) ==
  /\ s.window.gapTimer <=> Buffered(s.window) # {}
  /\ s.flowTimer <=> Paused(s)

Resting(s) == ~CanTake(s.window) /\ (s.queue # <<>> => Paused(s))

Allocation ==
  /\ streams \subseteq known
  /\ ~Alive => streams = {}
  /\ Alive => \A i \in Ids \ known : delivered[i] = <<>>

OrderInv ==
  /\ Allocation
  /\ \A i \in Ids : LogNumbered(delivered[i])
  /\ \A i \in streams : Numbered(stream[i], delivered[i]) /\ TimersFit(stream[i])
  /\ \A i \in streams \ draining : Resting(stream[i])
  /\ \A i \in Ids \ streams : stream[i] = NewStream

----------------------------------------------------------------------------
(* Windows.                                                                *)

(* What is kept, taken or handed over is all that changes in the buffer.   *)
LEMMA AdvanceBuffered ==
  ASSUME NEW w \in Window
  PROVE  /\ Advance(w).expected = w.expected + 1
         /\ Advance(w).gapTimer = w.gapTimer
         /\ Buffered(Advance(w)) = Buffered(w)
  BY DEF Advance, Buffered, Window

(* Keeping a frame adds its number to the window and starts the gap timer. *)
LEMMA KeepBuffered ==
  ASSUME NEW w \in Window, NEW seq \in SeqNos, NEW type \in OrderedTypes
  PROVE  /\ Keep(w, seq, type).expected = w.expected
         /\ Keep(w, seq, type).gapTimer
         /\ Buffered(Keep(w, seq, type)) = Buffered(w) \cup {seq}
  <1>1. type # NoFrame
    BY DEF OrderedTypes, StartTypes, NoFrame
  <1>2. Keep(w, seq, type).buffer = [w.buffer EXCEPT ![seq] = type]
    BY DEF Keep, Window
  <1>3. Buffered(Keep(w, seq, type)) = Buffered(w) \cup {seq}
    BY <1>1, <1>2 DEF Buffered, Window
  <1>4. QED BY <1>3 DEF Keep, Window

(* Taking the expected frame removes its number, and the timer goes when nothing is left. *)
LEMMA TakeBuffered ==
  ASSUME NEW w \in Window, CanTake(w)
  PROVE  /\ Take(w).expected = w.expected + 1
         /\ Take(w).gapTimer <=> w.gapTimer /\ Buffered(Take(w)) # {}
         /\ Buffered(Take(w)) = Buffered(w) \ {w.expected}
  <1> DEFINE rest == [w EXCEPT !.buffer[w.expected] = NoFrame, !.expected = @ + 1]
             timer == rest.gapTimer /\ Buffered(rest) # {}
  <1>1. Take(w) = [rest EXCEPT !.gapTimer = timer]
    BY DEF Take
  <1>2. rest.gapTimer = w.gapTimer /\ rest.expected = w.expected + 1
        /\ rest.buffer = [w.buffer EXCEPT ![w.expected] = NoFrame]
    BY DEF Window
  <1>3. /\ Take(w).gapTimer = timer
        /\ Take(w).expected = rest.expected
        /\ Take(w).buffer = rest.buffer
    BY <1>1 DEF Window
  <1>4. Buffered(Take(w)) = Buffered(rest)
    BY <1>3 DEF Buffered
  <1>5. Buffered(rest) = Buffered(w) \ {w.expected}
    BY <1>2 DEF Buffered, Window
  <1>6. Take(w).gapTimer <=> w.gapTimer /\ Buffered(rest) # {}
    BY <1>2, <1>3
  <1>7. QED BY <1>2, <1>3, <1>4, <1>5, <1>6

(* A stream that opens waits for 1, holds nothing and is timed correctly.  *)
LEMMA OpenedBlank ==
  /\ OpenedStream.window = NewWindow /\ OpenedStream.queue = <<>>
  /\ Buffered(NewWindow) = {} /\ NewWindow.expected = 1 /\ ~NewWindow.gapTimer
  /\ TimersFit(OpenedStream) /\ TimersFit(NewStream)
  /\ Resting(OpenedStream)
  <1>1. Buffered(NewWindow) = {} /\ NewWindow.expected = 1 /\ ~NewWindow.gapTimer
    BY DEF NewWindow, Buffered
  <1>2. OpenedStream.window = NewWindow /\ OpenedStream.queue = <<>>
    BY DEF OpenedStream, PausedBy, NewStream
  <1>3. TimersFit(NewStream)
    BY <1>1 DEF TimersFit, NewStream, Paused
  <1>4. TimersFit(OpenedStream)
    BY <1>1, <1>3 DEF TimersFit, OpenedStream, PausedBy, NewStream, Paused
  <1>5. Resting(OpenedStream)
    BY <1>1, <1>2 DEF Resting, CanTake
  <1>6. QED BY <1>1, <1>2, <1>3, <1>4, <1>5

----------------------------------------------------------------------------
(* What the parts of an action that several actions share do to OrderInv.  *)

(* fail() closes every stream, so there is nothing left to be wrong.       *)
LEMMA FailOrder ==
  ASSUME OrderInv, NEW reason \in FailureReasons, Fail(reason), UNCHANGED histories
  PROVE  OrderInv'
  <1>1. delivered' = delivered /\ streams' = {} /\ ~Alive'
    BY DEF histories, Fail, Alive, FailureReasons
  <1>2. \A i \in Ids : stream'[i] = NewStream
    BY DEF Fail
  <1>3. QED BY <1>1, <1>2 DEF OrderInv, Allocation, LogNumbered

(* A stream that opens or changes without handing anything over.           *)
LEMMA UpdateOrder ==
  ASSUME TypeOK, OrderInv, Alive, NEW id \in Ids, NEW s,
         id \in streams \/ id \notin known,
         Numbered(s, delivered[id]), TimersFit(s),
         id \notin draining => Resting(s),
         streams' = streams \cup {id}, known' = known \cup {id},
         stream' = [stream EXCEPT ![id] = s],
         UNCHANGED <<failure, draining, delivered>>
  PROVE  OrderInv'
  <1>1. stream'[id] = s /\ \A i \in Ids \ {id} : stream'[i] = stream[i]
    BY DEF TypeOK
  <1>2. Allocation'
    BY DEF OrderInv, Allocation, Alive
  <1>3. \A i \in Ids : LogNumbered(delivered'[i])
    BY DEF OrderInv
  <1>4. \A i \in streams' : Numbered(stream'[i], delivered'[i]) /\ TimersFit(stream'[i])
    BY <1>1 DEF OrderInv, TypeOK
  <1>5. \A i \in streams' \ draining' : Resting(stream'[i])
    BY <1>1 DEF OrderInv, TypeOK
  <1>6. \A i \in Ids \ streams' : stream'[i] = NewStream
    BY <1>1 DEF OrderInv
  <1>7. QED BY <1>2, <1>3, <1>4, <1>5, <1>6 DEF OrderInv, LogNumbered, Numbered,
               TimersFit, Resting

(* deliverOrQueue() with the next frame of the stream in its hand.         *)
LEMMA DeliverOrder ==
  ASSUME TypeOK, OrderInv, Alive, NEW id \in Ids, NEW s \in Stream, NEW f \in Frame,
         NEW total, InHand(s, f, delivered[id]), TimersFit(s),
         DeliverOrQueue(id, s, f, total),
         streams' = streams \cup {id}, known' = known \cup {id},
         draining' = draining \cup {id}
  PROVE  OrderInv'
  <1> DEFINE d == delivered[id]
  <1>1. d \in Seq(Frame) /\ s.queue \in Seq(Frame) /\ failure' = failure
    BY DEF TypeOK, Stream, DeliverOrQueue
  <1>2. /\ LogNumbered(delivered'[id])
        /\ \A i \in Ids \ {id} : delivered'[i] = delivered[i] /\ stream'[i] = stream[i]
        /\ Numbered(stream'[id], delivered'[id])
        /\ TimersFit(stream'[id])
    <2>1. CASE Paused(s)
      <3> DEFINE t == [s EXCEPT !.queue = Append(@, f), !.bytes = @ + 1]
      <3>1. stream' = [stream EXCEPT ![id] = t] /\ delivered' = delivered
        BY <2>1 DEF DeliverOrQueue, histories
      <3>2. stream'[id] = t
        BY <3>1 DEF TypeOK
      <3>3. /\ t.window = s.window /\ t.queue = Append(s.queue, f)
            /\ t.owners = s.owners /\ t.flowTimer = s.flowTimer
        BY DEF Stream
      <3>4. Numbered(t, d)
        <4>1. Len(t.queue) = Len(s.queue) + 1
          BY <1>1, <3>3
        <4>2. \A n \in 1..Len(s.queue) : t.queue[n] = s.queue[n]
          BY <1>1, <3>3
        <4>3. t.queue[Len(s.queue) + 1] = f
          BY <1>1, <3>3
        <4>4. Len(s.queue) \in Nat /\ Len(d) \in Nat
          BY <1>1, LenProperties
        <4>5. /\ s.window.expected = Len(d) + Len(s.queue) + 2
              /\ f.seq = Len(d) + Len(s.queue) + 1
              /\ \A n \in 1..Len(s.queue) : s.queue[n].seq = Len(d) + n
              /\ \A n \in Buffered(s.window) : n >= s.window.expected
          BY <2>1 DEF InHand
        <4> HIDE DEF t, d
        <4>6. t.window.expected = Len(d) + Len(t.queue) + 1
          BY <3>3, <4>1, <4>4, <4>5
        <4>7. \A n \in 1..Len(t.queue) : t.queue[n].seq = Len(d) + n
          <5> SUFFICES ASSUME NEW n \in 1..Len(t.queue)
                       PROVE  t.queue[n].seq = Len(d) + n
            OBVIOUS
          <5>1. CASE n = Len(s.queue) + 1
            BY <5>1, <4>3, <4>4, <4>5
          <5>2. CASE n \in 1..Len(s.queue)
            BY <5>2, <4>2, <4>5
          <5>3. QED BY <4>1, <4>4, <5>1, <5>2
        <4>8. \A n \in Buffered(t.window) : n >= t.window.expected
          BY <3>3, <4>5
        <4>9. QED BY <4>6, <4>7, <4>8 DEF Numbered
      <3>5. TimersFit(t)
        <4> HIDE DEF t
        <4> QED BY <3>3 DEF TimersFit, Paused
      <3>6. LogNumbered(delivered'[id])
        BY <3>1 DEF OrderInv
      <3>7. QED BY <3>1, <3>2, <3>4, <3>5, <3>6
    <2>2. CASE ~Paused(s)
      <3> DEFINE t == [s EXCEPT !.openType = IF Started(s) THEN @ ELSE f.type,
                                !.ended = (f.type = "FIN")]
      <3>1. stream' = [stream EXCEPT ![id] = t]
            /\ delivered' = [delivered EXCEPT ![id] = Append(d, f)]
        BY <2>2 DEF DeliverOrQueue
      <3>2. stream'[id] = t /\ delivered'[id] = Append(d, f)
        BY <3>1 DEF TypeOK
      <3>3. /\ t.window = s.window /\ t.queue = s.queue
            /\ t.owners = s.owners /\ t.flowTimer = s.flowTimer
        BY DEF Stream
      <3>4. /\ Len(Append(d, f)) = Len(d) + 1
            /\ Append(d, f)[Len(d) + 1] = f
            /\ \A n \in 1..Len(d) : Append(d, f)[n] = d[n]
            /\ Len(d) \in Nat /\ Len(s.queue) \in Nat
        BY <1>1
      <3>5. LogNumbered(Append(d, f))
        <4>1. LogNumbered(d) /\ f.seq = Len(d) + 1
          BY <2>2 DEF OrderInv, InHand
        <4> HIDE DEF d
        <4>2. QED BY <3>4, <4>1 DEF LogNumbered
      <3>6. Numbered(t, Append(d, f))
        <4>1. /\ s.window.expected = Len(d) + Len(s.queue) + 2
              /\ \A n \in 1..Len(s.queue) : s.queue[n].seq = Len(d) + n + 1
              /\ \A n \in Buffered(s.window) : n >= s.window.expected
          BY <2>2 DEF InHand
        <4>2. PICK m \in Nat : m = Len(d)
          BY <3>4
        <4>3. PICK k \in Nat : k = Len(s.queue)
          BY <3>4
        <4>4. Len(Append(d, f)) = m + 1
          BY <3>4, <4>2
        <4> HIDE DEF t
        <4>5. t.window.expected = Len(Append(d, f)) + Len(t.queue) + 1
          <5>1. s.window.expected = m + k + 2
            BY <4>1, <4>2, <4>3
          <5>2. t.window.expected = s.window.expected
            BY <3>3
          <5>3. Len(t.queue) = k
            BY <3>3, <4>3
          <5>4. m + k + 2 = (m + 1) + k + 1
            OBVIOUS
          <5>5. QED BY <4>4, <5>1, <5>2, <5>3, <5>4
        <4>6. \A n \in 1..Len(t.queue) : t.queue[n].seq = Len(Append(d, f)) + n
          BY <3>3, <4>1, <4>2, <4>3, <4>4
        <4>7. \A n \in Buffered(t.window) : n >= t.window.expected
          BY <3>3, <4>1
        <4>8. QED BY <4>5, <4>6, <4>7 DEF Numbered
      <3>7. TimersFit(t)
        <4> HIDE DEF t
        <4> QED BY <3>3 DEF TimersFit, Paused
      <3>8. QED BY <3>1, <3>2, <3>5, <3>6, <3>7
    <2>3. QED BY <2>1, <2>2
  <1>3. Allocation'
    BY <1>1, <1>2 DEF OrderInv, Allocation, Alive
  <1>4. \A i \in Ids : LogNumbered(delivered'[i])
    BY <1>2 DEF OrderInv
  <1>5. \A i \in streams' : Numbered(stream'[i], delivered'[i]) /\ TimersFit(stream'[i])
    BY <1>2 DEF OrderInv, TypeOK
  <1>6. \A i \in streams' \ draining' : Resting(stream'[i])
    BY <1>2 DEF OrderInv, TypeOK
  <1>7. \A i \in Ids \ streams' : stream'[i] = NewStream
    BY <1>2 DEF OrderInv
  <1>8. QED BY <1>3, <1>4, <1>5, <1>6, <1>7 DEF OrderInv, LogNumbered, Numbered,
               TimersFit, Resting

(* A delivery that fails the session keeps OrderInv. *)
LEMMA DeliverFailsOrder ==
  ASSUME OrderInv, NEW s, NEW f, NEW total, DeliverOrQueueFails(s, f, total)
  PROVE  OrderInv'
  BY FailOrder DEF DeliverOrQueueFails, FailureReasons

(* drop() leaves a blank stream behind.                                    *)
LEMMA DropOrder ==
  ASSUME TypeOK, OrderInv, NEW id \in Ids, DropStream(id), delivered' = delivered
  PROVE  OrderInv'
  <1>1. stream'[id] = NewStream /\ \A i \in Ids \ {id} : stream'[i] = stream[i]
    BY DEF DropStream, TypeOK
  <1>2. streams' = streams \ {id} /\ known' = known /\ failure' = failure
        /\ draining' = draining
    BY DEF DropStream, loop
  <1>3. Allocation'
    BY <1>2 DEF OrderInv, Allocation, Alive
  <1>4. \A i \in streams' : Numbered(stream'[i], delivered'[i]) /\ TimersFit(stream'[i])
    BY <1>1, <1>2 DEF OrderInv, TypeOK
  <1>5. \A i \in streams' \ draining' : Resting(stream'[i])
    BY <1>1, <1>2 DEF OrderInv, TypeOK
  <1>6. \A i \in Ids \ streams' : stream'[i] = NewStream
    BY <1>1, <1>2 DEF OrderInv
  <1>7. QED BY <1>3, <1>4, <1>5, <1>6 DEF OrderInv, LogNumbered, Numbered,
               TimersFit, Resting

----------------------------------------------------------------------------
(* The actions that put a frame in the hand of deliverOrQueue().           *)

(* A frame that opens a stream is the first of its order. *)
LEMMA ReceiveOpeningOrder ==
  ASSUME TypeOK, OrderInv, NEW id \in Ids, NEW type, IsStart(type),
         ReceiveOpening(id, type)
  PROVE  OrderInv'
  <1> DEFINE s == [OpenedStream EXCEPT !.window = Advance(@)]
             f == [type |-> type, seq |-> 1]
  <1>1. CASE DeliverOrQueue(id, s, f, bytes) /\ streams' = streams \cup {id}
             /\ known' = known \cup {id} /\ draining' = {id}
    <2>1. Alive /\ draining = {} /\ id \notin known
      BY DEF ReceiveOpening, Settled
    <2>2. delivered[id] = <<>>
      BY <2>1 DEF OrderInv, Allocation
    <2>3. f \in Frame
      BY WindowAssumption DEF Frame, IsStart, OrderedTypes, SeqNos
    <2>4. OpenedStream \in Stream /\ NewWindow \in Window
      BY OpenedStreamType, NewStreamType DEF NewStream, Stream
    <2>5. /\ s.window = Advance(NewWindow) /\ s.queue = <<>>
          /\ s.owners = OpenedStream.owners /\ s.flowTimer = OpenedStream.flowTimer
      BY <2>4, OpenedBlank DEF Stream
    <2>6. s \in Stream
      <3>1. Advance(NewWindow) \in Window
        BY <2>4, OpenedBlank, AdvanceType, WindowAssumption DEF SeqNos
      <3>2. QED BY <2>4, <3>1, OpenedBlank, SetWindowType
    <2>7. /\ s.window.expected = 2 /\ ~s.window.gapTimer
          /\ Buffered(s.window) = {}
      BY <2>4, <2>5, AdvanceBuffered, OpenedBlank
    <2>8. InHand(s, f, delivered[id])
      <3> HIDE DEF s
      <3> QED BY <2>2, <2>5, <2>7 DEF InHand
    <2>9. TimersFit(s)
      <3> HIDE DEF s
      <3> QED BY <2>5, <2>7, OpenedBlank DEF TimersFit, Paused
    <2>10. draining' = draining \cup {id}
      BY <1>1, <2>1
    <2> HIDE DEF s, f
    <2>11. QED BY <1>1, <2>1, <2>3, <2>6, <2>8, <2>9, <2>10, DeliverOrder
  <1>2. CASE DeliverOrQueueFails(s, f, bytes)
    BY <1>2, DeliverFailsOrder
  <1>3. QED BY <1>1, <1>2 DEF ReceiveOpening

(* The expected frame is delivered in its turn. *)
LEMMA ReceiveNextOrder ==
  ASSUME TypeOK, OrderInv, NEW id \in Ids, NEW f \in Frame, ReceiveNext(id, f)
  PROVE  OrderInv'
  <1> DEFINE s == [stream[id] EXCEPT !.window = Advance(@)]
  <1>1. CASE DeliverOrQueue(id, s, f, bytes) /\ draining' = {id}
             /\ UNCHANGED <<streams, known>>
    <2> DEFINE w == stream[id].window
               d == delivered[id]
               q == stream[id].queue
    <2>1. Alive /\ draining = {} /\ id \in streams /\ id \in known
          /\ IsNext(w, f.seq)
      BY DEF ReceiveNext, Settled, OrderInv, Allocation
    <2>2. stream[id] \in Stream /\ w \in Window /\ d \in Seq(Frame) /\ q \in Seq(Frame)
      BY DEF TypeOK, Stream
    <2>3. f.seq = w.expected /\ f.seq \in SeqNos /\ f.seq \notin Buffered(w)
      BY <2>1 DEF IsNext, IsDuplicate
    <2>4. Numbered(stream[id], d) /\ TimersFit(stream[id]) /\ Resting(stream[id])
      BY <2>1 DEF OrderInv
    <2>5. /\ s.window = Advance(w) /\ s.queue = q
          /\ s.owners = stream[id].owners /\ s.flowTimer = stream[id].flowTimer
      BY <2>2 DEF Stream
    <2>6. /\ s.window.expected = w.expected + 1 /\ s.window.gapTimer = w.gapTimer
          /\ Buffered(s.window) = Buffered(w)
      BY <2>2, <2>5, AdvanceBuffered
    <2>7. s \in Stream
      BY <2>2, <2>3, AdvanceType, SetWindowType
    <2>8. InHand(s, f, d)
      <3>1. PICK m \in Nat : m = Len(d)
        BY <2>2, LenProperties
      <3>2. PICK k \in Nat : k = Len(q)
        BY <2>2, LenProperties
      <3>3. w.expected = m + k + 1 /\ \A n \in 1..k : q[n].seq = m + n
        BY <2>4, <3>1, <3>2 DEF Numbered
      <3>4. s.window.expected = m + k + 2
        BY <2>6, <3>3
      <3>5. ~Paused(s) => k = 0
        BY <2>4, <2>5, <3>2 DEF Resting, Paused
      <3>6. \A n \in Buffered(s.window) : n >= s.window.expected
        <4>0. Buffered(w) \subseteq Nat
          BY DEF Buffered, SeqNos
        <4>1. \A n \in Buffered(w) : n >= w.expected /\ n # w.expected /\ n \in Nat
          BY <2>3, <2>4, <4>0 DEF Numbered
        <4>2. w.expected \in Nat
          BY <3>3
        <4>3. QED BY <2>6, <4>1, <4>2
      <3> HIDE DEF s, d
      <3>7. QED BY <2>3, <2>5, <3>1, <3>2, <3>3, <3>4, <3>5, <3>6 DEF InHand
    <2>9. TimersFit(s)
      <3> HIDE DEF s
      <3> QED BY <2>4, <2>5, <2>6 DEF TimersFit, Paused
    <2>10. /\ draining' = draining \cup {id} /\ streams' = streams \cup {id}
           /\ known' = known \cup {id}
      BY <1>1, <2>1
    <2> HIDE DEF s
    <2>11. QED BY <1>1, <2>1, <2>7, <2>8, <2>9, <2>10, DeliverOrder
  <1>2. CASE DeliverOrQueueFails(s, f, bytes)
    BY <1>2, DeliverFailsOrder
  <1>3. QED BY <1>1, <1>2 DEF ReceiveNext

(* A resumed stream delivers what it queued in order. *)
LEMMA DrainQueueOrder ==
  ASSUME TypeOK, OrderInv, NEW id \in Ids, DrainQueue(id)
  PROVE  OrderInv'
  <1> DEFINE q == stream[id].queue
             s == [stream[id] EXCEPT !.queue = Tail(@), !.bytes = @ - 1]
             f == Head(q)
  <1>1. CASE DeliverOrQueue(id, s, f, bytes - 1)
             /\ UNCHANGED <<streams, known, draining>>
    <2> DEFINE w == stream[id].window
               d == delivered[id]
    <2>1. id \in streams /\ id \in draining /\ q # <<>> /\ ~Paused(stream[id])
          /\ Alive /\ id \in known
      BY DEF DrainQueue, OrderInv, Allocation
    <2>2. stream[id] \in Stream /\ w \in Window /\ d \in Seq(Frame) /\ q \in Seq(Frame)
          /\ stream[id].bytes \in Int
      BY DEF TypeOK, Stream
    <2>3. /\ f \in Frame /\ f = q[1] /\ Tail(q) \in Seq(Frame) /\ Len(Tail(q)) = Len(q) - 1
          /\ \A n \in 1..(Len(q) - 1) : Tail(q)[n] = q[n + 1]
      BY <2>1, <2>2, HeadTailProperties
    <2>4. Numbered(stream[id], d) /\ TimersFit(stream[id])
      BY <2>1 DEF OrderInv
    <2>5. /\ s.window = w /\ s.queue = Tail(q)
          /\ s.owners = stream[id].owners /\ s.flowTimer = stream[id].flowTimer
      BY <2>2 DEF Stream
    <2>6. s \in Stream
      <3>1. stream[id].bytes - 1 \in Int
        BY <2>2
      <3>2. QED BY <2>2, <2>3, <3>1 DEF Stream
    <2>7. InHand(s, f, d)
      <3>1. PICK m \in Nat : m = Len(d)
        BY <2>2, LenProperties
      <3>2. PICK k \in Nat : k = Len(Tail(q)) /\ Len(q) = k + 1
        <4>1. Len(q) \in Nat /\ Len(Tail(q)) \in Nat
          BY <2>2, <2>3, LenProperties
        <4>2. Len(q) = Len(Tail(q)) + 1
          BY <2>3, <4>1
        <4>3. QED BY <4>1, <4>2
      <3>3. w.expected = m + (k + 1) + 1 /\ \A n \in 1..(k + 1) : q[n].seq = m + n
        BY <2>4, <3>1, <3>2 DEF Numbered
      <3>4. s.window.expected = m + k + 2
        BY <2>5, <3>3
      <3>5. \A n \in 1..k : s.queue[n].seq = m + n + 1
        <4> SUFFICES ASSUME NEW n \in 1..k PROVE s.queue[n].seq = m + n + 1
          OBVIOUS
        <4>1. s.queue[n] = q[n + 1]
          BY <2>3, <2>5, <3>2
        <4>2. q[n + 1].seq = m + (n + 1)
          BY <3>3
        <4>3. m + (n + 1) = m + n + 1
          OBVIOUS
        <4> HIDE DEF s
        <4>4. QED BY <4>1, <4>2, <4>3
      <3>6. f.seq = m + 1
        BY <2>3, <3>3
      <3>7. \A n \in Buffered(s.window) : n >= s.window.expected
        BY <2>4, <2>5 DEF Numbered
      <3>8. ~Paused(s)
        BY <2>1, <2>5 DEF Paused
      <3> HIDE DEF s, d, f
      <3>9. QED BY <2>5, <3>1, <3>2, <3>4, <3>5, <3>6, <3>7, <3>8 DEF InHand
    <2>8. TimersFit(s)
      <3> HIDE DEF s
      <3> QED BY <2>4, <2>5 DEF TimersFit, Paused
    <2>9. /\ draining' = draining \cup {id} /\ streams' = streams \cup {id}
          /\ known' = known \cup {id}
      BY <1>1, <2>1
    <2> HIDE DEF s, f
    <2>10. QED BY <1>1, <2>1, <2>3, <2>6, <2>7, <2>8, <2>9, DeliverOrder
  <1>2. CASE DeliverOrQueueFails(s, f, bytes - 1)
    BY <1>2, DeliverFailsOrder
  <1>3. QED BY <1>1, <1>2 DEF DrainQueue

(* A filled gap releases the frames that follow it in order. *)
LEMMA DrainWindowOrder ==
  ASSUME TypeOK, OrderInv, NEW id \in Ids, DrainWindow(id)
  PROVE  OrderInv'
  <1> DEFINE w == stream[id].window
             s == [stream[id] EXCEPT !.window = Take(@), !.bytes = @ - 1]
             f == [type |-> w.buffer[w.expected], seq |-> w.expected]
  <1>1. CASE DeliverOrQueue(id, s, f, bytes - 1)
             /\ UNCHANGED <<streams, known, draining>>
    <2> DEFINE q == stream[id].queue
               d == delivered[id]
    <2>1. id \in streams /\ id \in draining /\ CanTake(w) /\ Alive /\ id \in known
          /\ (Paused(stream[id]) \/ q = <<>>)
      BY DEF DrainWindow, OrderInv, Allocation
    <2>2. stream[id] \in Stream /\ w \in Window /\ d \in Seq(Frame) /\ q \in Seq(Frame)
          /\ stream[id].bytes \in Int
      BY DEF TypeOK, Stream
    <2>3. Take(w) \in Window /\ f \in Frame
      BY <2>1, <2>2, TakeType DEF Frame
    <2>4. Numbered(stream[id], d) /\ TimersFit(stream[id])
      BY <2>1 DEF OrderInv
    <2>5. /\ s.window = Take(w) /\ s.queue = q
          /\ s.owners = stream[id].owners /\ s.flowTimer = stream[id].flowTimer
      BY <2>2 DEF Stream
    <2>6. /\ s.window.expected = w.expected + 1
          /\ s.window.gapTimer <=> w.gapTimer /\ Buffered(s.window) # {}
          /\ Buffered(s.window) = Buffered(w) \ {w.expected}
      BY <2>1, <2>2, <2>5, TakeBuffered
    <2>7. s \in Stream
      <3>1. s = [[stream[id] EXCEPT !.window = Take(w)] EXCEPT !.bytes = stream[id].bytes - 1]
        BY <2>2 DEF Stream
      <3>2. stream[id].bytes - 1 \in Int
        BY <2>2
      <3>3. QED BY <2>2, <2>3, <3>1, <3>2, SetWindowType, SetBytesType
    <2>8. InHand(s, f, d)
      <3>1. PICK m \in Nat : m = Len(d)
        BY <2>2, LenProperties
      <3>2. PICK k \in Nat : k = Len(q)
        BY <2>2, LenProperties
      <3>3. w.expected = m + k + 1 /\ \A n \in 1..k : q[n].seq = m + n
        BY <2>4, <3>1, <3>2 DEF Numbered
      <3>4. s.window.expected = m + k + 2
        BY <2>6, <3>3
      <3>5. ~Paused(s) => k = 0
        BY <2>1, <2>5, <3>2 DEF Paused
      <3>6. \A n \in Buffered(s.window) : n >= s.window.expected
        <4>0. Buffered(w) \subseteq Nat
          BY DEF Buffered, SeqNos
        <4>1. \A n \in Buffered(w) : n >= w.expected
          BY <2>4 DEF Numbered
        <4>2. w.expected \in Nat
          BY <3>3
        <4>3. QED BY <2>6, <4>0, <4>1, <4>2
      <3>7. f.seq = m + k + 1
        BY <3>3
      <3> HIDE DEF s, d, f
      <3>8. QED BY <2>5, <3>1, <3>2, <3>3, <3>4, <3>5, <3>6, <3>7 DEF InHand
    <2>9. TimersFit(s)
      <3>1. w.gapTimer
        BY <2>1, <2>4 DEF TimersFit, CanTake
      <3> HIDE DEF s
      <3>2. QED BY <2>4, <2>5, <2>6, <3>1 DEF TimersFit, Paused
    <2>10. /\ draining' = draining \cup {id} /\ streams' = streams \cup {id}
           /\ known' = known \cup {id}
      BY <1>1, <2>1
    <2> HIDE DEF s, f
    <2>11. QED BY <1>1, <2>1, <2>3, <2>7, <2>8, <2>9, <2>10, DeliverOrder
  <1>2. CASE DeliverOrQueueFails(s, f, bytes - 1)
    BY <1>2, DeliverFailsOrder
  <1>3. QED BY <1>1, <1>2 DEF DrainWindow

(* The end of a delivery loop moves no frame. *)
LEMMA DrainEndOrder ==
  ASSUME TypeOK, OrderInv, NEW id \in Ids, DrainEnd(id)
  PROVE  OrderInv'
  <1>1. /\ streams' = streams /\ known' = known /\ stream' = stream
        /\ delivered' = delivered /\ failure' = failure
        /\ draining' = draining \ {id}
    BY DEF DrainEnd, histories
  <1>2. id \in streams => Resting(stream[id])
    BY DEF DrainEnd, Resting
  <1>3. \A i \in streams' \ draining' : Resting(stream'[i])
    BY <1>1, <1>2 DEF OrderInv
  <1>4. QED BY <1>1, <1>3 DEF OrderInv, Allocation, Alive, LogNumbered, Numbered,
               TimersFit, Resting

----------------------------------------------------------------------------
(* The actions that hand nothing over.                                     *)

(* A frame ahead of its turn waits in the window. *)
LEMMA ReceiveAheadOrder ==
  ASSUME TypeOK, OrderInv, NEW id \in Ids, NEW f,
         f.type \in OrderedTypes, ReceiveAhead(id, f)
  PROVE  OrderInv'
  <1> DEFINE w == stream[id].window
             s == [stream[id] EXCEPT !.window = Keep(@, f.seq, f.type), !.bytes = @ + 1]
  <1>1. /\ Alive /\ id \in streams /\ f.seq \in SeqNos /\ f.seq > w.expected
        /\ draining = {} /\ stream' = [stream EXCEPT ![id] = s]
        /\ UNCHANGED <<failure, streams, known, draining, delivered>>
    BY DEF ReceiveAhead, IsAhead, Settled, loop, histories
  <1>2. stream[id] \in Stream /\ w \in Window
    BY DEF TypeOK, Stream
  <1>3. /\ s.window = Keep(w, f.seq, f.type) /\ s.queue = stream[id].queue
        /\ s.owners = stream[id].owners /\ s.flowTimer = stream[id].flowTimer
    BY <1>2 DEF Stream
  <1>4. /\ s.window.expected = w.expected /\ s.window.gapTimer
        /\ Buffered(s.window) = Buffered(w) \cup {f.seq}
    BY <1>1, <1>2, <1>3, KeepBuffered
  <1>5. Numbered(stream[id], delivered[id]) /\ TimersFit(stream[id]) /\ Resting(stream[id])
        /\ id \in known
    BY <1>1 DEF OrderInv, Allocation
  <1>6. w.expected \in Nat /\ f.seq \in Nat
    BY <1>1, <1>2 DEF Window, SeqNos
  <1> HIDE DEF s
  <1>7. Numbered(s, delivered[id])
    <2>1. \A n \in Buffered(s.window) : n >= s.window.expected
      <3>1. \A n \in Buffered(w) : n >= w.expected
        BY <1>5 DEF Numbered
      <3>2. f.seq >= w.expected
        BY <1>1, <1>6
      <3>3. QED BY <1>4, <3>1, <3>2
    <2>2. QED BY <1>3, <1>4, <1>5, <2>1 DEF Numbered
  <1>8. TimersFit(s)
    BY <1>3, <1>4, <1>5 DEF TimersFit, Paused
  <1>9. Resting(s)
    BY <1>1, <1>3, <1>4, <1>5, <1>6 DEF Resting, CanTake, Paused
  <1>10. streams' = streams \cup {id} /\ known' = known \cup {id}
    BY <1>1, <1>5
  <1>11. QED BY <1>1, <1>7, <1>8, <1>9, <1>10, UpdateOrder

(* A stream that opens with open() or by sending its start frame.          *)
LEMMA OpenedOrder ==
  ASSUME TypeOK, OrderInv, Alive, NEW id \in Ids, id \notin known
  PROVE  /\ id \notin streams /\ delivered[id] = <<>>
         /\ Numbered(OpenedStream, delivered[id])
         /\ TimersFit(OpenedStream) /\ Resting(OpenedStream)
  <1>1. id \notin streams /\ delivered[id] = <<>>
    BY DEF OrderInv, Allocation
  <1>2. Numbered(OpenedStream, delivered[id])
    BY <1>1, OpenedBlank DEF Numbered
  <1>3. QED BY <1>1, <1>2, OpenedBlank

LEMMA OpenOrder ==
  ASSUME TypeOK, OrderInv, NEW id \in Ids, Open(id)
  PROVE  OrderInv'
  <1>1. CASE Fail("stream-id-reuse-or-invalid") \/ Fail("stream-allocation-limit")
    BY <1>1, FailOrder DEF Open, FailureReasons
  <1>2. CASE /\ id \notin known
             /\ streams' = streams \cup {id}
             /\ known' = known \cup {id}
             /\ stream' = [stream EXCEPT ![id] = OpenedStream]
             /\ UNCHANGED <<failure, bytes, globalPaused, loop>>
    <2>1. Alive /\ UNCHANGED <<failure, draining, delivered>>
      BY <1>2 DEF Open, CanCall, loop, histories
    <2>2. QED BY <1>2, <2>1, OpenedOrder, UpdateOrder
  <1>3. QED BY <1>1, <1>2 DEF Open

LEMMA SendOrderedOrder ==
  ASSUME TypeOK, OrderInv, NEW id \in Ids, NEW type, NEW err,
         SendOrdered(id, type, err)
  PROVE  OrderInv'
  <1> DEFINE s == SendState(id)
             out == [s EXCEPT !.outStarted = TRUE,
                              !.outEnded = (type = "FIN"),
                              !.outErrorStatus = IF ~Initiator /\ type = "HEADERS"
                                                 THEN err ELSE @,
                              !.seq = @ + 1]
  <1>1. Alive /\ delivered' = delivered /\ (id \in streams \/ id \notin known)
    BY DEF SendOrdered, CanCall
  <1>2. CASE DropStream(id)
    BY <1>1, <1>2, DropOrder
  <1>3. CASE /\ streams' = streams \cup {id}
             /\ known' = known \cup {id}
             /\ stream' = [stream EXCEPT ![id] = out]
             /\ UNCHANGED <<failure, bytes, globalPaused, loop>>
    <2>1. Numbered(s, delivered[id]) /\ TimersFit(s) /\ (id \notin draining => Resting(s))
      <3>1. CASE id \in streams
        BY <3>1 DEF SendState, OrderInv
      <3>2. CASE id \notin streams
        BY <1>1, <3>2, OpenedOrder DEF SendState
      <3>3. QED BY <3>1, <3>2
    <2>2. s \in Stream
      BY OpenedStreamType DEF SendState, TypeOK
    <2> HIDE DEF s
    <2>3. /\ out.window = s.window /\ out.queue = s.queue
          /\ out.owners = s.owners /\ out.flowTimer = s.flowTimer
      BY <2>2 DEF Stream
    <2> HIDE DEF out
    <2>4. /\ Numbered(out, delivered[id]) /\ TimersFit(out)
          /\ id \notin draining => Resting(out)
      BY <2>1, <2>3 DEF Numbered, TimersFit, Resting, Paused
    <2>5. UNCHANGED <<failure, draining, delivered>>
      BY <1>1, <1>3 DEF loop
    <2>6. QED BY <1>1, <1>3, <2>4, <2>5, UpdateOrder
  <1>4. QED BY <1>2, <1>3 DEF SendOrdered

(* A pause or a resume moves no frame, and a resume that frees a queue     *)
(* starts the stream's loop.                                               *)
LEMMA PauseOrder ==
  ASSUME TypeOK, OrderInv, NEW owner \in Owners, NEW ids \in SUBSET streams,
         PauseAs(owner, ids) \/ ResumeAs(owner, ids)
  PROVE  OrderInv'
  <1>1. /\ failure' = failure /\ streams' = streams /\ known' = known
        /\ delivered' = delivered
    BY DEF PauseAs, ResumeAs, histories
  <1>2. \A i \in Ids : stream[i] \in Stream
    BY DEF TypeOK
  <1>3. \A i \in Ids : /\ stream'[i].window = stream[i].window
                       /\ stream'[i].queue = stream[i].queue
                       /\ i \notin ids => stream'[i] = stream[i]
    <2> SUFFICES ASSUME NEW i \in Ids
                 PROVE  /\ stream'[i].window = stream[i].window
                        /\ stream'[i].queue = stream[i].queue
                        /\ i \notin ids => stream'[i] = stream[i]
      OBVIOUS
    <2>1. \/ stream'[i] = IF i \in ids THEN PausedBy(stream[i], owner) ELSE stream[i]
          \/ stream'[i] = IF i \in ids THEN ResumedBy(stream[i], owner) ELSE stream[i]
      BY DEF PauseAs, ResumeAs
    <2>2. stream[i] \in Stream
      BY <1>2
    <2>3. /\ PausedBy(stream[i], owner).window = stream[i].window
          /\ PausedBy(stream[i], owner).queue = stream[i].queue
          /\ ResumedBy(stream[i], owner).window = stream[i].window
          /\ ResumedBy(stream[i], owner).queue = stream[i].queue
      BY <2>2 DEF PausedBy, ResumedBy, Stream
    <2>4. QED BY <2>1, <2>3
  <1>4. \A i \in streams : stream'[i].flowTimer <=> Paused(stream'[i])
    <2> SUFFICES ASSUME NEW i \in streams
                 PROVE  stream'[i].flowTimer <=> Paused(stream'[i])
      OBVIOUS
    <2>1. i \in Ids /\ stream[i] \in Stream /\ (stream[i].flowTimer <=> Paused(stream[i]))
      BY <1>2 DEF OrderInv, TimersFit, TypeOK
    <2>2. CASE PauseAs(owner, ids) /\ i \in ids
      <3>1. stream'[i] = PausedBy(stream[i], owner)
        BY <2>1, <2>2 DEF PauseAs
      <3>2. QED BY <2>1, <3>1 DEF PausedBy, Paused, Stream
    <2>3. CASE ResumeAs(owner, ids) /\ i \in ids
      <3>1. stream'[i] = ResumedBy(stream[i], owner)
        BY <2>1, <2>3 DEF ResumeAs
      <3>2. QED BY <2>1, <3>1 DEF ResumedBy, Paused, Stream
    <2>4. CASE i \notin ids
      BY <1>3, <2>1, <2>4
    <2>5. QED BY <2>2, <2>3, <2>4
  <1>5. Allocation'
    BY <1>1 DEF OrderInv, Allocation, Alive
  <1>6. \A i \in streams' : Numbered(stream'[i], delivered'[i]) /\ TimersFit(stream'[i])
    <2> SUFFICES ASSUME NEW i \in streams
                 PROVE  Numbered(stream'[i], delivered'[i]) /\ TimersFit(stream'[i])
      BY <1>1
    <2>1. i \in Ids /\ Numbered(stream[i], delivered[i]) /\ TimersFit(stream[i])
      BY DEF OrderInv, TypeOK
    <2>2. Numbered(stream'[i], delivered'[i])
      BY <1>1, <1>3, <2>1 DEF Numbered
    <2>3. TimersFit(stream'[i])
      BY <1>3, <1>4, <2>1 DEF TimersFit
    <2>4. QED BY <2>2, <2>3
  <1>7. \A i \in streams' \ draining' : Resting(stream'[i])
    <2> SUFFICES ASSUME NEW i \in streams \ draining' PROVE Resting(stream'[i])
      BY <1>1
    <2>1. i \in Ids /\ i \notin draining /\ Resting(stream[i])
      BY DEF PauseAs, ResumeAs, OrderInv, TypeOK, loop
    <2>2. ~CanTake(stream'[i].window)
      BY <1>3, <2>1 DEF Resting
    <2>3. stream'[i].queue # <<>> => Paused(stream'[i])
      <3>1. CASE PauseAs(owner, ids) /\ i \in ids
        <4>1. stream'[i] = PausedBy(stream[i], owner) /\ stream[i] \in Stream
          BY <1>2, <2>1, <3>1 DEF PauseAs
        <4>2. QED BY <4>1 DEF PausedBy, Paused, Stream
      <3>2. CASE ResumeAs(owner, ids) /\ i \in ids
        BY <2>1, <3>2 DEF ResumeAs
      <3>3. CASE i \notin ids
        BY <1>3, <2>1, <3>3 DEF Resting
      <3>4. QED BY <3>1, <3>2, <3>3
    <2>4. QED BY <2>2, <2>3 DEF Resting
  <1>8. \A i \in Ids \ streams' : stream'[i] = NewStream
    BY <1>1, <1>3 DEF OrderInv
  <1>9. \A i \in Ids : LogNumbered(delivered'[i])
    BY <1>1 DEF OrderInv
  <1>10. QED BY <1>5, <1>6, <1>7, <1>8, <1>9 DEF OrderInv, LogNumbered, Numbered,
                TimersFit, Resting

----------------------------------------------------------------------------
LEMMA OrderInit == Init => OrderInv
  <1> SUFFICES ASSUME Init PROVE OrderInv
    OBVIOUS
  <1>1. streams = {} /\ known = {} /\ \A i \in Ids : delivered[i] = <<>>
    BY DEF Init
  <1>2. \A i \in Ids : stream[i] = NewStream
    BY DEF Init
  <1>3. \A i \in Ids : LogNumbered(delivered[i])
    BY <1>1 DEF LogNumbered
  <1>4. QED BY <1>1, <1>2, <1>3 DEF OrderInv, Allocation

LEMMA OrderStep == TypeOK /\ OrderInv /\ [Next]_vars => OrderInv'
  <1> SUFFICES ASSUME TypeOK, OrderInv, [Next]_vars PROVE OrderInv'
    OBVIOUS
  <1>1. ASSUME NEW f \in InboundFrames, Receive(f) PROVE OrderInv'
    <2>1. CASE f.seq = 1 /\ IsStart(f.type) /\ ReceiveOpening(f.id, f.type)
      BY <2>1, InboundFrameType, ReceiveOpeningOrder
    <2>2. CASE f.type \in OrderedTypes
               /\ ReceiveNext(f.id, [type |-> f.type, seq |-> f.seq])
      <3>1. f.seq \in SeqNos
        BY <2>2 DEF ReceiveNext, IsNext
      <3>2. QED BY <2>2, <3>1, InboundFrameType, ReceiveNextOrder
    <2>3. CASE f.type \in OrderedTypes
               /\ ReceiveAhead(f.id, [type |-> f.type, seq |-> f.seq])
      BY <2>3, InboundFrameType, ReceiveAheadOrder
    <2>4. CASE f.type = "ERROR" /\ f.seq = 0 /\ ReceiveCancellation(f.id)
      BY <2>4, InboundFrameType, DropOrder, FailOrder
         DEF ReceiveCancellation, histories, FailureReasons
    <2>5. CASE ReceiveFatal(f)
      BY <2>5, FailOrder DEF ReceiveFatal, FailureReasons
    <2>6. QED BY <1>1, <2>1, <2>2, <2>3, <2>4, <2>5 DEF Receive
  <1>2. ASSUME NEW id \in Ids, Sends(id) PROVE OrderInv'
    <2>1. CASE SendCancellation(id)
      BY <2>1, DropOrder DEF SendCancellation
    <2>2. ASSUME NEW type \in OrderedTypes, NEW err \in BOOLEAN,
                 SendOrdered(id, type, err)
          PROVE  OrderInv'
      BY <2>2, SendOrderedOrder
    <2>3. ASSUME NEW type \in OrderedTypes, SendFails(id, type) PROVE OrderInv'
      BY <2>3, FailOrder DEF SendFails, FailureReasons
    <2>4. QED BY <1>2, <2>1, <2>2, <2>3 DEF Sends
  <1>3. ASSUME NEW id \in Ids, StreamCalls(id) PROVE OrderInv'
    <2>1. CASE Open(id)
      BY <2>1, OpenOrder
    <2>2. CASE Drop(id)
      BY <2>2, DropOrder DEF Drop, histories
    <2>3. CASE Pause(id) \/ Resume(id)
      BY <2>3, PauseOrder DEF Pause, Resume, Owners
    <2>4. QED BY <1>3, <2>1, <2>2, <2>3 DEF StreamCalls
  <1>4. CASE SessionCalls
    BY <1>4, PauseOrder, FailOrder
       DEF SessionCalls, PauseAll, ResumeAll, OwnerFails, Owners, FailureReasons
  <1>5. ASSUME NEW id \in Ids, Drain(id) PROVE OrderInv'
    BY <1>5, DrainQueueOrder, DrainWindowOrder, DrainEndOrder DEF Drain
  <1>6. ASSUME NEW id \in Ids, GapTimeout(id) \/ FlowTimeout(id) PROVE OrderInv'
    BY <1>6, FailOrder DEF GapTimeout, FlowTimeout, FailureReasons
  <1>7. CASE UNCHANGED vars
    BY <1>7 DEF vars, loop, histories, OrderInv, Allocation, Alive, LogNumbered,
       Numbered, TimersFit, Resting, CanTake, Buffered, Paused
  <1>8. QED BY <1>1, <1>2, <1>3, <1>4, <1>5, <1>6, <1>7 DEF Next, Internal

(* The inductive invariant holds of every reachable state.                 *)
THEOREM OrderCorrect == Spec => []OrderInv
  <1>1. QED BY TypeCorrect, OrderInit, OrderStep, PTL DEF Spec

(* The consumer's log, the flow queue and the window number every stream   *)
(* 1, 2, 3, ...: no interleaving of arrivals, pauses, resumes and loops    *)
(* skips, repeats or overtakes a frame.                                    *)
THEOREM NothingSkippedCorrect == Spec => []NothingSkipped
  <1>1. TypeOK /\ OrderInv => NothingSkipped
    BY DEF OrderInv, LogNumbered, Numbered, NothingSkipped
  <1>2. QED BY <1>1, TypeCorrect, OrderCorrect, PTL

(* Every timer that is armed has something to time, and the other way      *)
(* round, on every stream, open or closed.                                 *)
THEOREM TimersMatchCorrect == Spec => []TimersMatch
  <1>1. TypeOK /\ OrderInv => TimersMatch
    <2> SUFFICES ASSUME TypeOK, OrderInv, NEW i \in Ids
                 PROVE  TimersFit(stream[i]) /\ (i \notin streams => stream[i] = NewStream)
      BY DEF TimersMatch, TimersFit
    <2>1. CASE i \in streams
      BY <2>1 DEF OrderInv
    <2>2. CASE i \notin streams
      BY <2>2, OpenedBlank DEF OrderInv
    <2>3. QED BY <2>1, <2>2
  <1>2. QED BY <1>1, TypeCorrect, OrderCorrect, PTL

(* Whenever no loop is running, no frame waits that could be handed over.  *)
THEOREM NoStrandedFrameCorrect == Spec => []NoStrandedFrame
  <1>1. OrderInv => NoStrandedFrame
    BY DEF OrderInv, Resting, NoStrandedFrame
  <1>2. QED BY <1>1, OrderCorrect, PTL

----------------------------------------------------------------------------
(* Closed streams and failed sessions.                                     *)

Untouched(i) == i \notin streams' /\ delivered'[i] = delivered[i] /\ sent'[i] = sent[i]

(* Failing the session delivers nothing more. *)
LEMMA FailUntouched ==
  ASSUME NEW reason, Fail(reason), UNCHANGED histories
  PROVE  \A i \in Ids : Untouched(i)
  BY DEF Fail, histories, Untouched

(* A delivery to one stream touches no other.                              *)
LEMMA DeliverUntouched ==
  ASSUME TypeOK, NEW id \in Ids, NEW s, NEW f, NEW total,
         DeliverOrQueue(id, s, f, total), streams' = streams \cup {id},
         NEW i \in Ids \ {id}, i \notin streams
  PROVE  Untouched(i)
  BY DEF DeliverOrQueue, Untouched, TypeOK, histories

(* No step delivers to a stream that is closed. *)
LEMMA ClosedStep ==
  ASSUME TypeOK, OrderInv, Next, NEW i \in Ids, i \in known \ streams
  PROVE  Untouched(i)
  <1>1. ASSUME NEW f \in InboundFrames, Receive(f) PROVE Untouched(i)
    <2>0. f.id \in Ids
      BY InboundFrameType
    <2>1. CASE ReceiveOpening(f.id, f.type)
      BY <2>0, <2>1, DeliverUntouched, FailUntouched
         DEF ReceiveOpening, DeliverOrQueueFails
    <2>2. CASE ReceiveNext(f.id, [type |-> f.type, seq |-> f.seq])
      <3>1. f.id \in streams
        BY <2>2 DEF ReceiveNext
      <3>2. QED BY <2>0, <2>2, <3>1, DeliverUntouched, FailUntouched
                DEF ReceiveNext, DeliverOrQueueFails
    <2>3. CASE ReceiveAhead(f.id, [type |-> f.type, seq |-> f.seq])
      BY <2>3 DEF ReceiveAhead, Untouched, histories
    <2>4. CASE ReceiveCancellation(f.id)
      BY <2>4, FailUntouched DEF ReceiveCancellation, DropStream, Untouched, histories
    <2>5. CASE ReceiveFatal(f)
      BY <2>5, FailUntouched DEF ReceiveFatal
    <2>6. QED BY <1>1, <2>1, <2>2, <2>3, <2>4, <2>5 DEF Receive
  <1>2. ASSUME NEW id \in Ids, Sends(id) PROVE Untouched(i)
    <2>1. CASE SendCancellation(id)
      BY <2>1 DEF SendCancellation, DropStream, Untouched
    <2>2. ASSUME NEW type \in OrderedTypes, NEW err \in BOOLEAN,
                 SendOrdered(id, type, err)
          PROVE  Untouched(i)
      <3>1. i # id
        BY <2>2 DEF SendOrdered
      <3>2. i \notin streams' /\ delivered' = delivered
        BY <2>2, <3>1 DEF SendOrdered, DropStream
      <3>3. sent'[i] = sent[i]
        BY <2>2, <3>1 DEF SendOrdered, TypeOK
      <3>4. QED BY <3>2, <3>3 DEF Untouched
    <2>3. ASSUME NEW type \in OrderedTypes, SendFails(id, type) PROVE Untouched(i)
      BY <2>3, FailUntouched DEF SendFails
    <2>4. QED BY <1>2, <2>1, <2>2, <2>3 DEF Sends
  <1>3. ASSUME NEW id \in Ids, StreamCalls(id) PROVE Untouched(i)
    <2>1. CASE Open(id)
      BY <2>1, FailUntouched DEF Open, Untouched, histories
    <2>2. CASE Drop(id)
      BY <2>2 DEF Drop, DropStream, Untouched, histories
    <2>3. CASE Pause(id) \/ Resume(id)
      BY <2>3 DEF Pause, Resume, PauseAs, ResumeAs, Untouched, histories
    <2>4. QED BY <1>3, <2>1, <2>2, <2>3 DEF StreamCalls
  <1>4. CASE SessionCalls
    BY <1>4, FailUntouched
       DEF SessionCalls, PauseAll, ResumeAll, OwnerFails, PauseAs, ResumeAs,
           Untouched, histories
  <1>5. ASSUME NEW id \in Ids, Drain(id) PROVE Untouched(i)
    <2>1. CASE DrainQueue(id)
      <3>1. id \in streams
        BY <2>1 DEF DrainQueue
      <3>2. QED BY <2>1, <3>1, DeliverUntouched, FailUntouched
                DEF DrainQueue, DeliverOrQueueFails
    <2>2. CASE DrainWindow(id)
      <3>1. id \in streams
        BY <2>2 DEF DrainWindow
      <3>2. QED BY <2>2, <3>1, DeliverUntouched, FailUntouched
                DEF DrainWindow, DeliverOrQueueFails
    <2>3. CASE DrainEnd(id)
      BY <2>3 DEF DrainEnd, Untouched, histories
    <2>4. QED BY <1>5, <2>1, <2>2, <2>3 DEF Drain
  <1>6. ASSUME NEW id \in Ids, GapTimeout(id) \/ FlowTimeout(id) PROVE Untouched(i)
    BY <1>6, FailUntouched DEF GapTimeout, FlowTimeout
  <1>7. QED BY <1>1, <1>2, <1>3, <1>4, <1>5, <1>6 DEF Next, Internal

(* A failed session has no open stream and no armed timer, so all that     *)
(* can still happen is that its loops come to their end.                   *)
LEMMA FailedStep ==
  ASSUME TypeOK, OrderInv, Next, ~Alive
  PROVE  UNCHANGED <<failure, streams, stream, histories>>
  <1>1. streams = {} /\ ~CanCall
    BY DEF OrderInv, Allocation, CanCall
  <1>2. \A i \in Ids : stream[i] = NewStream
    BY <1>1 DEF OrderInv
  <1>3. \A id \in Ids : ~GapTimeout(id) /\ ~FlowTimeout(id)
    BY <1>2, OpenedBlank DEF GapTimeout, FlowTimeout, NewStream, NewWindow
  <1>4. \A f \in InboundFrames : ~Receive(f)
    BY DEF Receive, ReceiveOpening, ReceiveNext, ReceiveAhead, ReceiveCancellation,
           ReceiveFatal
  <1>5. \A id \in Ids : ~Sends(id) /\ ~StreamCalls(id)
    BY <1>1 DEF Sends, SendCancellation, SendOrdered, SendFails, StreamCalls, Open,
                Drop, Pause, Resume
  <1>6. ~SessionCalls
    BY <1>1 DEF SessionCalls, PauseAll, ResumeAll, OwnerFails
  <1>7. PICK id \in Ids : Drain(id)
    BY <1>3, <1>4, <1>5, <1>6 DEF Next, Internal
  <1>8. DrainEnd(id)
    BY <1>1, <1>7 DEF Drain, DrainQueue, DrainWindow
  <1>9. QED BY <1>8 DEF DrainEnd

(* A stream that finished, was cancelled or dropped never opens, delivers  *)
(* or sends again, and a failed session changes nothing any more.          *)
THEOREM ClosedForGoodCorrect == Spec => ClosedForGood
  <1> DEFINE A ==
        /\ \A i \in known \ streams :
             /\ i \notin streams'
             /\ delivered'[i] = delivered[i]
             /\ sent'[i] = sent[i]
        /\ ~Alive => UNCHANGED <<failure, streams, stream, histories>>
  <1>1. TypeOK /\ OrderInv /\ [Next]_vars => [A]_vars
    <2> SUFFICES ASSUME TypeOK, OrderInv, Next PROVE A
      OBVIOUS
    <2>1. known \subseteq Ids
      BY DEF TypeOK
    <2>2. \A i \in known \ streams : Untouched(i)
      BY <2>1, ClosedStep
    <2>3. QED BY <2>2, FailedStep DEF Untouched
  <1>2. Spec => [][A]_vars
    BY <1>1, TypeCorrect, OrderCorrect, PTL DEF Spec
  <1>3. QED BY <1>2 DEF ClosedForGood

----------------------------------------------------------------------------
(* Memory.                                                                 *)

UnitsOf(st) == {u \in Ids \X SeqNos : u[2] \in HeldSeqs(st[u[1]])}

Fits(s) ==
  /\ s.bytes = Held(s)
  /\ s.bytes <= MaxStreamBytes
  /\ Len(s.queue) <= MaxFrames
  /\ Cardinality(Buffered(s.window)) <= MaxFrames

Accounted(st, b) ==
  /\ b = Cardinality(UnitsOf(st))
  /\ b <= MaxBytes
  /\ \A i \in Ids : Fits(st[i])

----------------------------------------------------------------------------
(* Counting.                                                               *)

(* The checked invariant is the sum the proofs below follow. *)
LEMMA RetainedIsAccounted == RetainedExactly <=> Accounted(stream, bytes)
  BY DEF RetainedExactly, Accounted, Fits, HeldUnits, UnitsOf

(* A window and a session hold finitely many frames.                       *)
LEMMA UnitsFinite ==
  /\ \A w : IsFiniteSet(Buffered(w)) /\ Cardinality(Buffered(w)) \in Nat
  /\ \A st : IsFiniteSet(UnitsOf(st)) /\ Cardinality(UnitsOf(st)) \in Nat
  <1>1. IsFiniteSet(SeqNos)
    BY FS_Interval, WindowAssumption DEF SeqNos
  <1>2. IsFiniteSet(Ids \X SeqNos)
    BY <1>1, FS_Product, SessionAssumption
  <1>3. \A w : Buffered(w) \in SUBSET SeqNos
    BY DEF Buffered
  <1>4. \A st : UnitsOf(st) \in SUBSET (Ids \X SeqNos)
    BY DEF UnitsOf
  <1>5. QED BY <1>1, <1>2, <1>3, <1>4, FS_Subset, FS_CardinalityType

(* One stream changes and holds the same frames.                           *)
LEMMA ReplaceSame ==
  ASSUME NEW st \in [Ids -> Stream], NEW b, Accounted(st, b), NEW id \in Ids, NEW t,
         HeldSeqs(t) = HeldSeqs(st[id]), Fits(t)
  PROVE  Accounted([st EXCEPT ![id] = t], b)
  <1> DEFINE new == [st EXCEPT ![id] = t]
  <1>1. \A i \in Ids : new[i] = IF i = id THEN t ELSE st[i]
    OBVIOUS
  <1> HIDE DEF new
  <1>2. \A i \in Ids : HeldSeqs(new[i]) = HeldSeqs(st[i])
    BY <1>1
  <1>3. UnitsOf(new) = UnitsOf(st)
    BY <1>2 DEF UnitsOf
  <1>4. Accounted(new, b)
    BY <1>1, <1>3 DEF Accounted
  <1>5. QED BY <1>4 DEF new

(* One stream comes to hold one more frame.                                *)
LEMMA ReplaceAdd ==
  ASSUME NEW st \in [Ids -> Stream], NEW b, Accounted(st, b), b < MaxBytes,
         NEW id \in Ids, NEW t, NEW n \in SeqNos,
         n \notin HeldSeqs(st[id]), HeldSeqs(t) = HeldSeqs(st[id]) \cup {n}, Fits(t)
  PROVE  Accounted([st EXCEPT ![id] = t], b + 1)
  <1> DEFINE new == [st EXCEPT ![id] = t]
  <1>1. \A i \in Ids : new[i] = IF i = id THEN t ELSE st[i]
    OBVIOUS
  <1> HIDE DEF new
  <1>2. UnitsOf(new) = UnitsOf(st) \cup {<<id, n>>}
    BY <1>1 DEF UnitsOf
  <1>3. <<id, n>> \notin UnitsOf(st)
    BY DEF UnitsOf
  <1>4. Cardinality(UnitsOf(new)) = b + 1 /\ b \in Nat
    BY <1>2, <1>3, UnitsFinite, FS_AddElement DEF Accounted
  <1>5. b + 1 <= MaxBytes
    BY <1>4, SessionAssumption
  <1>6. Accounted(new, b + 1)
    BY <1>1, <1>4, <1>5 DEF Accounted
  <1>7. QED BY <1>6 DEF new

(* One stream gives up one frame.                                          *)
LEMMA ReplaceRemove ==
  ASSUME NEW st \in [Ids -> Stream], NEW b, Accounted(st, b),
         NEW id \in Ids, NEW t, NEW n \in SeqNos,
         n \in HeldSeqs(st[id]), HeldSeqs(t) = HeldSeqs(st[id]) \ {n}, Fits(t)
  PROVE  Accounted([st EXCEPT ![id] = t], b - 1)
  <1> DEFINE new == [st EXCEPT ![id] = t]
  <1>1. \A i \in Ids : new[i] = IF i = id THEN t ELSE st[i]
    OBVIOUS
  <1> HIDE DEF new
  <1>2. UnitsOf(new) = UnitsOf(st) \ {<<id, n>>}
    BY <1>1 DEF UnitsOf
  <1>3. <<id, n>> \in UnitsOf(st)
    BY DEF UnitsOf
  <1>4. Cardinality(UnitsOf(new)) = b - 1 /\ b \in Nat
    BY <1>2, <1>3, UnitsFinite, FS_RemoveElement DEF Accounted
  <1>5. b - 1 <= MaxBytes
    BY <1>4, SessionAssumption DEF Accounted
  <1>6. Accounted(new, b - 1)
    BY <1>1, <1>4, <1>5 DEF Accounted
  <1>7. QED BY <1>6 DEF new

(* The frames a stream holds are as many as its window and queue have.     *)
LEMMA HeldCount ==
  ASSUME NEW s \in Stream, NEW d \in Seq(Frame), Numbered(s, d), NEW id \in Ids
  PROVE  /\ IsFiniteSet({id} \X HeldSeqs(s))
         /\ Cardinality({id} \X HeldSeqs(s)) = Held(s)
         /\ HeldSeqs(s) \subseteq SeqNos
  <1> DEFINE q == {s.queue[n].seq : n \in 1..Len(s.queue)}
             w == Buffered(s.window)
  <1>1. PICK m \in Nat : m = Len(d)
    BY LenProperties
  <1>2. s.queue \in Seq(Frame)
    BY DEF Stream
  <1>3. PICK k \in Nat : k = Len(s.queue)
    BY <1>2, LenProperties
  <1>4. q = (m + 1)..(m + k)
    <2>1. \A n \in 1..k : s.queue[n].seq = m + n
      BY <1>1, <1>3 DEF Numbered
    <2>2. \A x \in (m + 1)..(m + k) : x - m \in 1..k /\ m + (x - m) = x
      OBVIOUS
    <2>3. \A n \in 1..k : m + n \in (m + 1)..(m + k)
      OBVIOUS
    <2>4. q = {s.queue[n].seq : n \in 1..k}
      BY <1>3
    <2>5. ASSUME NEW x \in (m + 1)..(m + k) PROVE x \in q
      <3>1. s.queue[x - m].seq = x
        BY <2>1, <2>2
      <3>2. QED BY <2>2, <2>4, <3>1
    <2>6. ASSUME NEW x \in q PROVE x \in (m + 1)..(m + k)
      <3>1. PICK n \in 1..k : x = s.queue[n].seq
        BY <2>4
      <3>2. x = m + n
        BY <2>1, <3>1
      <3>3. QED BY <2>3, <3>2
    <2>7. QED BY <2>5, <2>6
  <1>5. IsFiniteSet(q) /\ Cardinality(q) = k
    <2>1. Cardinality((m + 1)..(m + k)) = k /\ IsFiniteSet((m + 1)..(m + k))
      BY FS_Interval
    <2>2. QED BY <1>4, <2>1
  <1>6. q \cap w = {}
    <2>1. \A n \in w : n \in Nat /\ n >= m + k + 1
      BY <1>1, <1>3 DEF Numbered, Buffered, SeqNos
    <2>2. QED BY <1>4, <2>1
  <1>7. IsFiniteSet(w) /\ Cardinality(w) \in Nat
    BY UnitsFinite
  <1>8. HeldSeqs(s) = w \cup q
    BY DEF HeldSeqs
  <1>9. HeldSeqs(s) \subseteq SeqNos
    <2>1. \A n \in 1..Len(s.queue) : s.queue[n] \in Frame
      BY <1>2, ElementOfSeq
    <2>2. \A n \in 1..Len(s.queue) : s.queue[n].seq \in SeqNos
      BY <2>1 DEF Frame
    <2>3. QED BY <2>2 DEF HeldSeqs, Buffered
  <1>10. IsFiniteSet(HeldSeqs(s)) /\ Cardinality(HeldSeqs(s)) = Held(s)
    <2> HIDE DEF q, w
    <2>1. Cardinality(w \cup q) = Cardinality(w) + Cardinality(q) - Cardinality(w \cap q)
          /\ IsFiniteSet(w \cup q)
      BY <1>5, <1>7, FS_Union
    <2>2. Cardinality(w \cap q) = 0
      BY <1>6, FS_EmptySet
    <2>3. Cardinality(w \cup q) = Cardinality(w) + k
      BY <1>5, <1>7, <2>1, <2>2
    <2>4. QED BY <1>3, <1>8, <2>1, <2>3 DEF Held, w
  <1>11. IsFiniteSet({id}) /\ Cardinality({id}) = 1
    BY FS_Singleton
  <1>12. /\ IsFiniteSet({id} \X HeldSeqs(s))
         /\ Cardinality({id} \X HeldSeqs(s)) = Cardinality({id}) * Cardinality(HeldSeqs(s))
    BY <1>10, <1>11, FS_Product
  <1>13. Held(s) \in Nat
    BY <1>10, FS_CardinalityType
  <1>14. QED BY <1>9, <1>10, <1>11, <1>12, <1>13

(* A stream that opens or is gone holds nothing.                           *)
LEMMA BlankFits ==
  /\ HeldSeqs(NewStream) = {} /\ Fits(NewStream)
  /\ HeldSeqs(OpenedStream) = {} /\ Fits(OpenedStream)
  <1>1. Buffered(NewWindow) = {} /\ Cardinality({}) = 0
    BY OpenedBlank, FS_EmptySet
  <1>2. /\ NewStream.window = NewWindow /\ NewStream.queue = <<>> /\ NewStream.bytes = 0
        /\ OpenedStream.window = NewWindow /\ OpenedStream.queue = <<>>
        /\ OpenedStream.bytes = 0
    BY DEF NewStream, OpenedStream, PausedBy
  <1>3. Len(<<>>) = 0
    OBVIOUS
  <1>4. HeldSeqs(NewStream) = {} /\ HeldSeqs(OpenedStream) = {}
    BY <1>1, <1>2, <1>3 DEF HeldSeqs
  <1>5. Held(NewStream) = 0 /\ Held(OpenedStream) = 0
    <2>1. /\ Cardinality(Buffered(NewStream.window)) = 0 /\ Len(NewStream.queue) = 0
          /\ Cardinality(Buffered(OpenedStream.window)) = 0 /\ Len(OpenedStream.queue) = 0
      BY <1>1, <1>2, <1>3
    <2>2. QED BY <2>1 DEF Held
  <1>6. 0 <= MaxFrames /\ 0 <= MaxStreamBytes
    BY WindowAssumption, SessionAssumption
  <1>7. Fits(NewStream) /\ Fits(OpenedStream)
    BY <1>1, <1>2, <1>3, <1>5, <1>6 DEF Fits
  <1>8. QED BY <1>4, <1>7

(* One stream becomes blank.                                               *)
LEMMA ReplaceBlank ==
  ASSUME NEW st \in [Ids -> Stream], NEW b, Accounted(st, b), NEW id \in Ids,
         NEW d \in Seq(Frame), Numbered(st[id], d)
  PROVE  Accounted([st EXCEPT ![id] = NewStream], b - Held(st[id]))
  <1> DEFINE new == [st EXCEPT ![id] = NewStream]
             own == {id} \X HeldSeqs(st[id])
  <1>1. \A i \in Ids : new[i] = IF i = id THEN NewStream ELSE st[i]
    OBVIOUS
  <1>2. HeldSeqs(NewStream) = {} /\ Fits(NewStream)
    BY BlankFits
  <1>3. /\ IsFiniteSet(own) /\ Cardinality(own) = Held(st[id])
        /\ HeldSeqs(st[id]) \subseteq SeqNos
    BY HeldCount
  <1> HIDE DEF new
  <1>4. UnitsOf(st) = UnitsOf(new) \cup own /\ UnitsOf(new) \cap own = {}
    BY <1>1, <1>2, <1>3 DEF UnitsOf
  <1> HIDE DEF own
  <1>5. Cardinality(UnitsOf(st)) = Cardinality(UnitsOf(new)) + Cardinality(own)
    <2>1. Cardinality(UnitsOf(new) \cap own) = 0
      BY <1>4, FS_EmptySet
    <2>2. Cardinality(UnitsOf(new)) \in Nat /\ Cardinality(own) \in Nat
      BY <1>3, UnitsFinite, FS_CardinalityType
    <2>3. Cardinality(UnitsOf(st)) = Cardinality(UnitsOf(new)) + Cardinality(own)
                                       - Cardinality(UnitsOf(new) \cap own)
      BY <1>3, <1>4, UnitsFinite, FS_Union
    <2>4. QED BY <2>1, <2>2, <2>3
  <1>6. /\ b - Held(st[id]) = Cardinality(UnitsOf(new))
        /\ b - Held(st[id]) <= MaxBytes
    <2>1. Cardinality(UnitsOf(new)) \in Nat /\ Cardinality(own) \in Nat
      BY <1>3, UnitsFinite, FS_CardinalityType
    <2>2. b = Cardinality(UnitsOf(new)) + Cardinality(own) /\ b <= MaxBytes
      BY <1>5 DEF Accounted
    <2>3. QED BY <1>3, <2>1, <2>2, SessionAssumption
  <1>7. Accounted(new, b - Held(st[id]))
    BY <1>1, <1>2, <1>6 DEF Accounted
  <1>8. QED BY <1>7 DEF new
----------------------------------------------------------------------------
(* What the parts of an action that several actions share do to memory.    *)

(* Failing the session gives every byte back. *)
LEMMA FailMemory ==
  ASSUME NEW reason, Fail(reason)
  PROVE  Accounted(stream', bytes')
  <1>1. bytes' = 0 /\ stream' = [i \in Ids |-> NewStream]
    BY DEF Fail
  <1>2. \A i \in Ids : stream'[i] = NewStream
    BY <1>1
  <1>3. UnitsOf(stream') = {}
    BY <1>2, BlankFits DEF UnitsOf
  <1>4. Cardinality(UnitsOf(stream')) = 0
    BY <1>3, FS_EmptySet
  <1>5. QED BY <1>1, <1>2, <1>4, BlankFits, SessionAssumption DEF Accounted

(* deliverOrQueue() when the frame in hand is no longer counted: st is     *)
(* the streams and total the memory without it.                            *)
LEMMA DeliverMemory ==
  ASSUME TypeOK, NEW id \in Ids, NEW s \in Stream, NEW f \in Frame, NEW total,
         Accounted([stream EXCEPT ![id] = s], total),
         Paused(s) => f.seq \notin HeldSeqs(s),
         DeliverOrQueue(id, s, f, total)
  PROVE  Accounted(stream', bytes')
  <1> DEFINE st == [stream EXCEPT ![id] = s]
  <1>1. st \in [Ids -> Stream] /\ st[id] = s /\ Fits(s)
    BY DEF TypeOK, Accounted
  <1>2. CASE Paused(s)
    <2> DEFINE t == [s EXCEPT !.queue = Append(@, f), !.bytes = @ + 1]
    <2>1. /\ Len(s.queue) < MaxFrames /\ s.bytes < MaxStreamBytes /\ total < MaxBytes
          /\ stream' = [stream EXCEPT ![id] = t] /\ bytes' = total + 1
      BY <1>2 DEF DeliverOrQueue, CanReserve
    <2>2. /\ t.queue = Append(s.queue, f) /\ t.window = s.window /\ t.bytes = s.bytes + 1
          /\ s.queue \in Seq(Frame) /\ s.bytes \in Int
      BY DEF Stream
    <2> HIDE DEF t
    <2>3. PICK k \in Nat : k = Len(s.queue)
      BY <2>2, LenProperties
    <2>4. /\ Len(t.queue) = k + 1 /\ t.queue[k + 1] = f
          /\ \A n \in 1..k : t.queue[n] = s.queue[n]
      BY <2>2, <2>3
    <2>5. HeldSeqs(t) = HeldSeqs(s) \cup {f.seq}
      <3>1. 1..(k + 1) = 1..k \cup {k + 1}
        OBVIOUS
      <3>2. {t.queue[n].seq : n \in 1..(k + 1)} = {s.queue[n].seq : n \in 1..k} \cup {f.seq}
        BY <2>4, <3>1
      <3>3. QED BY <2>2, <2>3, <2>4, <3>2 DEF HeldSeqs
    <2>6. Fits(t)
      <3>1. PICK b \in Nat : b = Cardinality(Buffered(s.window))
        BY UnitsFinite
      <3>2. Held(s) = b + k /\ Held(t) = b + (k + 1)
        BY <2>2, <2>3, <2>4, <3>1 DEF Held
      <3>3. s.bytes = b + k /\ b <= MaxFrames
        BY <1>1, <3>1, <3>2 DEF Fits
      <3>4. t.bytes = b + (k + 1) /\ t.bytes <= MaxStreamBytes
        BY <2>1, <2>2, <3>3, SessionAssumption
      <3>5. k + 1 <= MaxFrames
        BY <2>1, <2>3, WindowAssumption
      <3>6. QED BY <2>2, <2>4, <3>1, <3>2, <3>3, <3>4, <3>5 DEF Fits
    <2>7. f.seq \in SeqNos
      BY DEF Frame
    <2>8. [st EXCEPT ![id] = t] = stream'
      BY <2>1 DEF TypeOK
    <2> HIDE DEF st
    <2>9. Accounted([st EXCEPT ![id] = t], total + 1)
      BY <1>1, <1>2, <2>1, <2>5, <2>6, <2>7, ReplaceAdd DEF st
    <2>10. QED BY <2>1, <2>8, <2>9
  <1>3. CASE ~Paused(s)
    <2> DEFINE t == [s EXCEPT !.openType = IF Started(s) THEN @ ELSE f.type,
                              !.ended = (f.type = "FIN")]
    <2>1. stream' = [stream EXCEPT ![id] = t] /\ bytes' = total
      BY <1>3 DEF DeliverOrQueue
    <2>2. t.queue = s.queue /\ t.window = s.window /\ t.bytes = s.bytes
      BY DEF Stream
    <2> HIDE DEF t
    <2>3. HeldSeqs(t) = HeldSeqs(s) /\ Fits(t)
      BY <1>1, <2>2 DEF HeldSeqs, Fits, Held
    <2>4. [st EXCEPT ![id] = t] = stream'
      BY <2>1 DEF TypeOK
    <2>5. Accounted([st EXCEPT ![id] = t], total)
      BY <1>1, <2>3, ReplaceSame
    <2>6. QED BY <2>1, <2>4, <2>5
  <1>4. QED BY <1>2, <1>3

(* drop() releases what the stream holds, frame by frame.                  *)
LEMMA DropMemory ==
  ASSUME TypeOK, OrderInv, Accounted(stream, bytes), NEW id \in streams,
         DropStream(id)
  PROVE  Accounted(stream', bytes')
  <1>1. /\ id \in Ids /\ delivered[id] \in Seq(Frame)
        /\ Numbered(stream[id], delivered[id])
        /\ stream \in [Ids -> Stream]
    BY DEF TypeOK, OrderInv
  <1>2. QED BY <1>1, ReplaceBlank DEF DropStream

(* The frames of an open stream: the queue's come before the window's.     *)
LEMMA HeldApart ==
  ASSUME TypeOK, OrderInv, NEW id \in streams
  PROVE  /\ \A n \in 1..Len(stream[id].queue) :
              /\ stream[id].queue[n].seq < stream[id].window.expected
              /\ stream[id].queue[n].seq \in SeqNos
              /\ \A m \in 1..Len(stream[id].queue) :
                   stream[id].queue[m].seq = stream[id].queue[n].seq => m = n
         /\ Len(stream[id].queue) \in Nat
         /\ \A n \in Buffered(stream[id].window) :
              n \in Nat /\ n >= stream[id].window.expected
         /\ stream[id].window.expected \in Nat
  <1>1. /\ stream[id].queue \in Seq(Frame) /\ delivered[id] \in Seq(Frame)
        /\ stream[id].window \in Window
        /\ Numbered(stream[id], delivered[id])
    BY DEF TypeOK, OrderInv, Stream
  <1>2. PICK d \in Nat : d = Len(delivered[id])
    BY <1>1, LenProperties
  <1>3. PICK k \in Nat : k = Len(stream[id].queue)
    BY <1>1, LenProperties
  <1>4. /\ stream[id].window.expected = d + k + 1
        /\ \A n \in 1..k : stream[id].queue[n].seq = d + n
        /\ \A n \in Buffered(stream[id].window) : n >= stream[id].window.expected
    BY <1>1, <1>2, <1>3 DEF Numbered
  <1>5. \A n \in 1..k : stream[id].queue[n].seq \in SeqNos
    <2>1. \A n \in 1..Len(stream[id].queue) : stream[id].queue[n] \in Frame
      BY <1>1, ElementOfSeq
    <2>2. QED BY <1>3, <2>1 DEF Frame
  <1>6. \A n \in 1..k : /\ stream[id].queue[n].seq < stream[id].window.expected
                        /\ \A m \in 1..k :
                             stream[id].queue[m].seq = stream[id].queue[n].seq => m = n
    BY <1>4
  <1>7. QED BY <1>3, <1>4, <1>5, <1>6 DEF Buffered, SeqNos
----------------------------------------------------------------------------
(* The actions that put a frame in the hand of deliverOrQueue().           *)

(* A frame that opens a stream is accounted for. *)
LEMMA ReceiveOpeningMemory ==
  ASSUME TypeOK, OrderInv, Accounted(stream, bytes), NEW id \in Ids, NEW type,
         IsStart(type), ReceiveOpening(id, type)
  PROVE  Accounted(stream', bytes')
  <1> DEFINE s == [OpenedStream EXCEPT !.window = Advance(@)]
             f == [type |-> type, seq |-> 1]
  <1>1. CASE DeliverOrQueueFails(s, f, bytes)
    BY <1>1, FailMemory DEF DeliverOrQueueFails
  <1>2. CASE DeliverOrQueue(id, s, f, bytes)
    <2>1. id \notin known /\ stream[id] = NewStream /\ stream \in [Ids -> Stream]
      BY DEF ReceiveOpening, OrderInv, Allocation, TypeOK
    <2>2. f \in Frame
      BY WindowAssumption DEF Frame, IsStart, OrderedTypes, SeqNos
    <2>3. OpenedStream \in Stream /\ NewWindow \in Window
      BY OpenedStreamType, NewStreamType DEF NewStream, Stream
    <2>4. s \in Stream
      BY <2>3, OpenedBlank, AdvanceType, SetWindowType, WindowAssumption DEF SeqNos
    <2>5. /\ s.window = Advance(NewWindow) /\ s.queue = OpenedStream.queue
          /\ s.bytes = OpenedStream.bytes
      BY <2>3, OpenedBlank DEF Stream
    <2>6. Buffered(s.window) = Buffered(OpenedStream.window)
      BY <2>3, <2>5, AdvanceBuffered, OpenedBlank
    <2> HIDE DEF s, f
    <2>7. HeldSeqs(s) = {} /\ Fits(s)
      BY <2>5, <2>6, BlankFits DEF HeldSeqs, Fits, Held
    <2>8. Accounted([stream EXCEPT ![id] = s], bytes)
      BY <2>1, <2>7, BlankFits, ReplaceSame
    <2>9. QED BY <1>2, <2>2, <2>4, <2>7, <2>8, DeliverMemory
  <1>3. QED BY <1>1, <1>2 DEF ReceiveOpening

(* An expected frame is charged only while it stays queued. *)
LEMMA ReceiveNextMemory ==
  ASSUME TypeOK, OrderInv, Accounted(stream, bytes), NEW id \in Ids, NEW f \in Frame,
         ReceiveNext(id, f)
  PROVE  Accounted(stream', bytes')
  <1> DEFINE s == [stream[id] EXCEPT !.window = Advance(@)]
  <1>1. CASE DeliverOrQueueFails(s, f, bytes)
    BY <1>1, FailMemory DEF DeliverOrQueueFails
  <1>2. CASE DeliverOrQueue(id, s, f, bytes)
    <2>1. /\ id \in streams /\ f.seq = stream[id].window.expected
          /\ f.seq \in SeqNos /\ f.seq \notin Buffered(stream[id].window)
      BY DEF ReceiveNext, IsNext, IsDuplicate
    <2>2. stream \in [Ids -> Stream] /\ stream[id] \in Stream
          /\ stream[id].window \in Window /\ Fits(stream[id])
      BY DEF TypeOK, Stream, Accounted
    <2>3. s \in Stream
      BY <2>1, <2>2, AdvanceType, SetWindowType
    <2>4. /\ s.window = Advance(stream[id].window) /\ s.queue = stream[id].queue
          /\ s.bytes = stream[id].bytes
      BY <2>2 DEF Stream
    <2>5. Buffered(s.window) = Buffered(stream[id].window)
      BY <2>2, <2>4, AdvanceBuffered
    <2> HIDE DEF s
    <2>6. HeldSeqs(s) = HeldSeqs(stream[id]) /\ Fits(s)
      BY <2>2, <2>4, <2>5 DEF HeldSeqs, Fits, Held
    <2>7. f.seq \notin HeldSeqs(s)
      <3>1. \A n \in 1..Len(stream[id].queue) : stream[id].queue[n].seq # f.seq
        BY <2>1, HeldApart DEF SeqNos
      <3>2. QED BY <2>1, <2>6, <3>1 DEF HeldSeqs
    <2>8. Accounted([stream EXCEPT ![id] = s], bytes)
      BY <2>2, <2>6, ReplaceSame
    <2>9. QED BY <1>2, <2>3, <2>7, <2>8, DeliverMemory
  <1>3. QED BY <1>1, <1>2 DEF ReceiveNext

(* A frame taken from the queue gives its bytes back once. *)
LEMMA DrainQueueMemory ==
  ASSUME TypeOK, OrderInv, Accounted(stream, bytes), NEW id \in Ids, DrainQueue(id)
  PROVE  Accounted(stream', bytes')
  <1> DEFINE q == stream[id].queue
             s == [stream[id] EXCEPT !.queue = Tail(@), !.bytes = @ - 1]
             f == Head(q)
  <1>1. CASE DeliverOrQueueFails(s, f, bytes - 1)
    BY <1>1, FailMemory DEF DeliverOrQueueFails
  <1>2. CASE DeliverOrQueue(id, s, f, bytes - 1)
    <2>1. id \in streams /\ q # <<>> /\ ~Paused(stream[id])
      BY DEF DrainQueue
    <2>2. /\ stream \in [Ids -> Stream] /\ stream[id] \in Stream /\ q \in Seq(Frame)
          /\ stream[id].bytes \in Int /\ Fits(stream[id])
      BY DEF TypeOK, Stream, Accounted
    <2>3. /\ f \in Frame /\ f = q[1] /\ Tail(q) \in Seq(Frame) /\ Len(Tail(q)) = Len(q) - 1
          /\ \A n \in 1..(Len(q) - 1) : Tail(q)[n] = q[n + 1]
      BY <2>1, <2>2, HeadTailProperties
    <2>4. PICK k \in Nat : k = Len(Tail(q)) /\ Len(q) = k + 1
      <3>1. Len(q) \in Nat /\ Len(Tail(q)) \in Nat
        BY <2>2, <2>3, LenProperties
      <3>2. Len(q) = Len(Tail(q)) + 1
        BY <2>3, <3>1
      <3>3. QED BY <3>1, <3>2
    <2>5. /\ s.window = stream[id].window /\ s.queue = Tail(q)
          /\ s.bytes = stream[id].bytes - 1 /\ s.owners = stream[id].owners
      BY <2>2 DEF Stream
    <2>6. stream[id].bytes - 1 \in Int
      BY <2>2
    <2>7. s \in Stream
      BY <2>2, <2>3, <2>6 DEF Stream
    <2> HIDE DEF s
    <2>8. HeldSeqs(s) = HeldSeqs(stream[id]) \ {f.seq} /\ f.seq \in HeldSeqs(stream[id])
      <3> DEFINE all == {q[n].seq : n \in 1..(k + 1)}
                 rest == {q[n + 1].seq : n \in 1..k}
      <3>1. all = {q[1].seq} \cup rest
        <4>1. \A n \in 1..(k + 1) : n = 1 \/ (n - 1 \in 1..k /\ (n - 1) + 1 = n)
          OBVIOUS
        <4>2. 1 \in 1..(k + 1) /\ \A n \in 1..k : n + 1 \in 1..(k + 1)
          OBVIOUS
        <4>3. ASSUME NEW x \in all PROVE x \in {q[1].seq} \cup rest
          <5>1. PICK n \in 1..(k + 1) : x = q[n].seq
            BY <4>3
          <5>2. CASE n = 1
            BY <5>1, <5>2
          <5>3. CASE n - 1 \in 1..k /\ (n - 1) + 1 = n
            BY <5>1, <5>3
          <5>4. QED BY <4>1, <5>2, <5>3
        <4>4. QED BY <4>2, <4>3
      <3>2. q[1].seq \notin rest
        <4>1. \A n \in 1..k : n + 1 \in 1..(k + 1) /\ n + 1 # 1
          OBVIOUS
        <4>2. 1 \in 1..(k + 1)
          OBVIOUS
        <4>3. QED BY <2>1, <2>4, <4>1, <4>2, HeldApart
      <3>3. q[1].seq \notin Buffered(stream[id].window)
        <4>1. 1 \in 1..Len(q)
          BY <2>4
        <4>2. q[1].seq < stream[id].window.expected /\ q[1].seq \in Nat
          BY <2>1, <4>1, HeldApart DEF SeqNos
        <4>3. QED BY <2>1, <4>2, HeldApart
      <3>4. HeldSeqs(stream[id]) = Buffered(stream[id].window) \cup all
        BY <2>4 DEF HeldSeqs
      <3>5. HeldSeqs(s) = Buffered(stream[id].window) \cup rest
        <4>1. {s.queue[n].seq : n \in 1..k} = rest
          BY <2>3, <2>4, <2>5
        <4>2. QED BY <2>4, <2>5, <4>1 DEF HeldSeqs
      <3> HIDE DEF all, rest
      <3>6. QED BY <2>3, <3>1, <3>2, <3>3, <3>4, <3>5
    <2>9. Fits(s)
      <3>1. PICK b \in Nat : b = Cardinality(Buffered(stream[id].window))
        BY UnitsFinite
      <3>2. Held(stream[id]) = b + (k + 1) /\ Held(s) = b + k
        BY <2>4, <2>5, <3>1 DEF Held
      <3>3. stream[id].bytes = b + (k + 1) /\ b <= MaxFrames /\ k + 1 <= MaxFrames
            /\ b + (k + 1) <= MaxStreamBytes
        BY <2>2, <2>4, <3>1, <3>2 DEF Fits
      <3>4. s.bytes = b + k /\ b + k <= MaxStreamBytes /\ k <= MaxFrames
        BY <2>5, <3>3, SessionAssumption, WindowAssumption
      <3>5. QED BY <2>4, <2>5, <3>1, <3>2, <3>3, <3>4 DEF Fits
    <2>10. f.seq \in SeqNos
      BY <2>3 DEF Frame
    <2> HIDE DEF f
    <2>11. Accounted([stream EXCEPT ![id] = s], bytes - 1)
      BY <2>2, <2>8, <2>9, <2>10, ReplaceRemove
    <2>12. ~Paused(s)
      BY <2>1, <2>5 DEF Paused
    <2>13. QED BY <1>2, <2>3, <2>7, <2>11, <2>12, DeliverMemory
  <1>3. QED BY <1>1, <1>2 DEF DrainQueue

(* A frame taken from the window gives its bytes back once, or is charged to the queue it
   moves to. *)
LEMMA DrainWindowMemory ==
  ASSUME TypeOK, OrderInv, Accounted(stream, bytes), NEW id \in Ids, DrainWindow(id)
  PROVE  Accounted(stream', bytes')
  <1> DEFINE w == stream[id].window
             s == [stream[id] EXCEPT !.window = Take(@), !.bytes = @ - 1]
             f == [type |-> w.buffer[w.expected], seq |-> w.expected]
  <1>1. CASE DeliverOrQueueFails(s, f, bytes - 1)
    BY <1>1, FailMemory DEF DeliverOrQueueFails
  <1>2. CASE DeliverOrQueue(id, s, f, bytes - 1)
    <2>1. id \in streams /\ CanTake(w)
      BY DEF DrainWindow
    <2>2. /\ stream \in [Ids -> Stream] /\ stream[id] \in Stream /\ w \in Window
          /\ stream[id].bytes \in Int /\ Fits(stream[id])
          /\ stream[id].queue \in Seq(Frame)
      BY DEF TypeOK, Stream, Accounted
    <2>3. Take(w) \in Window /\ f \in Frame /\ f.seq = w.expected /\ f.seq \in SeqNos
      BY <2>1, <2>2, TakeType DEF Frame
    <2>4. /\ s.window = Take(w) /\ s.queue = stream[id].queue
          /\ s.bytes = stream[id].bytes - 1
      BY <2>2 DEF Stream
    <2>5. Buffered(s.window) = Buffered(w) \ {w.expected} /\ w.expected \in Buffered(w)
      BY <2>1, <2>2, <2>4, TakeBuffered DEF CanTake
    <2>6. s \in Stream
      <3>1. s = [[stream[id] EXCEPT !.window = Take(w)] EXCEPT !.bytes = stream[id].bytes - 1]
        BY <2>2 DEF Stream
      <3>2. stream[id].bytes - 1 \in Int
        BY <2>2
      <3>3. QED BY <2>2, <2>3, <3>1, <3>2, SetWindowType, SetBytesType
    <2> HIDE DEF s
    <2>7. \A n \in 1..Len(stream[id].queue) : stream[id].queue[n].seq # w.expected
      BY <2>1, HeldApart DEF SeqNos
    <2>8. /\ HeldSeqs(s) = HeldSeqs(stream[id]) \ {w.expected}
          /\ w.expected \in HeldSeqs(stream[id])
      BY <2>4, <2>5, <2>7 DEF HeldSeqs
    <2>9. Fits(s)
      <3>1. PICK b \in Nat : b = Cardinality(Buffered(w))
        BY UnitsFinite
      <3>2. PICK k \in Nat : k = Len(stream[id].queue)
        BY <2>2, LenProperties
      <3>3. Cardinality(Buffered(s.window)) = b - 1
        <4>1. IsFiniteSet(Buffered(w))
          BY UnitsFinite
        <4>2. Cardinality(Buffered(w) \ {w.expected}) = Cardinality(Buffered(w)) - 1
          <5> DEFINE S == Buffered(w)
                     x == w.expected
          <5>1. x \in S /\ IsFiniteSet(S)
            BY <2>5, <4>1
          <5> HIDE DEF S, x
          <5>2. Cardinality(S \ {x}) = Cardinality(S) - 1
            BY <5>1, FS_RemoveElement
          <5>3. QED BY <5>2 DEF S, x
        <4>3. QED BY <2>5, <3>1, <4>2
      <3>4. Held(stream[id]) = b + k /\ Held(s) = (b - 1) + k
        BY <2>4, <3>1, <3>2, <3>3 DEF Held
      <3>5. stream[id].bytes = b + k /\ b <= MaxFrames /\ k <= MaxFrames
            /\ b + k <= MaxStreamBytes
        BY <2>2, <3>1, <3>2, <3>4 DEF Fits
      <3>6. s.bytes = (b - 1) + k /\ s.bytes <= MaxStreamBytes /\ b - 1 <= MaxFrames
        BY <2>4, <3>5, SessionAssumption, WindowAssumption
      <3>7. QED BY <2>4, <3>2, <3>3, <3>4, <3>5, <3>6 DEF Fits
    <2> HIDE DEF f
    <2>10. Accounted([stream EXCEPT ![id] = s], bytes - 1)
      BY <2>2, <2>3, <2>8, <2>9, ReplaceRemove
    <2>11. f.seq \notin HeldSeqs(s)
      BY <2>3, <2>8
    <2>12. QED BY <1>2, <2>3, <2>6, <2>10, <2>11, DeliverMemory
  <1>3. QED BY <1>1, <1>2 DEF DrainWindow

----------------------------------------------------------------------------
(* The actions that hand nothing over.                                     *)

(* A frame kept in the window is charged once, a duplicate not at all. *)
LEMMA ReceiveAheadMemory ==
  ASSUME TypeOK, OrderInv, Accounted(stream, bytes), NEW id \in Ids, NEW f,
         f.type \in OrderedTypes, ReceiveAhead(id, f)
  PROVE  Accounted(stream', bytes')
  <1> DEFINE w == stream[id].window
             s == [stream[id] EXCEPT !.window = Keep(@, f.seq, f.type), !.bytes = @ + 1]
  <1>1. /\ id \in streams /\ f.seq \in SeqNos /\ f.seq > w.expected
        /\ f.seq \notin Buffered(w)
        /\ Cardinality(Buffered(w)) < MaxFrames
        /\ stream[id].bytes < MaxStreamBytes /\ bytes < MaxBytes
        /\ stream' = [stream EXCEPT ![id] = s] /\ bytes' = bytes + 1
    <2>1. /\ id \in streams /\ IsAhead(w, f.seq)
          /\ ~Overflows(w, f.seq, CanReserve(stream[id], bytes))
          /\ stream' = [stream EXCEPT ![id] = s] /\ bytes' = bytes + 1
      BY DEF ReceiveAhead
    <2>2. Cardinality(Buffered(w)) \in Nat /\ MaxFrames \in Nat
      BY UnitsFinite, WindowAssumption
    <2>3. ~(Cardinality(Buffered(w)) >= MaxFrames)
          /\ CanReserve(stream[id], bytes)
      BY <2>1 DEF Overflows
    <2>4. Cardinality(Buffered(w)) < MaxFrames
      BY <2>2, <2>3
    <2>5. QED BY <2>1, <2>3, <2>4 DEF IsAhead, IsDuplicate, CanReserve
  <1>2. /\ stream \in [Ids -> Stream] /\ stream[id] \in Stream /\ w \in Window
        /\ stream[id].bytes \in Int /\ Fits(stream[id])
        /\ stream[id].queue \in Seq(Frame)
    BY DEF TypeOK, Stream, Accounted
  <1>3. /\ s.window = Keep(w, f.seq, f.type) /\ s.queue = stream[id].queue
        /\ s.bytes = stream[id].bytes + 1
    BY <1>2 DEF Stream
  <1>4. Buffered(s.window) = Buffered(w) \cup {f.seq}
    BY <1>1, <1>2, <1>3, KeepBuffered
  <1>5. \A n \in 1..Len(stream[id].queue) : stream[id].queue[n].seq # f.seq
    BY <1>1, HeldApart DEF SeqNos
  <1> HIDE DEF s
  <1>6. /\ HeldSeqs(s) = HeldSeqs(stream[id]) \cup {f.seq}
        /\ f.seq \notin HeldSeqs(stream[id])
    BY <1>1, <1>3, <1>4, <1>5 DEF HeldSeqs
  <1>7. Fits(s)
    <2>1. PICK b \in Nat : b = Cardinality(Buffered(w))
      BY UnitsFinite
    <2>2. PICK k \in Nat : k = Len(stream[id].queue)
      BY <1>2, LenProperties
    <2>3. Cardinality(Buffered(s.window)) = b + 1
      BY <1>1, <1>4, <2>1, UnitsFinite, FS_AddElement
    <2>4. Held(stream[id]) = b + k /\ Held(s) = (b + 1) + k
      BY <1>3, <2>1, <2>2, <2>3 DEF Held
    <2>5. stream[id].bytes = b + k /\ k <= MaxFrames
      BY <1>2, <2>2, <2>4 DEF Fits
    <2>6. s.bytes = (b + 1) + k /\ s.bytes <= MaxStreamBytes
      BY <1>1, <1>3, <2>5, SessionAssumption
    <2>7. b + 1 <= MaxFrames
      BY <1>1, <2>1, WindowAssumption
    <2>8. QED BY <1>3, <2>2, <2>3, <2>4, <2>5, <2>6, <2>7 DEF Fits
  <1>8. Accounted([stream EXCEPT ![id] = s], bytes + 1)
    BY <1>1, <1>2, <1>6, <1>7, ReplaceAdd
  <1>9. QED BY <1>1, <1>8

(* A stream opens, or changes what it has sent.                            *)
LEMMA SendOrderedMemory ==
  ASSUME TypeOK, OrderInv, Accounted(stream, bytes), NEW id \in Ids, NEW type, NEW err,
         SendOrdered(id, type, err)
  PROVE  Accounted(stream', bytes')
  <1> DEFINE s == SendState(id)
             out == [s EXCEPT !.outStarted = TRUE,
                              !.outEnded = (type = "FIN"),
                              !.outErrorStatus = IF ~Initiator /\ type = "HEADERS"
                                                 THEN err ELSE @,
                              !.seq = @ + 1]
  <1>1. CASE ~Initiator /\ type = "FIN" /\ DropStream(id)
    BY <1>1, DropMemory DEF SendOrdered, OpensBySending
  <1>2. CASE stream' = [stream EXCEPT ![id] = out] /\ bytes' = bytes
    <2>1. s \in Stream /\ stream \in [Ids -> Stream]
      BY OpenedStreamType DEF SendState, TypeOK
    <2>2. HeldSeqs(s) = HeldSeqs(stream[id]) /\ Fits(s)
      BY BlankFits DEF SendState, Accounted, OrderInv
    <2> HIDE DEF s
    <2>3. out.window = s.window /\ out.queue = s.queue /\ out.bytes = s.bytes
      BY <2>1 DEF Stream
    <2> HIDE DEF out
    <2>4. HeldSeqs(out) = HeldSeqs(stream[id]) /\ Fits(out)
      BY <2>2, <2>3 DEF HeldSeqs, Fits, Held
    <2>5. QED BY <1>2, <2>1, <2>4, ReplaceSame
  <1>3. QED BY <1>1, <1>2 DEF SendOrdered

(* A pause or a resume moves no frame.                                     *)
LEMMA PauseMemory ==
  ASSUME TypeOK, Accounted(stream, bytes), NEW owner, NEW ids \in SUBSET Ids,
         PauseAs(owner, ids) \/ ResumeAs(owner, ids)
  PROVE  Accounted(stream', bytes')
  <1>1. ASSUME NEW i \in Ids
        PROVE  /\ stream'[i].window = stream[i].window
               /\ stream'[i].queue = stream[i].queue
               /\ stream'[i].bytes = stream[i].bytes
    <2>1. \/ stream'[i] = IF i \in ids THEN PausedBy(stream[i], owner) ELSE stream[i]
          \/ stream'[i] = IF i \in ids THEN ResumedBy(stream[i], owner) ELSE stream[i]
      BY DEF PauseAs, ResumeAs
    <2>2. stream[i] \in Stream
      BY DEF TypeOK
    <2>3. QED BY <2>1, <2>2 DEF PausedBy, ResumedBy, Stream
  <1>2. bytes' = bytes
    BY DEF PauseAs, ResumeAs
  <1>3. \A i \in Ids : HeldSeqs(stream'[i]) = HeldSeqs(stream[i]) /\ Fits(stream'[i])
    BY <1>1 DEF HeldSeqs, Fits, Held, Accounted
  <1>4. UnitsOf(stream') = UnitsOf(stream)
    BY <1>3 DEF UnitsOf
  <1>5. QED BY <1>2, <1>3, <1>4 DEF Accounted

(* Every other call on a stream leaves the account right. *)
LEMMA CallsMemory ==
  ASSUME TypeOK, OrderInv, Accounted(stream, bytes), NEW id \in Ids, StreamCalls(id)
  PROVE  Accounted(stream', bytes')
  <1>1. CASE Open(id)
    <2>1. stream[id] = NewStream /\ stream \in [Ids -> Stream]
      BY <1>1 DEF Open, OrderInv, TypeOK
    <2>2. CASE stream' = [stream EXCEPT ![id] = OpenedStream] /\ bytes' = bytes
      BY <2>1, <2>2, BlankFits, ReplaceSame
    <2>3. QED BY <1>1, <2>2, FailMemory DEF Open
  <1>2. CASE Drop(id)
    BY <1>2, DropMemory DEF Drop
  <1>3. CASE Pause(id) \/ Resume(id)
    BY <1>3, PauseMemory DEF Pause, Resume, TypeOK
  <1>4. QED BY <1>1, <1>2, <1>3 DEF StreamCalls

----------------------------------------------------------------------------
(* Nothing is held at the start. *)
LEMMA MemoryInit == Init => Accounted(stream, bytes)
  <1> SUFFICES ASSUME Init PROVE Accounted(stream, bytes)
    OBVIOUS
  <1>1. bytes = 0 /\ \A i \in Ids : stream[i] = NewStream
    BY DEF Init
  <1>2. UnitsOf(stream) = {}
    BY <1>1, BlankFits DEF UnitsOf
  <1>3. Cardinality(UnitsOf(stream)) = 0
    BY <1>2, FS_EmptySet
  <1>4. QED BY <1>1, <1>3, BlankFits, SessionAssumption DEF Accounted

(* Every step leaves the account right. *)
LEMMA MemoryStep ==
  TypeOK /\ OrderInv /\ Accounted(stream, bytes) /\ [Next]_vars
    => Accounted(stream', bytes')
  <1> SUFFICES ASSUME TypeOK, OrderInv, Accounted(stream, bytes), [Next]_vars
               PROVE  Accounted(stream', bytes')
    OBVIOUS
  <1>1. ASSUME NEW f \in InboundFrames, Receive(f) PROVE Accounted(stream', bytes')
    <2>1. CASE IsStart(f.type) /\ ReceiveOpening(f.id, f.type)
      BY <2>1, InboundFrameType, ReceiveOpeningMemory
    <2>2. CASE f.type \in OrderedTypes
               /\ ReceiveNext(f.id, [type |-> f.type, seq |-> f.seq])
      <3>1. [type |-> f.type, seq |-> f.seq] \in Frame
        BY <2>2 DEF ReceiveNext, IsNext, Frame
      <3>2. QED BY <2>2, <3>1, InboundFrameType, ReceiveNextMemory
    <2>3. CASE f.type \in OrderedTypes
               /\ ReceiveAhead(f.id, [type |-> f.type, seq |-> f.seq])
      BY <2>3, InboundFrameType, ReceiveAheadMemory
    <2>4. CASE ReceiveCancellation(f.id)
      BY <2>4, DropMemory, FailMemory DEF ReceiveCancellation
    <2>5. CASE ReceiveFatal(f)
      BY <2>5, FailMemory DEF ReceiveFatal
    <2>6. QED BY <1>1, <2>1, <2>2, <2>3, <2>4, <2>5 DEF Receive
  <1>2. ASSUME NEW id \in Ids, Sends(id) PROVE Accounted(stream', bytes')
    <2>1. CASE SendCancellation(id)
      BY <2>1, DropMemory DEF SendCancellation
    <2>2. ASSUME NEW type \in OrderedTypes, SendFails(id, type)
          PROVE  Accounted(stream', bytes')
      BY <2>2, FailMemory DEF SendFails
    <2>3. QED BY <1>2, <2>1, <2>2, SendOrderedMemory DEF Sends
  <1>3. CASE SessionCalls
    BY <1>3, PauseMemory, FailMemory DEF SessionCalls, PauseAll, ResumeAll, OwnerFails,
       TypeOK
  <1>4. ASSUME NEW id \in Ids, Drain(id) PROVE Accounted(stream', bytes')
    <2>1. CASE DrainEnd(id)
      BY <2>1 DEF DrainEnd
    <2>2. QED BY <1>4, <2>1, DrainQueueMemory, DrainWindowMemory DEF Drain
  <1>5. ASSUME NEW id \in Ids, GapTimeout(id) \/ FlowTimeout(id)
        PROVE  Accounted(stream', bytes')
    BY <1>5, FailMemory DEF GapTimeout, FlowTimeout
  <1>6. CASE UNCHANGED vars
    BY <1>6 DEF vars
  <1>7. QED BY <1>1, <1>2, <1>3, <1>4, <1>5, <1>6, CallsMemory DEF Next, Internal

(* The counters of a session and its streams equal what is retained and    *)
(* stay within the limits: no interleaving of reserve, release, requeueing *)
(* and drop leaks a unit or frees it twice.                                *)
THEOREM RetainedExactlyCorrect == Spec => []RetainedExactly
  <1>1. Init => RetainedExactly
    BY MemoryInit, RetainedIsAccounted
  <1>2. TypeOK /\ OrderInv /\ RetainedExactly /\ [Next]_vars => RetainedExactly'
    <2>1. RetainedExactly' <=> Accounted(stream', bytes')
      BY DEF RetainedExactly, Accounted, Fits, HeldUnits, UnitsOf
    <2>2. QED BY <2>1, MemoryStep, RetainedIsAccounted
  <1>3. QED BY <1>1, <1>2, TypeCorrect, OrderCorrect, PTL DEF Spec
=============================================================================
