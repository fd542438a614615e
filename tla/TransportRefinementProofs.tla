--------------------- MODULE TransportRefinementProofs ---------------------
(***************************************************************************)
(* TransportSession implements OrderedDelivery, for every value of the     *)
(* constants.  OrderInv numbers what is handed over; that it begins with   *)
(* one start frame and that nothing follows FIN rests on openType and      *)
(* ended, which BegunInv ties to the log.  Every step is one of five kinds *)
(* for the consumer: the session aborts, a stream opens, closes or is      *)
(* handed a frame, or nothing happens.                                     *)
(*                                                                         *)
(* The second half is about the peer.  OutputInv ties what an end has said *)
(* to the state it keeps, so that what it says has the shape its peer      *)
(* expects; and an end whose peer keeps to that shape holds only what the  *)
(* peer said and finds no breach of the protocol in it; it gives up on a   *)
(* frame that overtook its opening, and then that opening was never taken. *)
(* SessionPairProofs.tla joins two such ends.                              *)
(***************************************************************************)
EXTENDS TransportSessionProofs

Has(log, type) == \E n \in 1..Len(log) : log[n].type = type

Begun(s, d) ==
  /\ Started(s) <=> d # <<>>
  /\ Started(s) => s.openType = d[1].type
  /\ s.ended <=> Has(d, "FIN")

BegunInv == \A i \in streams : Begun(stream[i], delivered[i])

PromisedStep == Promise!ANext \/ UNCHANGED Promise!absVars

----------------------------------------------------------------------------
(* The five kinds of step.                                                 *)

(* fail(): every stream is closed and the session has aborted.             *)
LEMMA AbortStep ==
  ASSUME Alive, NEW reason \in FailureReasons, Fail(reason), UNCHANGED histories
  PROVE  BegunInv' /\ PromisedStep
  <1>1. streams' = {} /\ delivered' = delivered /\ ~Alive'
    BY DEF Fail, Alive, FailureReasons, histories
  <1>2. BegunInv'
    BY <1>1 DEF BegunInv
  <1>3. \A i \in Ids : Phase(i)' = "closed"
    BY <1>1 DEF Phase
  <1>4. Promise!AAbort
    BY <1>1, <1>3 DEF Promise!AAbort
  <1>5. QED BY <1>2, <1>4 DEF PromisedStep, Promise!ANext

(* Nothing the consumer is promised anything about changes.                *)
LEMMA StillStep ==
  ASSUME TypeOK, BegunInv, UNCHANGED <<failure, streams, known, delivered>>,
         \A i \in streams : /\ stream'[i].openType = stream[i].openType
                            /\ stream'[i].ended = stream[i].ended
  PROVE  BegunInv' /\ PromisedStep
  <1>1. BegunInv'
    BY DEF BegunInv, Begun, Started
  <1>2. \A i \in Ids : Phase(i)' = Phase(i)
    BY DEF Phase, Alive
  <1>3. Alive' = Alive
    BY DEF Alive
  <1>4. UNCHANGED Promise!absVars
    BY <1>2, <1>3 DEF Promise!absVars
  <1>5. QED BY <1>1, <1>4 DEF PromisedStep

(* A stream opens before anything was handed over on it.                   *)
LEMMA OpeningStep ==
  ASSUME TypeOK, OrderInv, BegunInv, Alive, NEW id \in Ids, NEW s, id \notin known,
         s.openType = NoFrame, ~s.ended,
         streams' = streams \cup {id}, known' = known \cup {id},
         stream' = [stream EXCEPT ![id] = s], UNCHANGED <<failure, delivered>>
  PROVE  BegunInv' /\ PromisedStep
  <1>1. stream'[id] = s /\ \A i \in Ids \ {id} : stream'[i] = stream[i]
    BY DEF TypeOK
  <1>2. id \notin streams /\ delivered[id] = <<>>
    BY DEF OrderInv, Allocation
  <1>3. Begun(s, <<>>)
    BY DEF Begun, Started, Has
  <1>4. BegunInv'
    BY <1>1, <1>2, <1>3 DEF BegunInv, Begun, Started, TypeOK
  <1>5. Alive' = Alive
    BY DEF Alive
  <1>6. Phase(id) = "unused" /\ Phase(id)' = "open"
    BY <1>2, <1>5 DEF Phase
  <1>7. \A i \in Ids \ {id} : Phase(i)' = Phase(i)
    BY <1>5 DEF Phase
  <1>8. [i \in Ids |-> Phase(i)]' = [[i \in Ids |-> Phase(i)] EXCEPT ![id] = "open"]
    BY <1>6, <1>7
  <1>9. Promise!AOpen(id)
    BY <1>5, <1>6, <1>8 DEF Promise!AOpen
  <1>10. QED BY <1>4, <1>9 DEF PromisedStep, Promise!ANext

(* drop(): one stream is closed, its log is complete.                      *)
LEMMA ClosingStep ==
  ASSUME TypeOK, OrderInv, BegunInv, NEW id \in streams, DropStream(id),
         delivered' = delivered
  PROVE  BegunInv' /\ PromisedStep
  <1>1. /\ \A i \in Ids \ {id} : stream'[i] = stream[i]
        /\ streams' = streams \ {id} /\ known' = known /\ failure' = failure
    BY DEF DropStream, TypeOK
  <1>2. id \in Ids /\ id \in known /\ Alive
    BY DEF OrderInv, Allocation, TypeOK
  <1>3. BegunInv'
    BY <1>1 DEF BegunInv, Begun, Started, TypeOK
  <1>4. Alive' = Alive
    BY <1>1 DEF Alive
  <1>5. Phase(id) = "open" /\ Phase(id)' = "closed"
    BY <1>1, <1>2, <1>4 DEF Phase
  <1>6. \A i \in Ids \ {id} : Phase(i)' = Phase(i)
    BY <1>1, <1>4 DEF Phase
  <1>7. [i \in Ids |-> Phase(i)]' = [[i \in Ids |-> Phase(i)] EXCEPT ![id] = "closed"]
    BY <1>5, <1>6
  <1>8. Promise!AClose(id)
    BY <1>2, <1>4, <1>5, <1>7 DEF Promise!AClose
  <1>9. QED BY <1>2, <1>3, <1>8 DEF PromisedStep, Promise!ANext

(* deliverOrQueue(): the frame is the next of its stream, or it is queued. *)
LEMMA DeliveryStep ==
  ASSUME TypeOK, OrderInv, OrderInv', BegunInv, Alive,
         NEW id \in Ids, NEW s, NEW f \in Frame, NEW total,
         Begun(s, delivered[id]), s \in Stream,
         id \in streams \/ id \notin known,
         DeliverOrQueue(id, s, f, total),
         streams' = streams \cup {id}, known' = known \cup {id}
  PROVE  BegunInv' /\ PromisedStep
  <1> DEFINE d == delivered[id]
  <1>1. /\ failure' = failure /\ Alive' = Alive
        /\ d \in Seq(Frame) /\ f.type \in OrderedTypes
    BY DEF DeliverOrQueue, Alive, TypeOK, Frame
  <1>2. Phase(id)' = "open" /\ Phase(id) # "closed"
        /\ \A i \in Ids \ {id} : Phase(i)' = Phase(i)
    BY <1>1 DEF Phase, OrderInv, Allocation
  <1>3. [i \in Ids |-> Phase(i)]' = [[i \in Ids |-> Phase(i)] EXCEPT ![id] = "open"]
    BY <1>2
  <1>4. CASE Paused(s)
    <2> DEFINE t == [s EXCEPT !.queue = Append(@, f), !.bytes = @ + 1]
    <2>1. stream' = [stream EXCEPT ![id] = t] /\ delivered' = delivered
      BY <1>4 DEF DeliverOrQueue, histories
    <2>2. t.openType = s.openType /\ t.ended = s.ended
      BY DEF Stream
    <2> HIDE DEF t
    <2>3. /\ stream'[id] = t
          /\ \A i \in Ids \ {id} : stream'[i] = stream[i]
      BY <2>1 DEF TypeOK
    <2>4. BegunInv'
      BY <2>1, <2>2, <2>3 DEF BegunInv, Begun, Started, TypeOK
    <2>5. CASE id \in streams
      <3>1. Phase(id) = "open"
        BY <2>5 DEF Phase
      <3>2. UNCHANGED Promise!absVars
        BY <1>1, <1>2, <2>1, <3>1 DEF Promise!absVars
      <3>3. QED BY <2>4, <3>2 DEF PromisedStep
    <2>6. CASE id \notin streams
      <3>1. Phase(id) = "unused"
        BY <2>6 DEF Phase
      <3>2. Promise!AOpen(id)
        BY <1>1, <1>3, <2>1, <3>1 DEF Promise!AOpen
      <3>3. QED BY <2>4, <3>2 DEF PromisedStep, Promise!ANext
    <2>7. QED BY <2>5, <2>6
  <1>5. CASE ~Paused(s)
    <2> DEFINE t == [s EXCEPT !.openType = IF Started(s) THEN @ ELSE f.type,
                              !.ended = (f.type = "FIN")]
    <2>1. /\ stream' = [stream EXCEPT ![id] = t]
          /\ delivered' = [delivered EXCEPT ![id] = Append(d, f)]
          /\ ~OutOfOrder(s, f)
      BY <1>5 DEF DeliverOrQueue
    <2>2. /\ t.openType = IF Started(s) THEN s.openType ELSE f.type
          /\ t.ended <=> f.type = "FIN"
      BY DEF Stream
    <2> HIDE DEF t
    <2>3. /\ stream'[id] = t /\ delivered'[id] = Append(d, f)
          /\ \A i \in Ids \ {id} : stream'[i] = stream[i] /\ delivered'[i] = delivered[i]
      BY <2>1 DEF TypeOK
    <2>4. /\ Len(Append(d, f)) = Len(d) + 1 /\ Len(d) \in Nat
          /\ Append(d, f)[Len(d) + 1] = f
          /\ \A n \in 1..Len(d) : Append(d, f)[n] = d[n]
          /\ Append(d, f) # <<>>
      BY <1>1
    <2>5. /\ ~s.ended
          /\ \A n \in 1..Len(d) : d[n].type # "FIN"
          /\ Started(s) <=> ~IsStart(f.type)
      BY <2>1 DEF OutOfOrder, Begun, Has
    <2>6. f.type # NoFrame
      BY <1>1 DEF OrderedTypes, StartTypes, NoFrame
    <2>7. Begun(t, Append(d, f))
      <3>1. Started(t)
        BY <2>2, <2>6 DEF Started
      <3>2. t.openType = Append(d, f)[1].type
        <4>1. CASE Started(s)
          <5>1. d # <<>> /\ s.openType = d[1].type
            BY <4>1 DEF Begun
          <5>2. 1 \in 1..Len(d)
            BY <1>1, <5>1
          <5> HIDE DEF d
          <5>3. QED BY <2>2, <2>4, <4>1, <5>1, <5>2
        <4>2. CASE ~Started(s)
          <5>1. d = <<>>
            BY <4>2 DEF Begun
          <5>2. Len(d) = 0
            BY <5>1
          <5> HIDE DEF d
          <5>3. QED BY <2>2, <2>4, <4>2, <5>2
        <4>3. QED BY <4>1, <4>2
      <3>3. t.ended => Has(Append(d, f), "FIN")
        BY <2>2, <2>4 DEF Has
      <3>4. ASSUME NEW n \in 1..Len(Append(d, f)), Append(d, f)[n].type = "FIN"
            PROVE  t.ended
        <4>1. n \notin 1..Len(d)
          BY <2>4, <2>5, <3>4
        <4>2. n = Len(d) + 1
          BY <2>4, <4>1
        <4> HIDE DEF d
        <4>3. QED BY <2>2, <2>4, <3>4, <4>2
      <3>5. QED BY <2>4, <3>1, <3>2, <3>3, <3>4 DEF Begun, Has
    <2>8. BegunInv'
      BY <2>3, <2>7 DEF BegunInv, Begun, Started, TypeOK
    <2>9. f = [type |-> f.type, seq |-> Len(d) + 1]
      <3>1. LogNumbered(Append(d, f))
        BY <2>3 DEF OrderInv, LogNumbered
      <3>2. f.seq = Len(d) + 1
        <4> HIDE DEF d
        <4> QED BY <2>4, <3>1 DEF LogNumbered
      <3>3. QED BY <3>2 DEF Frame
    <2>10. Promise!Follows(d, f.type)
      BY <2>5 DEF Promise!Follows, Promise!Starts, IsStart, StartTypes, Begun
    <2>11. Promise!ADeliver(id, f.type)
      BY <1>1, <1>2, <1>3, <2>1, <2>9, <2>10 DEF Promise!ADeliver
    <2>12. f.type \in Promise!Starts \cup {"DATA", "FIN"}
      BY <1>1 DEF OrderedTypes, StartTypes, Promise!Starts
    <2>13. QED BY <2>8, <2>11, <2>12 DEF PromisedStep, Promise!ANext
  <1>6. QED BY <1>4, <1>5

(* A delivery that fails the session keeps the promise. *)
LEMMA DeliveryFailsStep ==
  ASSUME Alive, NEW s, NEW f, NEW total, DeliverOrQueueFails(s, f, total)
  PROVE  BegunInv' /\ PromisedStep
  BY AbortStep DEF DeliverOrQueueFails, FailureReasons

----------------------------------------------------------------------------
(* Which kind of step each action is.                                      *)

(* Receiving a frame is a step or a stutter of the promised order. *)
LEMMA ReceivePromised ==
  ASSUME TypeOK, OrderInv, OrderInv', BegunInv, NEW f \in InboundFrames, Receive(f)
  PROVE  BegunInv' /\ PromisedStep
  <1>1. CASE IsStart(f.type) /\ ReceiveOpening(f.id, f.type)
    <2> DEFINE s == [OpenedStream EXCEPT !.window = Advance(@)]
               g == [type |-> f.type, seq |-> 1]
    <2>1. Alive /\ f.id \in Ids /\ f.id \notin known
      BY <1>1, InboundFrameType DEF ReceiveOpening
    <2>2. CASE DeliverOrQueueFails(s, g, bytes)
      BY <2>1, <2>2, DeliveryFailsStep
    <2>3. CASE /\ DeliverOrQueue(f.id, s, g, bytes)
               /\ streams' = streams \cup {f.id} /\ known' = known \cup {f.id}
      <3>1. g \in Frame
        BY <1>1, WindowAssumption DEF Frame, IsStart, OrderedTypes, SeqNos
      <3>2. OpenedStream \in Stream /\ NewWindow \in Window
        BY OpenedStreamType, NewStreamType DEF NewStream, Stream
      <3>3. s \in Stream
        BY <3>2, OpenedBlank, AdvanceType, SetWindowType, WindowAssumption DEF SeqNos
      <3>4. s.openType = NoFrame /\ ~s.ended
        BY <3>2 DEF OpenedStream, PausedBy, NewStream, Stream
      <3>5. delivered[f.id] = <<>>
        BY <2>1 DEF OrderInv, Allocation
      <3> HIDE DEF s, g
      <3>6. Begun(s, delivered[f.id])
        BY <3>4, <3>5 DEF Begun, Started, Has
      <3>7. QED BY <2>1, <2>3, <3>1, <3>3, <3>6, DeliveryStep
    <2>4. QED BY <1>1, <2>2, <2>3 DEF ReceiveOpening
  <1>2. CASE f.type \in OrderedTypes
             /\ ReceiveNext(f.id, [type |-> f.type, seq |-> f.seq])
    <2> DEFINE s == [stream[f.id] EXCEPT !.window = Advance(@)]
               g == [type |-> f.type, seq |-> f.seq]
    <2>1. /\ Alive /\ f.id \in Ids /\ f.id \in streams /\ f.id \in known
          /\ IsNext(stream[f.id].window, f.seq)
      BY <1>2, InboundFrameType DEF ReceiveNext, OrderInv, Allocation
    <2>2. CASE DeliverOrQueueFails(s, g, bytes)
      BY <2>1, <2>2, DeliveryFailsStep
    <2>3. CASE DeliverOrQueue(f.id, s, g, bytes) /\ UNCHANGED <<streams, known>>
      <3>1. /\ g \in Frame
            /\ stream[f.id] \in Stream /\ stream[f.id].window \in Window
            /\ stream[f.id].window.expected \in SeqNos
        BY <1>2, <2>1 DEF Frame, IsNext, TypeOK, Stream
      <3>2. s \in Stream
        BY <3>1, AdvanceType, SetWindowType
      <3>3. s.openType = stream[f.id].openType /\ s.ended = stream[f.id].ended
        BY <3>1 DEF Stream
      <3> HIDE DEF s, g
      <3>4. Begun(s, delivered[f.id])
        BY <2>1, <3>3 DEF BegunInv, Begun, Started
      <3>5. streams' = streams \cup {f.id} /\ known' = known \cup {f.id}
        BY <2>1, <2>3
      <3>6. QED BY <2>1, <2>3, <3>1, <3>2, <3>4, <3>5, DeliveryStep
    <2>4. QED BY <1>2, <2>2, <2>3 DEF ReceiveNext
  <1>3. CASE ReceiveAhead(f.id, [type |-> f.type, seq |-> f.seq])
    <2>1. /\ UNCHANGED <<failure, streams, known, delivered>>
          /\ \A i \in streams : /\ stream'[i].openType = stream[i].openType
                                /\ stream'[i].ended = stream[i].ended
      BY <1>3 DEF ReceiveAhead, histories, TypeOK, Stream
    <2>2. QED BY <2>1, StillStep
  <1>4. CASE ReceiveCancellation(f.id)
    BY <1>4, ClosingStep, AbortStep DEF ReceiveCancellation, histories, FailureReasons
  <1>5. CASE ReceiveFatal(f)
    BY <1>5, AbortStep DEF ReceiveFatal, FailureReasons
  <1>6. QED BY <1>1, <1>2, <1>3, <1>4, <1>5 DEF Receive

(* So is draining what a resumed stream queued. *)
LEMMA DrainPromised ==
  ASSUME TypeOK, OrderInv, OrderInv', BegunInv, NEW id \in Ids, Drain(id)
  PROVE  BegunInv' /\ PromisedStep
  <1>1. CASE DrainQueue(id)
    <2> DEFINE q == stream[id].queue
               s == [stream[id] EXCEPT !.queue = Tail(@), !.bytes = @ - 1]
               g == Head(q)
    <2>1. Alive /\ id \in streams /\ id \in known /\ q # <<>>
      BY <1>1 DEF DrainQueue, OrderInv, Allocation
    <2>2. CASE DeliverOrQueueFails(s, g, bytes - 1)
      BY <2>1, <2>2, DeliveryFailsStep
    <2>3. CASE DeliverOrQueue(id, s, g, bytes - 1) /\ UNCHANGED <<streams, known>>
      <3>1. stream[id] \in Stream /\ q \in Seq(Frame) /\ stream[id].bytes - 1 \in Int
        BY DEF TypeOK, Stream
      <3>2. g \in Frame /\ Tail(q) \in Seq(Frame)
        BY <2>1, <3>1, HeadTailProperties
      <3>3. s \in Stream
        BY <3>1, <3>2 DEF Stream
      <3>4. s.openType = stream[id].openType /\ s.ended = stream[id].ended
        BY <3>1 DEF Stream
      <3> HIDE DEF s, g
      <3>5. Begun(s, delivered[id])
        BY <2>1, <3>4 DEF BegunInv, Begun, Started
      <3>6. streams' = streams \cup {id} /\ known' = known \cup {id}
        BY <2>1, <2>3
      <3>7. QED BY <2>1, <2>3, <3>2, <3>3, <3>5, <3>6, DeliveryStep
    <2>4. QED BY <1>1, <2>2, <2>3 DEF DrainQueue
  <1>2. CASE DrainWindow(id)
    <2> DEFINE w == stream[id].window
               s == [stream[id] EXCEPT !.window = Take(@), !.bytes = @ - 1]
               g == [type |-> w.buffer[w.expected], seq |-> w.expected]
    <2>1. Alive /\ id \in streams /\ id \in known /\ CanTake(w)
      BY <1>2 DEF DrainWindow, OrderInv, Allocation
    <2>2. CASE DeliverOrQueueFails(s, g, bytes - 1)
      BY <2>1, <2>2, DeliveryFailsStep
    <2>3. CASE DeliverOrQueue(id, s, g, bytes - 1) /\ UNCHANGED <<streams, known>>
      <3>1. stream[id] \in Stream /\ w \in Window /\ stream[id].bytes - 1 \in Int
        BY DEF TypeOK, Stream
      <3>2. g \in Frame /\ Take(w) \in Window
        BY <2>1, <3>1, TakeType DEF Frame
      <3>3. s = [[stream[id] EXCEPT !.window = Take(w)] EXCEPT !.bytes = stream[id].bytes - 1]
        BY <3>1 DEF Stream
      <3>4. s \in Stream
        BY <3>1, <3>2, <3>3, SetWindowType, SetBytesType
      <3>5. s.openType = stream[id].openType /\ s.ended = stream[id].ended
        BY <3>1 DEF Stream
      <3> HIDE DEF s, g
      <3>6. Begun(s, delivered[id])
        BY <2>1, <3>5 DEF BegunInv, Begun, Started
      <3>7. streams' = streams \cup {id} /\ known' = known \cup {id}
        BY <2>1, <2>3
      <3>8. QED BY <2>1, <2>3, <3>2, <3>4, <3>6, <3>7, DeliveryStep
    <2>4. QED BY <1>2, <2>2, <2>3 DEF DrainWindow
  <1>3. CASE DrainEnd(id)
    <2>1. UNCHANGED <<failure, streams, known, delivered, stream>>
      BY <1>3 DEF DrainEnd, histories
    <2>2. QED BY <2>1, StillStep
  <1>4. QED BY <1>1, <1>2, <1>3 DEF Drain

(* So is sending an ordered frame. *)
LEMMA SendPromised ==
  ASSUME TypeOK, OrderInv, BegunInv, NEW id \in Ids, NEW type, NEW err,
         SendOrdered(id, type, err)
  PROVE  BegunInv' /\ PromisedStep
  <1> DEFINE s == SendState(id)
             out == [s EXCEPT !.outStarted = TRUE,
                              !.outEnded = (type = "FIN"),
                              !.outErrorStatus = IF ~Initiator /\ type = "HEADERS"
                                                 THEN err ELSE @,
                              !.seq = @ + 1]
  <1>1. Alive /\ delivered' = delivered
        /\ (id \in streams \/ (OpensBySending(id, type) /\ id \notin known))
    BY DEF SendOrdered, CanCall
  <1>2. CASE ~Initiator /\ type = "FIN" /\ DropStream(id)
    BY <1>1, <1>2, ClosingStep DEF OpensBySending
  <1>3. CASE /\ streams' = streams \cup {id} /\ known' = known \cup {id}
             /\ stream' = [stream EXCEPT ![id] = out]
             /\ UNCHANGED <<failure, bytes, globalPaused, loop>>
    <2>1. s \in Stream
      BY OpenedStreamType DEF SendState, TypeOK
    <2>2. out.openType = s.openType /\ out.ended = s.ended
      <3> HIDE DEF s
      <3> QED BY <2>1 DEF Stream
    <2> HIDE DEF out
    <2>3. CASE id \in streams
      <3>1. s = stream[id] /\ streams' = streams /\ known' = known
        BY <1>3, <2>3 DEF SendState, OrderInv, Allocation
      <3>2. \A i \in streams : /\ stream'[i].openType = stream[i].openType
                               /\ stream'[i].ended = stream[i].ended
        BY <1>3, <2>2, <3>1 DEF TypeOK
      <3>3. QED BY <1>1, <1>3, <3>1, <3>2, StillStep
    <2>4. CASE id \notin streams
      <3>1. s.openType = NoFrame /\ ~s.ended
        BY <2>4, OpenedStreamType DEF SendState, OpenedStream, PausedBy, NewStream, Stream
      <3>2. QED BY <1>1, <1>3, <2>2, <2>4, <3>1, OpeningStep
    <2>5. QED BY <2>3, <2>4
  <1>4. QED BY <1>2, <1>3 DEF SendOrdered

(* A pause or a resume hands nothing over by itself.                       *)
LEMMA PausePromised ==
  ASSUME TypeOK, BegunInv, NEW owner \in Owners, NEW ids \in SUBSET streams,
         PauseAs(owner, ids) \/ ResumeAs(owner, ids)
  PROVE  BegunInv' /\ PromisedStep
  <1>1. UNCHANGED <<failure, streams, known, delivered>>
    BY DEF PauseAs, ResumeAs, histories
  <1>2. ASSUME NEW i \in streams
        PROVE  /\ stream'[i].openType = stream[i].openType
               /\ stream'[i].ended = stream[i].ended
    <2>1. \/ stream'[i] = IF i \in ids THEN PausedBy(stream[i], owner) ELSE stream[i]
          \/ stream'[i] = IF i \in ids THEN ResumedBy(stream[i], owner) ELSE stream[i]
      BY DEF PauseAs, ResumeAs, TypeOK
    <2>2. stream[i] \in Stream
      BY DEF TypeOK
    <2>3. QED BY <2>1, <2>2 DEF PausedBy, ResumedBy, Stream
  <1>3. QED BY <1>1, <1>2, StillStep

(* So is every other call on a stream. *)
LEMMA CallsPromised ==
  ASSUME TypeOK, OrderInv, BegunInv, NEW id \in Ids, StreamCalls(id)
  PROVE  BegunInv' /\ PromisedStep
  <1>1. CASE Open(id)
    <2>1. Alive /\ UNCHANGED histories
      BY <1>1 DEF Open, CanCall
    <2>2. CASE Fail("stream-id-reuse-or-invalid") \/ Fail("stream-allocation-limit")
      BY <2>1, <2>2, AbortStep DEF FailureReasons
    <2>3. CASE /\ id \notin known
               /\ streams' = streams \cup {id}
               /\ known' = known \cup {id}
               /\ stream' = [stream EXCEPT ![id] = OpenedStream]
               /\ UNCHANGED <<failure, bytes, globalPaused, loop>>
      <3>1. OpenedStream.openType = NoFrame /\ ~OpenedStream.ended
        BY DEF OpenedStream, PausedBy, NewStream
      <3>2. delivered' = delivered
        BY <2>1 DEF histories
      <3>3. QED BY <2>1, <2>3, <3>1, <3>2, OpeningStep
    <2>4. QED BY <1>1, <2>2, <2>3 DEF Open
  <1>2. CASE Drop(id)
    BY <1>2, ClosingStep DEF Drop, histories
  <1>3. CASE Pause(id) \/ Resume(id)
    BY <1>3, PausePromised DEF Pause, Resume, Owners
  <1>4. QED BY <1>1, <1>2, <1>3 DEF StreamCalls

(* The first state is the first state of the promise.                      *)
LEMMA PromisedInit == Init => BegunInv /\ Promise!AInit
  <1> SUFFICES ASSUME Init PROVE BegunInv /\ Promise!AInit
    OBVIOUS
  <1>1. streams = {} /\ known = {} /\ Alive
    BY DEF Init, Alive
  <1>2. \A i \in Ids : Phase(i) = "unused"
    BY <1>1 DEF Phase
  <1>3. QED BY <1>1, <1>2 DEF Init, BegunInv, Promise!AInit

(* So is every step of the session. *)
LEMMA PromisedNext ==
  TypeOK /\ OrderInv /\ OrderInv' /\ BegunInv /\ [Next]_vars
    => BegunInv' /\ PromisedStep
  <1> SUFFICES ASSUME TypeOK, OrderInv, OrderInv', BegunInv, [Next]_vars
               PROVE  BegunInv' /\ PromisedStep
    OBVIOUS
  <1>1. ASSUME NEW id \in Ids, Sends(id) PROVE BegunInv' /\ PromisedStep
    <2>1. CASE SendCancellation(id)
      BY <2>1, ClosingStep DEF SendCancellation
    <2>2. ASSUME NEW type \in OrderedTypes, SendFails(id, type)
          PROVE  BegunInv' /\ PromisedStep
      BY <2>2, AbortStep DEF SendFails, CanCall, FailureReasons
    <2>3. QED BY <1>1, <2>1, <2>2, SendPromised DEF Sends
  <1>2. CASE SessionCalls
    <2>1. CASE PauseAll \/ ResumeAll
      BY <2>1, PausePromised DEF PauseAll, ResumeAll, Owners
    <2>2. CASE OwnerFails
      BY <2>2, AbortStep DEF OwnerFails, CanCall, FailureReasons
    <2>3. QED BY <1>2, <2>1, <2>2 DEF SessionCalls
  <1>3. ASSUME NEW id \in Ids, GapTimeout(id) \/ FlowTimeout(id)
        PROVE  BegunInv' /\ PromisedStep
    <2>1. Alive
      BY <1>3, OpenedBlank
         DEF GapTimeout, FlowTimeout, OrderInv, Allocation, NewStream, NewWindow
    <2>2. QED BY <1>3, <2>1, AbortStep DEF GapTimeout, FlowTimeout, FailureReasons
  <1>4. CASE UNCHANGED vars
    BY <1>4, StillStep DEF vars, histories
  <1>5. QED BY <1>1, <1>2, <1>3, <1>4, ReceivePromised, DrainPromised, CallsPromised
            DEF Next, Internal

(* What the consumer of a session sees is a behaviour of OrderedDelivery:  *)
(* gap-free prefixes that begin with one start frame and end with FIN,     *)
(* streams that stay closed, and an abort that is total and final.         *)
THEOREM ImplementsOrderedDelivery == Spec => OrderedDeliverySpec
  <1>1. Spec => []BegunInv
    BY PromisedInit, PromisedNext, TypeCorrect, OrderCorrect, PTL DEF Spec
  <1>2. Spec => [][Promise!ANext]_(Promise!absVars)
    BY PromisedNext, <1>1, TypeCorrect, OrderCorrect, PTL DEF Spec, PromisedStep
  <1>3. QED BY PromisedInit, <1>2, PTL DEF Spec, OrderedDeliverySpec, Promise!ASpec

----------------------------------------------------------------------------
(* What a session says to its peer, and what an honest peer can make of    *)
(* it.  "out" is what one end has said on a stream, in order.              *)

(* One start frame comes first, and nothing follows FIN.                   *)
Shape(out) ==
  /\ Len(out) <= MaxSeq
  /\ \A n \in 1..Len(out) : /\ IsStart(out[n].type) <=> n = 1
                            /\ out[n].type = "FIN" => n = Len(out)

(* The state object of a stream remembers what was said on it.             *)
Said(s, out) ==
  /\ s.outStarted <=> out # <<>>
  /\ s.seq = Len(out)
  /\ Has(out, "FIN") => s.outEnded
  /\ ~Initiator /\ s.outErrorStatus => out # <<>> /\ out[1].err

OutputInv ==
  /\ \A i \in Ids : Shape(sent[i])
  /\ \A i \in streams : Said(stream[i], sent[i])
  /\ Alive => \A i \in Ids \ known : sent[i] = <<>>

EndInv == TypeOK /\ OrderInv /\ BegunInv /\ OutputInv

(* A frame, a log and what a stream holds, all of it said by the peer.     *)
From(f, out) == f.seq \in 1..Len(out) /\ f.type = out[f.seq].type
LogFrom(d, out) == \A n \in 1..Len(d) : From(d[n], out)
HeldFrom(s, out) ==
  /\ LogFrom(s.queue, out)
  /\ \A n \in Buffered(s.window) : From([type |-> s.window.buffer[n], seq |-> n], out)
Genuine(st, d, out) ==
  \A i \in Ids : HeldFrom(st[i], out[i]) /\ LogFrom(d[i], out[i])

(* A response may end only when its request has, unless it is an error or  *)
(* there is no request to wait for.                                        *)
Justified(d, out) ==
  Has(out, "FIN") => \/ Has(d, "FIN")
                     \/ d # <<>> /\ d[1].type = "UPGRADE"
                     \/ out[1].err

(* What no order of honest frames can cause.                               *)
Accusations == { "invalid-cancellation", "invalid-frame-type",
                 "ordering-sequence-boundary", "invalid-stream-order" }

(* The fifth reason that blames the peer: a frame came before its opening, *)
(* which a lane that overtakes another can cause.                          *)
Race == "unallocated-frame-before-headers"

----------------------------------------------------------------------------
(* What an end has said on its streams.                                    *)

(* The object of a stream that opens has said nothing.                     *)
LEMMA OpenedSilent ==
  /\ Said(OpenedStream, <<>>)
  /\ HeldFrom(NewStream, <<>>) /\ HeldFrom(OpenedStream, <<>>)
  <1>1. /\ ~OpenedStream.outStarted /\ ~OpenedStream.outErrorStatus
        /\ OpenedStream.seq = 0
    BY DEF OpenedStream, PausedBy, NewStream
  <1>2. ~Has(<<>>, "FIN")
    BY DEF Has
  <1>3. Said(OpenedStream, <<>>)
    BY <1>1, <1>2 DEF Said
  <1>4. /\ NewStream.window = NewWindow /\ NewStream.queue = <<>>
        /\ OpenedStream.window = NewWindow /\ OpenedStream.queue = <<>>
        /\ Buffered(NewWindow) = {}
    BY OpenedBlank DEF NewStream
  <1>5. QED BY <1>3, <1>4 DEF HeldFrom, LogFrom

(* A step that says nothing, and leaves what an open stream remembers.     *)
LEMMA SilentStep ==
  ASSUME OutputInv, sent' = sent, known \subseteq known',
         Alive' => Alive, streams' \subseteq Ids,
         \A i \in streams' : Said(stream'[i], sent[i])
  PROVE  OutputInv'
  <1>1. \A i \in Ids : Shape(sent'[i])
    BY DEF OutputInv
  <1>2. \A i \in streams' : Said(stream'[i], sent'[i])
    OBVIOUS
  <1>3. Alive' => \A i \in Ids \ known' : sent'[i] = <<>>
    BY DEF OutputInv
  <1>4. QED BY <1>1, <1>2, <1>3 DEF OutputInv, Shape, Said

(* A failed session says nothing more.                                     *)
LEMMA FailOutput ==
  ASSUME OutputInv, NEW reason \in FailureReasons, Fail(reason), UNCHANGED histories
  PROVE  OutputInv'
  <1>1. streams' = {} /\ ~Alive' /\ sent' = sent
    BY DEF Fail, Alive, FailureReasons, histories
  <1>2. QED BY <1>1 DEF OutputInv, Shape, Said

(* One stream changes or opens and says nothing.                           *)
LEMMA UpdateOutput ==
  ASSUME TypeOK, OutputInv, NEW id \in Ids, NEW t, Said(t, sent[id]),
         stream' = [stream EXCEPT ![id] = t],
         streams' \subseteq streams \cup {id}, known \subseteq known',
         UNCHANGED <<failure, sent>>
  PROVE  OutputInv'
  <1>1. stream'[id] = t /\ \A i \in Ids \ {id} : stream'[i] = stream[i]
    BY DEF TypeOK
  <1>2. streams' \subseteq Ids
    BY DEF TypeOK
  <1>3. \A i \in streams' : Said(stream'[i], sent[i])
    BY <1>1, <1>2 DEF OutputInv
  <1>4. QED BY <1>2, <1>3, SilentStep DEF Alive

(* deliverOrQueue() says nothing.                                          *)
LEMMA DeliverOutput ==
  ASSUME TypeOK, OutputInv, NEW id \in Ids, NEW s \in Stream, NEW f, NEW total,
         Said(s, sent[id]), DeliverOrQueue(id, s, f, total),
         streams' = streams \cup {id}, known' = known \cup {id}
  PROVE  OutputInv'
  <1> DEFINE q == [s EXCEPT !.queue = Append(@, f), !.bytes = @ + 1]
             t == [s EXCEPT !.openType = IF Started(s) THEN @ ELSE f.type,
                            !.ended = (f.type = "FIN")]
  <1>1. PICK u \in {q, t} : stream' = [stream EXCEPT ![id] = u]
    BY DEF DeliverOrQueue
  <1>2. /\ u.outStarted = s.outStarted /\ u.outEnded = s.outEnded
        /\ u.outErrorStatus = s.outErrorStatus /\ u.seq = s.seq
    BY <1>1 DEF Stream
  <1>3. sent' = sent /\ failure' = failure
    BY DEF DeliverOrQueue, histories
  <1> HIDE DEF q, t
  <1>4. Said(u, sent[id])
    BY <1>2 DEF Said
  <1>5. QED BY <1>1, <1>3, <1>4, UpdateOutput

(* A delivery that fails the session keeps OutputInv. *)
LEMMA DeliverFailsOutput ==
  ASSUME OutputInv, NEW s, NEW f, NEW total, DeliverOrQueueFails(s, f, total)
  PROVE  OutputInv'
  BY FailOutput DEF DeliverOrQueueFails, FailureReasons

(* drop() forgets what the stream said, for good.                          *)
LEMMA DropOutput ==
  ASSUME TypeOK, OutputInv, NEW id \in Ids, DropStream(id), sent' = sent
  PROVE  OutputInv'
  <1>1. /\ \A i \in Ids \ {id} : stream'[i] = stream[i]
        /\ streams' = streams \ {id} /\ known' = known /\ failure' = failure
    BY DEF DropStream, TypeOK
  <1>2. streams' \subseteq Ids /\ \A i \in streams' : Said(stream'[i], sent[i])
    BY <1>1 DEF OutputInv, TypeOK
  <1>3. QED BY <1>1, <1>2, SilentStep DEF Alive

(* What prepare(buf) lets through keeps the shape of what was said, and    *)
(* the state object follows it.                                            *)
LEMMA SaysNext ==
  ASSUME NEW out \in Seq(SentFrame), NEW s \in Stream, NEW t,
         NEW type \in OrderedTypes, NEW err \in BOOLEAN,
         Shape(out), Said(s, out), ~MisorderedOutput(s, type), HasSequence(s),
         t.outStarted, t.outEnded <=> type = "FIN", t.seq = s.seq + 1,
         t.outErrorStatus <=> IF ~Initiator /\ type = "HEADERS" THEN err
                              ELSE s.outErrorStatus
  PROVE  /\ Shape(Append(out, [type |-> type, err |-> err]))
         /\ Said(t, Append(out, [type |-> type, err |-> err]))
  <1> DEFINE f == [type |-> type, err |-> err]
             m == Append(out, f)
  <1>1. f \in SentFrame /\ f.type = type /\ f.err = err
    BY DEF SentFrame
  <1>2. /\ Len(out) \in Nat /\ Len(m) = Len(out) + 1 /\ m[Len(out) + 1] = f
        /\ \A n \in 1..Len(out) : m[n] = out[n]
        /\ m # <<>>
        /\ out = <<>> <=> Len(out) = 0
    BY <1>1
  <1>3. PICK k \in Nat : k = Len(out)
    BY <1>2
  <1>4. /\ s.outStarted <=> k # 0
        /\ s.seq = k /\ k < MaxSeq
        /\ ~Has(out, "FIN")
        /\ IsStart(type) <=> k = 0
    BY <1>2, <1>3 DEF Said, MisorderedOutput, HasSequence
  <1>5. \A n \in 1..k : out[n].type # "FIN" /\ (IsStart(out[n].type) <=> n = 1)
    BY <1>3, <1>4 DEF Has, Shape
  <1> HIDE DEF m, f
  <1>6. Shape(m)
    <2>1. Len(m) = k + 1 /\ k + 1 <= MaxSeq
      BY <1>2, <1>3, <1>4, WindowAssumption
    <2>2. ASSUME NEW n \in 1..(k + 1)
          PROVE  /\ IsStart(m[n].type) <=> n = 1
                 /\ m[n].type = "FIN" => n = k + 1
      <3>1. CASE n \in 1..k
        BY <1>2, <1>3, <1>5, <3>1
      <3>2. CASE n = k + 1
        <4>1. m[n].type = type
          BY <1>1, <1>2, <1>3, <3>2
        <4>2. QED BY <1>4, <3>2, <4>1
      <3>3. QED BY <3>1, <3>2
    <2>3. QED BY <2>1, <2>2 DEF Shape
  <1>7. Said(t, m)
    <2>1. t.seq = Len(m)
      BY <1>2, <1>3, <1>4
    <2>2. ASSUME Has(m, "FIN") PROVE t.outEnded
      <3>1. PICK n \in 1..(k + 1) : m[n].type = "FIN"
        BY <1>2, <1>3, <2>2 DEF Has
      <3>2. n \notin 1..k
        BY <1>2, <1>3, <1>5, <3>1
      <3>3. n = k + 1
        BY <3>1, <3>2
      <3>4. QED BY <1>1, <1>2, <1>3, <3>1, <3>3
    <2>3. ASSUME ~Initiator, t.outErrorStatus PROVE m[1].err
      <3>1. CASE type = "HEADERS"
        <4>1. err /\ k = 0
          BY <1>4, <2>3, <3>1 DEF IsStart, StartTypes
        <4>2. m[1] = f
          BY <1>2, <1>3, <4>1
        <4>3. QED BY <1>1, <4>1, <4>2, Zenon
      <3>2. CASE type # "HEADERS"
        <4>1. out # <<>> /\ out[1].err
          BY <2>3, <3>2 DEF Said
        <4>2. 1 \in 1..Len(out)
          BY <1>2, <4>1
        <4>3. QED BY <1>2, <4>1, <4>2
      <3>3. QED BY <3>1, <3>2
    <2>4. QED BY <1>2, <2>1, <2>2, <2>3 DEF Said
  <1>8. QED BY <1>6, <1>7 DEF m, f

(* Sending an ordered frame keeps the shape of what a stream has said. *)
LEMMA SendOrderedOutput ==
  ASSUME TypeOK, OrderInv, OutputInv, NEW id \in Ids, NEW type \in OrderedTypes,
         NEW err \in BOOLEAN, SendOrdered(id, type, err)
  PROVE  OutputInv'
  <1> DEFINE s == SendState(id)
             f == [type |-> type, err |-> err]
             out == [s EXCEPT !.outStarted = TRUE,
                              !.outEnded = (type = "FIN"),
                              !.outErrorStatus = IF ~Initiator /\ type = "HEADERS"
                                                 THEN err ELSE @,
                              !.seq = @ + 1]
  <1>1. /\ Alive /\ ~MisorderedOutput(s, type) /\ HasSequence(s)
        /\ sent' = [sent EXCEPT ![id] = Append(@, f)]
        /\ id \in streams \/ id \notin known
    BY DEF SendOrdered, CanCall
  <1>2. s \in Stream /\ sent[id] \in Seq(SentFrame)
    BY OpenedStreamType DEF SendState, TypeOK
  <1>3. Said(s, sent[id])
    <2>1. CASE id \in streams
      BY <2>1 DEF SendState, OutputInv
    <2>2. CASE id \notin streams
      <3>1. s = OpenedStream /\ sent[id] = <<>>
        BY <1>1, <2>2 DEF SendState, OutputInv
      <3>2. QED BY <3>1, OpenedSilent
    <2>3. QED BY <2>1, <2>2
  <1>4. /\ out.outStarted /\ (out.outEnded <=> type = "FIN") /\ out.seq = s.seq + 1
        /\ out.outErrorStatus <=> IF ~Initiator /\ type = "HEADERS" THEN err
                                  ELSE s.outErrorStatus
    <2> HIDE DEF s
    <2> QED BY <1>2 DEF Stream
  <1> HIDE DEF out, s
  <1>5. Shape(Append(sent[id], f)) /\ Said(out, Append(sent[id], f))
    <2>1. Shape(sent[id])
      BY DEF OutputInv
    <2>2. QED BY <1>1, <1>2, <1>3, <1>4, <2>1, SaysNext
  <1>6. /\ sent'[id] = Append(sent[id], f)
        /\ \A i \in Ids \ {id} : sent'[i] = sent[i]
    BY <1>1 DEF TypeOK
  <1>7. \A i \in Ids : Shape(sent'[i])
    BY <1>5, <1>6 DEF OutputInv
  <1>8. CASE DropStream(id) /\ ~Initiator
    <2>1. id \in streams /\ id \in known
      BY <1>8 DEF SendOrdered, OpensBySending, OrderInv, Allocation
    <2>2. /\ \A i \in Ids \ {id} : stream'[i] = stream[i]
          /\ streams' = streams \ {id} /\ known' = known /\ failure' = failure
      BY <1>8 DEF DropStream, TypeOK
    <2>3. \A i \in streams' : Said(stream'[i], sent'[i])
      BY <1>6, <2>2 DEF OutputInv, TypeOK
    <2>4. \A i \in Ids \ known' : Alive' => sent'[i] = <<>>
      BY <1>1, <1>6, <2>1, <2>2 DEF OutputInv, Alive
    <2>5. QED BY <1>7, <2>3, <2>4 DEF OutputInv, Shape, Said
  <1>9. CASE /\ streams' = streams \cup {id} /\ known' = known \cup {id}
             /\ stream' = [stream EXCEPT ![id] = out]
             /\ UNCHANGED <<failure, bytes, globalPaused, loop>>
    <2>1. stream'[id] = out /\ \A i \in Ids \ {id} : stream'[i] = stream[i]
      BY <1>9 DEF TypeOK
    <2>2. \A i \in streams' : Said(stream'[i], sent'[i])
      BY <1>5, <1>6, <1>9, <2>1 DEF OutputInv, TypeOK
    <2>3. \A i \in Ids \ known' : Alive' => sent'[i] = <<>>
      BY <1>1, <1>6, <1>9 DEF OutputInv, Alive
    <2>4. QED BY <1>7, <2>2, <2>3 DEF OutputInv, Shape, Said
  <1>10. QED BY <1>8, <1>9 DEF SendOrdered, out, s

(* A pause or a resume says nothing.                                       *)
LEMMA PauseOutput ==
  ASSUME TypeOK, OutputInv, NEW owner \in Owners, NEW ids \in SUBSET streams,
         PauseAs(owner, ids) \/ ResumeAs(owner, ids)
  PROVE  OutputInv'
  <1>1. UNCHANGED <<failure, streams, known, sent>>
    BY DEF PauseAs, ResumeAs, histories
  <1>2. ASSUME NEW i \in streams PROVE Said(stream'[i], sent[i])
    <2>1. PICK t \in {stream[i], PausedBy(stream[i], owner), ResumedBy(stream[i], owner)} :
            stream'[i] = t
      BY DEF PauseAs, ResumeAs, TypeOK
    <2>2. stream[i] \in Stream /\ Said(stream[i], sent[i])
      BY DEF TypeOK, OutputInv
    <2>3. /\ t.outStarted = stream[i].outStarted /\ t.outEnded = stream[i].outEnded
          /\ t.outErrorStatus = stream[i].outErrorStatus /\ t.seq = stream[i].seq
      BY <2>1, <2>2 DEF PausedBy, ResumedBy, Stream
    <2>4. QED BY <2>1, <2>2, <2>3 DEF Said
  <1>3. QED BY <1>1, <1>2, SilentStep DEF TypeOK, Alive

(* Receiving says nothing on a stream but what its shape allows. *)
LEMMA ReceiveOutput ==
  ASSUME TypeOK, OrderInv, OutputInv, NEW f \in InboundFrames, Receive(f)
  PROVE  OutputInv'
  <1>0. f.id \in Ids
    BY InboundFrameType
  <1>1. CASE ReceiveOpening(f.id, f.type)
    <2> DEFINE s == [OpenedStream EXCEPT !.window = Advance(@)]
               g == [type |-> f.type, seq |-> 1]
    <2>1. CASE DeliverOrQueueFails(s, g, bytes)
      BY <2>1, DeliverFailsOutput
    <2>2. CASE /\ DeliverOrQueue(f.id, s, g, bytes)
               /\ streams' = streams \cup {f.id} /\ known' = known \cup {f.id}
      <3>1. Alive /\ f.id \notin known
        BY <1>1 DEF ReceiveOpening
      <3>2. OpenedStream \in Stream /\ NewWindow \in Window
        BY OpenedStreamType, NewStreamType DEF NewStream, Stream
      <3>3. s \in Stream
        BY <3>2, OpenedBlank, AdvanceType, SetWindowType, WindowAssumption DEF SeqNos
      <3>4. /\ s.outStarted = OpenedStream.outStarted /\ s.outEnded = OpenedStream.outEnded
            /\ s.outErrorStatus = OpenedStream.outErrorStatus /\ s.seq = OpenedStream.seq
        BY <3>2 DEF Stream
      <3>5. sent[f.id] = <<>>
        BY <1>0, <3>1 DEF OutputInv
      <3> HIDE DEF s, g
      <3>6. Said(s, sent[f.id])
        BY <3>4, <3>5, OpenedSilent DEF Said
      <3>7. QED BY <1>0, <2>2, <3>3, <3>6, DeliverOutput
    <2>3. QED BY <1>1, <2>1, <2>2 DEF ReceiveOpening
  <1>2. CASE ReceiveNext(f.id, [type |-> f.type, seq |-> f.seq])
    <2> DEFINE s == [stream[f.id] EXCEPT !.window = Advance(@)]
               g == [type |-> f.type, seq |-> f.seq]
    <2>1. CASE DeliverOrQueueFails(s, g, bytes)
      BY <2>1, DeliverFailsOutput
    <2>2. CASE DeliverOrQueue(f.id, s, g, bytes) /\ UNCHANGED <<streams, known>>
      <3>1. /\ f.id \in streams /\ f.id \in known
            /\ IsNext(stream[f.id].window, f.seq)
        BY <1>2 DEF ReceiveNext, OrderInv, Allocation
      <3>2. /\ stream[f.id] \in Stream /\ stream[f.id].window \in Window
            /\ stream[f.id].window.expected \in SeqNos
        BY <1>0, <3>1 DEF IsNext, TypeOK, Stream
      <3>3. s \in Stream
        BY <3>2, AdvanceType, SetWindowType
      <3>4. /\ s.outStarted = stream[f.id].outStarted /\ s.outEnded = stream[f.id].outEnded
            /\ s.outErrorStatus = stream[f.id].outErrorStatus
            /\ s.seq = stream[f.id].seq
        BY <3>2 DEF Stream
      <3> HIDE DEF s, g
      <3>5. Said(s, sent[f.id])
        BY <3>1, <3>4 DEF Said, OutputInv
      <3>6. streams' = streams \cup {f.id} /\ known' = known \cup {f.id}
        BY <2>2, <3>1
      <3>7. QED BY <1>0, <2>2, <3>3, <3>5, <3>6, DeliverOutput
    <2>3. QED BY <1>2, <2>1, <2>2 DEF ReceiveNext
  <1>3. CASE ReceiveAhead(f.id, [type |-> f.type, seq |-> f.seq])
    <2> DEFINE s == stream[f.id]
               t == [s EXCEPT !.window = Keep(@, f.seq, f.type), !.bytes = @ + 1]
    <2>1. /\ stream' = [stream EXCEPT ![f.id] = t] /\ f.id \in streams
          /\ UNCHANGED <<failure, streams, known, sent>>
      BY <1>3 DEF ReceiveAhead, histories
    <2>2. /\ t.outStarted = s.outStarted /\ t.outEnded = s.outEnded
          /\ t.outErrorStatus = s.outErrorStatus /\ t.seq = s.seq
      BY <1>0 DEF TypeOK, Stream
    <2>3. Said(s, sent[f.id])
      BY <2>1 DEF OutputInv
    <2> HIDE DEF s, t
    <2>4. Said(t, sent[f.id])
      BY <2>2, <2>3 DEF Said
    <2>5. QED BY <1>0, <2>1, <2>4, UpdateOutput
  <1>4. CASE ReceiveCancellation(f.id)
    BY <1>0, <1>4, DropOutput, FailOutput DEF ReceiveCancellation, histories, FailureReasons
  <1>5. CASE ReceiveFatal(f)
    BY <1>5, FailOutput DEF ReceiveFatal, FailureReasons
  <1>6. QED BY <1>1, <1>2, <1>3, <1>4, <1>5 DEF Receive

(* Neither does draining. *)
LEMMA DrainOutput ==
  ASSUME TypeOK, OrderInv, OutputInv, NEW id \in Ids, Drain(id)
  PROVE  OutputInv'
  <1>1. CASE DrainQueue(id)
    <2> DEFINE q == stream[id].queue
               s == [stream[id] EXCEPT !.queue = Tail(@), !.bytes = @ - 1]
               g == Head(q)
    <2>1. CASE DeliverOrQueueFails(s, g, bytes - 1)
      BY <2>1, DeliverFailsOutput
    <2>2. CASE DeliverOrQueue(id, s, g, bytes - 1) /\ UNCHANGED <<streams, known>>
      <3>1. id \in streams /\ id \in known /\ q # <<>>
        BY <1>1 DEF DrainQueue, OrderInv, Allocation
      <3>2. stream[id] \in Stream /\ q \in Seq(Frame) /\ stream[id].bytes - 1 \in Int
        BY DEF TypeOK, Stream
      <3>3. s \in Stream
        BY <3>1, <3>2, HeadTailProperties DEF Stream
      <3>4. /\ s.outStarted = stream[id].outStarted /\ s.outEnded = stream[id].outEnded
            /\ s.outErrorStatus = stream[id].outErrorStatus /\ s.seq = stream[id].seq
        BY <3>2 DEF Stream
      <3> HIDE DEF s, g
      <3>5. Said(s, sent[id])
        BY <3>1, <3>4 DEF Said, OutputInv
      <3>6. streams' = streams \cup {id} /\ known' = known \cup {id}
        BY <2>2, <3>1
      <3>7. QED BY <2>2, <3>3, <3>5, <3>6, DeliverOutput
    <2>3. QED BY <1>1, <2>1, <2>2 DEF DrainQueue
  <1>2. CASE DrainWindow(id)
    <2> DEFINE w == stream[id].window
               s == [stream[id] EXCEPT !.window = Take(@), !.bytes = @ - 1]
               g == [type |-> w.buffer[w.expected], seq |-> w.expected]
    <2>1. CASE DeliverOrQueueFails(s, g, bytes - 1)
      BY <2>1, DeliverFailsOutput
    <2>2. CASE DeliverOrQueue(id, s, g, bytes - 1) /\ UNCHANGED <<streams, known>>
      <3>1. id \in streams /\ id \in known /\ CanTake(w)
        BY <1>2 DEF DrainWindow, OrderInv, Allocation
      <3>2. stream[id] \in Stream /\ w \in Window /\ stream[id].bytes - 1 \in Int
        BY DEF TypeOK, Stream
      <3>3. s = [[stream[id] EXCEPT !.window = Take(w)] EXCEPT !.bytes = stream[id].bytes - 1]
        BY <3>2 DEF Stream
      <3>4. s \in Stream
        BY <3>1, <3>2, <3>3, TakeType, SetWindowType, SetBytesType
      <3>5. /\ s.outStarted = stream[id].outStarted /\ s.outEnded = stream[id].outEnded
            /\ s.outErrorStatus = stream[id].outErrorStatus /\ s.seq = stream[id].seq
        BY <3>2 DEF Stream
      <3> HIDE DEF s, g
      <3>6. Said(s, sent[id])
        BY <3>1, <3>5 DEF Said, OutputInv
      <3>7. streams' = streams \cup {id} /\ known' = known \cup {id}
        BY <2>2, <3>1
      <3>8. QED BY <2>2, <3>4, <3>6, <3>7, DeliverOutput
    <2>3. QED BY <1>2, <2>1, <2>2 DEF DrainWindow
  <1>3. CASE DrainEnd(id)
    <2>1. UNCHANGED <<failure, streams, known, stream, sent>>
      BY <1>3 DEF DrainEnd, histories
    <2>2. QED BY <2>1 DEF OutputInv, Shape, Said, Alive
  <1>4. QED BY <1>1, <1>2, <1>3 DEF Drain

(* Neither does any other call on a stream. *)
LEMMA CallsOutput ==
  ASSUME TypeOK, OrderInv, OutputInv, NEW id \in Ids, StreamCalls(id)
  PROVE  OutputInv'
  <1>1. CASE Open(id)
    <2>1. Alive /\ UNCHANGED histories
      BY <1>1 DEF Open, CanCall
    <2>2. CASE Fail("stream-id-reuse-or-invalid") \/ Fail("stream-allocation-limit")
      BY <2>1, <2>2, FailOutput DEF FailureReasons
    <2>3. CASE /\ id \notin known
               /\ streams' = streams \cup {id}
               /\ known' = known \cup {id}
               /\ stream' = [stream EXCEPT ![id] = OpenedStream]
               /\ UNCHANGED <<failure, bytes, globalPaused, loop>>
      <3>1. sent[id] = <<>> /\ sent' = sent
        BY <2>1, <2>3 DEF OutputInv, histories
      <3>2. QED BY <2>3, <3>1, OpenedSilent, UpdateOutput
    <2>4. QED BY <1>1, <2>2, <2>3 DEF Open
  <1>2. CASE Drop(id)
    BY <1>2, DropOutput DEF Drop, histories
  <1>3. CASE Pause(id) \/ Resume(id)
    BY <1>3, PauseOutput DEF Pause, Resume, Owners
  <1>4. QED BY <1>1, <1>2, <1>3 DEF StreamCalls

(* Every step keeps OutputInv. *)
LEMMA OutputStep == TypeOK /\ OrderInv /\ OutputInv /\ [Next]_vars => OutputInv'
  <1> SUFFICES ASSUME TypeOK, OrderInv, OutputInv, [Next]_vars PROVE OutputInv'
    OBVIOUS
  <1>1. ASSUME NEW id \in Ids, Sends(id) PROVE OutputInv'
    <2>1. CASE SendCancellation(id)
      BY <2>1, DropOutput DEF SendCancellation
    <2>2. ASSUME NEW type \in OrderedTypes, SendFails(id, type) PROVE OutputInv'
      BY <2>2, FailOutput DEF SendFails, FailureReasons
    <2>3. QED BY <1>1, <2>1, <2>2, SendOrderedOutput DEF Sends
  <1>2. CASE SessionCalls
    BY <1>2, PauseOutput, FailOutput
       DEF SessionCalls, PauseAll, ResumeAll, OwnerFails, Owners, FailureReasons
  <1>3. ASSUME NEW id \in Ids, GapTimeout(id) \/ FlowTimeout(id) PROVE OutputInv'
    BY <1>3, FailOutput DEF GapTimeout, FlowTimeout, FailureReasons
  <1>4. CASE UNCHANGED vars
    BY <1>4 DEF vars, histories, OutputInv, Shape, Said, Alive
  <1>5. QED BY <1>1, <1>2, <1>3, <1>4, ReceiveOutput, DrainOutput, CallsOutput
            DEF Next, Internal

(* EndInv is inductive for an end with any peer.                           *)
LEMMA EndInit == Init => EndInv
  <1> SUFFICES ASSUME Init PROVE EndInv
    OBVIOUS
  <1>1. OutputInv
    BY WindowAssumption DEF Init, OutputInv, Shape
  <1>2. QED BY <1>1, TypeInit, OrderInit, PromisedInit DEF EndInv

(* Every step keeps EndInv. *)
LEMMA EndStep == EndInv /\ [Next]_vars => EndInv'
  BY TypeStep, OrderStep, PromisedNext, OutputStep DEF EndInv

----------------------------------------------------------------------------
(* What an end makes of an honest peer: everything it holds was said by    *)
(* the peer, and it finds no breach of the protocol in it.                 *)

Accuses == failure' # failure /\ failure' \in Accusations

HonestStep(out) == Genuine(stream', delivered', out) /\ ~Accuses

(* The frames the lanes bring from a peer that has said out.               *)
Honest(f, out) ==
  IF f.type \in OrderedTypes THEN From(f, out[f.id])
  ELSE f.type = "ERROR" /\ f.seq = 0

(* What was said stays said.                                               *)
LEMMA GenuineGrows ==
  ASSUME NEW st, NEW d, NEW out, NEW more, Genuine(st, d, out),
         \A i \in Ids : /\ Len(out[i]) \in Nat /\ Len(more[i]) \in Nat
                        /\ Len(out[i]) <= Len(more[i])
                        /\ \A n \in 1..Len(out[i]) : more[i][n] = out[i][n]
  PROVE  Genuine(st, d, more)
  <1>1. ASSUME NEW i \in Ids, NEW f, From(f, out[i]) PROVE From(f, more[i])
    <2>1. /\ Len(out[i]) \in Nat /\ Len(more[i]) \in Nat
          /\ Len(out[i]) <= Len(more[i]) /\ f.seq \in 1..Len(out[i])
      BY <1>1 DEF From
    <2>2. f.seq \in 1..Len(more[i])
      BY <2>1
    <2>3. QED BY <1>1, <2>1, <2>2 DEF From
  <1>2. QED BY <1>1 DEF Genuine, HeldFrom, LogFrom

(* An end that fails forgets what it held.                                 *)
LEMMA FailHonest ==
  ASSUME NEW out, Genuine(stream, delivered, out), NEW reason,
         reason \notin Accusations, Fail(reason), UNCHANGED histories
  PROVE  HonestStep(out)
  <1>1. /\ \A i \in Ids : stream'[i] = NewStream
        /\ delivered' = delivered /\ failure' = reason
    BY DEF Fail, histories
  <1>2. NewStream.queue = <<>> /\ Buffered(NewStream.window) = {}
    BY OpenedBlank DEF NewStream
  <1>3. QED BY <1>1, <1>2 DEF HonestStep, Accuses, Genuine, HeldFrom, LogFrom

(* Every stream keeps what it held, or is blank.                           *)
LEMMA QuietHonest ==
  ASSUME NEW out, Genuine(stream, delivered, out), delivered' = delivered,
         failure' = failure,
         \A i \in Ids : \/ /\ stream'[i].window = stream[i].window
                           /\ stream'[i].queue = stream[i].queue
                        \/ /\ stream'[i].window = NewWindow
                           /\ stream'[i].queue = <<>>
  PROVE  HonestStep(out)
  <1>1. Buffered(NewWindow) = {}
    BY OpenedBlank
  <1>2. ASSUME NEW i \in Ids PROVE HeldFrom(stream'[i], out[i])
    <2>1. CASE stream'[i].window = NewWindow /\ stream'[i].queue = <<>>
      BY <1>1, <2>1 DEF HeldFrom, LogFrom
    <2>2. CASE /\ stream'[i].window = stream[i].window
               /\ stream'[i].queue = stream[i].queue
      BY <2>2 DEF Genuine, HeldFrom
    <2>3. QED BY <2>1, <2>2
  <1>3. QED BY <1>2 DEF HonestStep, Accuses, Genuine

(* One stream changes.                                                     *)
LEMMA UpdateHonest ==
  ASSUME TypeOK, NEW out, Genuine(stream, delivered, out), NEW id \in Ids, NEW t,
         HeldFrom(t, out[id]), stream' = [stream EXCEPT ![id] = t],
         LogFrom(delivered'[id], out[id]),
         \A i \in Ids \ {id} : delivered'[i] = delivered[i],
         failure' = failure
  PROVE  HonestStep(out)
  <1>1. stream'[id] = t /\ \A i \in Ids \ {id} : stream'[i] = stream[i]
    BY DEF TypeOK
  <1>2. QED BY <1>1 DEF HonestStep, Accuses, Genuine

(* The next frame of an honest peer fits: it starts the stream exactly     *)
(* when it is the first, and it does not come after FIN.                   *)
LEMMA HonestFits ==
  ASSUME NEW d \in Seq(Frame), NEW s, NEW f, NEW out \in Seq(SentFrame),
         Begun(s, d), LogNumbered(d), LogFrom(d, out), Shape(out),
         From(f, out), f.seq = Len(d) + 1
  PROVE  ~OutOfOrder(s, f)
  <1>1. PICK k \in Nat : k = Len(d)
    OBVIOUS
  <1>2. PICK m \in Nat : m = Len(out)
    OBVIOUS
  <1>3. /\ k + 1 \in 1..m /\ f.seq = k + 1 /\ f.type = out[k + 1].type
        /\ IsStart(f.type) <=> k + 1 = 1
    BY <1>1, <1>2 DEF From, Shape
  <1>4. ~s.ended
    <2> SUFFICES ASSUME s.ended PROVE FALSE
      OBVIOUS
    <2>1. PICK n \in 1..k : d[n].type = "FIN"
      BY <1>1 DEF Begun, Has
    <2>2. d[n].seq = n /\ n \in 1..m /\ out[n].type = "FIN"
      BY <1>1, <1>2, <2>1 DEF LogNumbered, LogFrom, From
    <2>3. n = m
      BY <1>2, <2>2 DEF Shape
    <2>4. QED BY <1>3, <2>1, <2>3
  <1>5. d = <<>> <=> k = 0
    BY <1>1
  <1>6. Started(s) <=> k # 0
    BY <1>5 DEF Begun
  <1>7. QED BY <1>3, <1>4, <1>6 DEF OutOfOrder

(* deliverOrQueue() with a frame of an honest peer in its hand.            *)
LEMMA DeliverHonest ==
  ASSUME TypeOK, NEW out, NEW id \in Ids, NEW s \in Stream, NEW f \in Frame, NEW total,
         Genuine(stream, delivered, out), HeldFrom(s, out[id]), From(f, out[id]),
         DeliverOrQueue(id, s, f, total)
  PROVE  HonestStep(out)
  <1> DEFINE d == delivered[id]
  <1>1. failure' = failure /\ d \in Seq(Frame) /\ s.queue \in Seq(Frame)
    BY DEF DeliverOrQueue, TypeOK, Stream
  <1>2. ASSUME NEW q \in Seq(Frame), LogFrom(q, out[id])
        PROVE  LogFrom(Append(q, f), out[id])
    <2>1. /\ Len(Append(q, f)) = Len(q) + 1 /\ Len(q) \in Nat
          /\ Append(q, f)[Len(q) + 1] = f
          /\ \A n \in 1..Len(q) : Append(q, f)[n] = q[n]
      OBVIOUS
    <2>2. ASSUME NEW n \in 1..(Len(q) + 1) PROVE From(Append(q, f)[n], out[id])
      <3>1. CASE n \in 1..Len(q)
        BY <1>2, <2>1, <3>1 DEF LogFrom
      <3>2. CASE n = Len(q) + 1
        BY <2>1, <3>2
      <3>3. QED BY <2>1, <3>1, <3>2
    <2>3. QED BY <2>1, <2>2 DEF LogFrom
  <1>3. LogFrom(d, out[id]) /\ LogFrom(s.queue, out[id])
    BY DEF Genuine, HeldFrom
  <1>4. CASE Paused(s)
    <2> DEFINE t == [s EXCEPT !.queue = Append(@, f), !.bytes = @ + 1]
    <2>1. stream' = [stream EXCEPT ![id] = t] /\ delivered' = delivered
      BY <1>4 DEF DeliverOrQueue, histories
    <2>2. t.queue = Append(s.queue, f) /\ t.window = s.window
      BY DEF Stream
    <2> HIDE DEF t
    <2>3. HeldFrom(t, out[id])
      BY <1>1, <1>2, <1>3, <2>2 DEF HeldFrom
    <2>4. QED BY <1>1, <1>3, <2>1, <2>3, UpdateHonest
  <1>5. CASE ~Paused(s)
    <2> DEFINE t == [s EXCEPT !.openType = IF Started(s) THEN @ ELSE f.type,
                              !.ended = (f.type = "FIN")]
    <2>1. /\ stream' = [stream EXCEPT ![id] = t]
          /\ delivered' = [delivered EXCEPT ![id] = Append(@, f)]
      BY <1>5 DEF DeliverOrQueue
    <2>2. t.queue = s.queue /\ t.window = s.window
      BY DEF Stream
    <2> HIDE DEF t
    <2>3. HeldFrom(t, out[id])
      BY <2>2 DEF HeldFrom
    <2>4. /\ delivered'[id] = Append(d, f)
          /\ \A i \in Ids \ {id} : delivered'[i] = delivered[i]
      BY <2>1 DEF TypeOK
    <2>5. LogFrom(delivered'[id], out[id])
      BY <1>1, <1>2, <1>3, <2>4
    <2>6. QED BY <1>1, <2>1, <2>3, <2>4, <2>5, UpdateHonest
  <1>6. QED BY <1>4, <1>5

(* When it fails, the peer is not to blame.                                *)
LEMMA DeliverFailsHonest ==
  ASSUME TypeOK, OrderInv, NEW out, NEW id \in Ids, NEW s, NEW f, NEW total,
         out[id] \in Seq(SentFrame), Shape(out[id]),
         Genuine(stream, delivered, out), Begun(s, delivered[id]), From(f, out[id]),
         ~Paused(s) => f.seq = Len(delivered[id]) + 1,
         DeliverOrQueueFails(s, f, total)
  PROVE  HonestStep(out)
  <1>1. LogNumbered(delivered[id]) /\ LogFrom(delivered[id], out[id])
        /\ delivered[id] \in Seq(Frame)
    BY DEF OrderInv, Genuine, TypeOK
  <1>2. ~Paused(s) => ~OutOfOrder(s, f)
    BY <1>1, HonestFits
  <1>3. UNCHANGED histories
    BY DEF DeliverOrQueueFails
  <1>4. Fail("flow-buffer-limit") \/ Fail("consumer-handler-error")
    BY <1>2 DEF DeliverOrQueueFails
  <1>5. QED BY <1>3, <1>4, FailHonest DEF Accusations

(* drop() forgets what the stream held.                                    *)
LEMMA DropHonest ==
  ASSUME TypeOK, NEW out, Genuine(stream, delivered, out), NEW id \in Ids,
         DropStream(id), delivered' = delivered
  PROVE  HonestStep(out)
  <1>1. /\ stream'[id] = NewStream /\ \A i \in Ids \ {id} : stream'[i] = stream[i]
        /\ failure' = failure
    BY DEF DropStream, TypeOK
  <1>2. NewStream.window = NewWindow /\ NewStream.queue = <<>>
    BY DEF NewStream
  <1>3. QED BY <1>1, <1>2, QuietHonest

(* A frame that the peer did send takes the receiver along the peer's own sequence. *)
LEMMA ReceiveHonest ==
  ASSUME TypeOK, OrderInv, BegunInv, NEW out \in [Ids -> Seq(SentFrame)],
         \A i \in Ids : Shape(out[i]), Genuine(stream, delivered, out),
         NEW f \in InboundFrames, Honest(f, out), Receive(f)
  PROVE  HonestStep(out)
  <1> DEFINE i == f.id
             d == delivered[i]
             g == [type |-> f.type, seq |-> f.seq]
  <1>1. i \in Ids /\ d \in Seq(Frame) /\ out[i] \in Seq(SentFrame) /\ Shape(out[i])
    BY InboundFrameType DEF TypeOK
  <1>2. f.type \in OrderedTypes => From(g, out[i]) /\ From(f, out[i])
    BY DEF Honest, From
  <1>3. CASE f.seq = 1 /\ IsStart(f.type) /\ ReceiveOpening(i, f.type)
    <2> DEFINE s == [OpenedStream EXCEPT !.window = Advance(@)]
    <2>1. g = [type |-> f.type, seq |-> 1] /\ From(g, out[i])
      BY <1>2, <1>3 DEF IsStart, OrderedTypes
    <2>2. Alive /\ i \notin known /\ d = <<>>
      BY <1>1, <1>3 DEF ReceiveOpening, OrderInv, Allocation
    <2>3. OpenedStream \in Stream /\ NewWindow \in Window
      BY OpenedStreamType, NewStreamType DEF NewStream, Stream
    <2>4. s \in Stream
      BY <2>3, OpenedBlank, AdvanceType, SetWindowType, WindowAssumption DEF SeqNos
    <2>5. /\ s.openType = NoFrame /\ ~s.ended
          /\ s.queue = <<>> /\ s.window = Advance(NewWindow)
      BY <2>3, OpenedBlank DEF OpenedStream, PausedBy, NewStream, Stream
    <2>6. g \in Frame
      BY <1>3, WindowAssumption DEF Frame, IsStart, OrderedTypes, SeqNos
    <2> HIDE DEF s
    <2>7. Begun(s, d)
      BY <2>2, <2>5 DEF Begun, Started, Has
    <2>8. HeldFrom(s, out[i])
      <3>1. Buffered(s.window) = {}
        BY <2>3, <2>5, OpenedBlank, AdvanceBuffered
      <3>2. QED BY <2>5, <3>1 DEF HeldFrom, LogFrom
    <2>9. g.seq = Len(d) + 1
      BY <1>3, <2>2
    <2> HIDE DEF g
    <2>10. CASE DeliverOrQueue(i, s, g, bytes)
      BY <1>1, <2>1, <2>4, <2>6, <2>8, <2>10, DeliverHonest
    <2>11. CASE DeliverOrQueueFails(s, g, bytes)
      BY <1>1, <2>1, <2>7, <2>9, <2>11, DeliverFailsHonest
    <2>12. QED BY <1>3, <2>1, <2>10, <2>11 DEF ReceiveOpening, s
  <1>4. CASE f.type \in OrderedTypes /\ ReceiveNext(i, g)
    <2> DEFINE s == [stream[i] EXCEPT !.window = Advance(@)]
    <2>1. /\ Alive /\ draining = {} /\ i \in streams
          /\ IsNext(stream[i].window, f.seq)
      BY <1>4 DEF ReceiveNext, Settled
    <2>2. /\ stream[i] \in Stream /\ stream[i].window \in Window
          /\ stream[i].queue \in Seq(Frame)
          /\ stream[i].window.expected \in SeqNos /\ f.seq = stream[i].window.expected
      BY <1>1, <2>1 DEF IsNext, TypeOK, Stream
    <2>3. s \in Stream /\ g \in Frame
      BY <1>4, <2>2, AdvanceType, SetWindowType DEF Frame
    <2>4. /\ s.openType = stream[i].openType /\ s.ended = stream[i].ended
          /\ s.owners = stream[i].owners
          /\ s.queue = stream[i].queue /\ s.window = Advance(stream[i].window)
      BY <2>2 DEF Stream
    <2> HIDE DEF s
    <2>5. Begun(s, d)
      BY <2>1, <2>4 DEF BegunInv, Begun, Started
    <2>6. HeldFrom(s, out[i])
      <3>1. HeldFrom(stream[i], out[i])
        BY <1>1 DEF Genuine
      <3>2. /\ Buffered(s.window) = Buffered(stream[i].window)
            /\ s.window.buffer = stream[i].window.buffer
        BY <2>2, <2>4, AdvanceBuffered DEF Advance, Window
      <3>3. QED BY <2>4, <3>1, <3>2 DEF HeldFrom
    <2>7. ~Paused(s) => g.seq = Len(d) + 1
      <3>1. stream[i].window.expected = Len(d) + Len(stream[i].queue) + 1
        BY <2>1 DEF OrderInv, Numbered
      <3>2. ~Paused(s) => stream[i].queue = <<>>
        BY <2>1, <2>4 DEF OrderInv, Resting, Paused
      <3>3. PICK m \in Nat : m = Len(d)
        BY <1>1
      <3>4. stream[i].queue = <<>> => stream[i].window.expected = m + 1
        BY <3>1, <3>3
      <3>5. g.seq = stream[i].window.expected
        BY <2>2
      <3>6. QED BY <3>2, <3>3, <3>4, <3>5
    <2>8. From(g, out[i])
      BY <1>2, <1>4
    <2> HIDE DEF g
    <2>9. CASE DeliverOrQueue(i, s, g, bytes)
      BY <1>1, <2>3, <2>6, <2>8, <2>9, DeliverHonest
    <2>10. CASE DeliverOrQueueFails(s, g, bytes)
      BY <1>1, <2>5, <2>7, <2>8, <2>10, DeliverFailsHonest
    <2>11. QED BY <1>4, <2>9, <2>10 DEF ReceiveNext, s
  <1>5. CASE f.type \in OrderedTypes /\ ReceiveAhead(i, g)
    <2> DEFINE s == stream[i]
               t == [s EXCEPT !.window = Keep(@, f.seq, f.type), !.bytes = @ + 1]
    <2>1. /\ stream' = [stream EXCEPT ![i] = t]
          /\ f.seq \in SeqNos /\ failure' = failure /\ delivered' = delivered
      BY <1>5 DEF ReceiveAhead, IsAhead, histories
    <2>2. s \in Stream /\ s.window \in Window
      BY <1>1 DEF TypeOK, Stream
    <2>3. t.queue = s.queue /\ t.window = Keep(s.window, f.seq, f.type)
      BY <2>2 DEF Stream
    <2>4. /\ Buffered(t.window) = Buffered(s.window) \cup {f.seq}
          /\ t.window.buffer = [s.window.buffer EXCEPT ![f.seq] = f.type]
      <3>1. Keep(s.window, f.seq, f.type).buffer
              = [s.window.buffer EXCEPT ![f.seq] = f.type]
        BY <2>2 DEF Keep, Window
      <3>2. QED BY <1>5, <2>1, <2>2, <2>3, <3>1, KeepBuffered
    <2>5. HeldFrom(s, out[i]) /\ LogFrom(d, out[i])
      BY <1>1 DEF Genuine
    <2> HIDE DEF t, s
    <2>6. ASSUME NEW n \in Buffered(t.window)
          PROVE  From([type |-> t.window.buffer[n], seq |-> n], out[i])
      <3>1. s.window.buffer \in [SeqNos -> OrderedTypes \cup {NoFrame}]
            /\ Buffered(s.window) \subseteq SeqNos
        BY <2>2 DEF Window, Buffered
      <3>2. CASE n = f.seq
        <4>1. t.window.buffer[n] = f.type
          BY <2>1, <2>4, <3>1, <3>2
        <4>2. QED BY <1>2, <1>5, <3>2, <4>1
      <3>3. CASE n # f.seq
        <4>1. n \in Buffered(s.window) /\ t.window.buffer[n] = s.window.buffer[n]
          BY <2>4, <3>1, <3>3
        <4>2. QED BY <2>5, <4>1 DEF HeldFrom
      <3>4. QED BY <3>2, <3>3
    <2>7. HeldFrom(t, out[i])
      BY <2>3, <2>5, <2>6 DEF HeldFrom
    <2>8. QED BY <1>1, <2>1, <2>5, <2>7, UpdateHonest
  <1>6. CASE ReceiveCancellation(i)
    <2>1. UNCHANGED histories /\ (DropStream(i) \/ Fail("consumer-handler-error"))
      BY <1>6 DEF ReceiveCancellation
    <2>2. QED BY <1>1, <2>1, DropHonest, FailHonest DEF histories, Accusations
  <1>7. CASE ReceiveFatal(f)
    <2>1. UNCHANGED histories
      BY <1>7 DEF ReceiveFatal
    <2>2. f.type = "ERROR" => f.seq = 0
      BY DEF Honest, OrderedTypes, StartTypes
    <2>3. f.type # "OTHER"
      BY DEF Honest, OrderedTypes, StartTypes
    <2>4. f.type \in OrderedTypes => ~OutOfBounds(f.seq)
      <3> SUFFICES ASSUME f.type \in OrderedTypes PROVE f.seq \in SeqNos
        BY DEF OutOfBounds
      <3>1. f.seq \in 1..Len(out[i]) /\ Len(out[i]) \in Nat /\ Len(out[i]) <= MaxSeq
        BY <1>1, <1>2 DEF From, Shape
      <3>2. QED BY <3>1, WindowAssumption DEF SeqNos
    <2>5. \/ Fail("unallocated-frame-before-headers") \/ Fail("stream-allocation-limit")
          \/ Fail("ordering-overflow")
      BY <1>7, <2>2, <2>3, <2>4 DEF ReceiveFatal
    <2>6. QED BY <2>1, <2>5, FailHonest DEF Accusations
  <1>8. QED BY <1>3, <1>4, <1>5, <1>6, <1>7 DEF Receive

(* Draining keeps the receiver on the peer's sequence. *)
LEMMA DrainHonest ==
  ASSUME TypeOK, OrderInv, BegunInv, NEW out \in [Ids -> Seq(SentFrame)],
         \A i \in Ids : Shape(out[i]), Genuine(stream, delivered, out),
         NEW id \in Ids, Drain(id)
  PROVE  HonestStep(out)
  <1> DEFINE d == delivered[id]
             w == stream[id].window
             q == stream[id].queue
  <1>1. /\ stream[id] \in Stream /\ w \in Window /\ q \in Seq(Frame)
        /\ d \in Seq(Frame) /\ stream[id].bytes - 1 \in Int
        /\ out[id] \in Seq(SentFrame) /\ Shape(out[id])
    BY DEF TypeOK, Stream
  <1>2. HeldFrom(stream[id], out[id])
    BY DEF Genuine
  <1>3. CASE DrainQueue(id)
    <2> DEFINE s == [stream[id] EXCEPT !.queue = Tail(@), !.bytes = @ - 1]
               g == Head(q)
    <2>1. id \in streams /\ q # <<>> /\ ~Paused(stream[id])
      BY <1>3 DEF DrainQueue
    <2>2. /\ g \in Frame /\ g = q[1] /\ Tail(q) \in Seq(Frame)
          /\ Len(q) \in Nat /\ Len(q) # 0 /\ Len(Tail(q)) = Len(q) - 1
          /\ \A n \in 1..(Len(q) - 1) : Tail(q)[n] = q[n + 1]
      BY <1>1, <2>1, HeadTailProperties
    <2>3. s \in Stream
      BY <1>1, <2>2 DEF Stream
    <2>4. /\ s.openType = stream[id].openType /\ s.ended = stream[id].ended
          /\ s.queue = Tail(q) /\ s.window = w
      BY <1>1 DEF Stream
    <2> HIDE DEF s, g
    <2>5. Begun(s, d)
      BY <2>1, <2>4 DEF BegunInv, Begun, Started
    <2>6. 1 \in 1..Len(q) /\ \A n \in 1..(Len(q) - 1) : n + 1 \in 1..Len(q)
      BY <2>2
    <2>7. From(g, out[id])
      BY <1>2, <2>2, <2>6 DEF HeldFrom, LogFrom
    <2>8. HeldFrom(s, out[id])
      BY <1>2, <2>2, <2>4, <2>6 DEF HeldFrom, LogFrom
    <2>9. g.seq = Len(d) + 1
      BY <2>1, <2>2, <2>6 DEF OrderInv, Numbered
    <2>10. CASE DeliverOrQueue(id, s, g, bytes - 1)
      BY <2>2, <2>3, <2>7, <2>8, <2>10, DeliverHonest
    <2>11. CASE DeliverOrQueueFails(s, g, bytes - 1)
      BY <1>1, <2>5, <2>7, <2>9, <2>11, DeliverFailsHonest
    <2>12. QED BY <1>3, <2>10, <2>11 DEF DrainQueue, s, g
  <1>4. CASE DrainWindow(id)
    <2> DEFINE s == [stream[id] EXCEPT !.window = Take(@), !.bytes = @ - 1]
               g == [type |-> w.buffer[w.expected], seq |-> w.expected]
    <2>1. id \in streams /\ CanTake(w) /\ (Paused(stream[id]) \/ q = <<>>)
      BY <1>4 DEF DrainWindow
    <2>2. /\ g \in Frame /\ Take(w) \in Window
          /\ w.expected \in Buffered(w)
      BY <1>1, <2>1, TakeType DEF Frame, CanTake
    <2>3. s \in Stream
      <3>1. s = [[stream[id] EXCEPT !.window = Take(w)] EXCEPT !.bytes = stream[id].bytes - 1]
        BY <1>1 DEF Stream
      <3>2. QED BY <1>1, <2>2, <3>1, SetWindowType, SetBytesType
    <2>4. /\ s.openType = stream[id].openType /\ s.ended = stream[id].ended
          /\ s.queue = q /\ s.window = Take(w) /\ s.owners = stream[id].owners
      BY <1>1 DEF Stream
    <2> HIDE DEF s
    <2>5. Begun(s, d)
      BY <2>1, <2>4 DEF BegunInv, Begun, Started
    <2>6. From(g, out[id])
      BY <1>2, <2>2 DEF HeldFrom
    <2>7. HeldFrom(s, out[id])
      <3>1. Buffered(s.window) = Buffered(w) \ {w.expected}
        BY <1>1, <2>1, <2>4, TakeBuffered
      <3>2. Take(w).buffer = [w.buffer EXCEPT ![w.expected] = NoFrame]
        <4> DEFINE rest == [w EXCEPT !.buffer[w.expected] = NoFrame, !.expected = @ + 1]
                   timer == rest.gapTimer /\ Buffered(rest) # {}
        <4>1. Take(w) = [rest EXCEPT !.gapTimer = timer]
          BY DEF Take
        <4>2. rest.buffer = [w.buffer EXCEPT ![w.expected] = NoFrame]
          BY <1>1 DEF Window
        <4> HIDE DEF timer
        <4>3. Take(w).buffer = rest.buffer
          BY <1>1, <4>1 DEF Window
        <4>4. QED BY <4>2, <4>3
      <3>3. w.buffer \in [SeqNos -> OrderedTypes \cup {NoFrame}]
            /\ Buffered(w) \subseteq SeqNos
        BY <1>1 DEF Window, Buffered
      <3>4. \A n \in Buffered(s.window) :
              n \in Buffered(w) /\ s.window.buffer[n] = w.buffer[n]
        BY <2>4, <3>1, <3>2, <3>3
      <3>5. QED BY <1>2, <2>4, <3>4 DEF HeldFrom
    <2>8. ~Paused(s) => g.seq = Len(d) + 1
      <3>1. w.expected = Len(d) + Len(q) + 1
        BY <2>1 DEF OrderInv, Numbered
      <3>2. ~Paused(s) => q = <<>>
        BY <2>1, <2>4 DEF Paused
      <3>3. PICK m \in Nat : m = Len(d)
        BY <1>1
      <3>4. q = <<>> => w.expected = m + 1
        BY <3>1, <3>3
      <3>5. QED BY <3>2, <3>3, <3>4
    <2> HIDE DEF g
    <2>9. CASE DeliverOrQueue(id, s, g, bytes - 1)
      BY <2>2, <2>3, <2>6, <2>7, <2>9, DeliverHonest
    <2>10. CASE DeliverOrQueueFails(s, g, bytes - 1)
      BY <1>1, <2>5, <2>6, <2>8, <2>10, DeliverFailsHonest
    <2>11. QED BY <1>4, <2>9, <2>10 DEF DrainWindow, s, g
  <1>5. CASE DrainEnd(id)
    <2>1. UNCHANGED <<failure, stream, delivered>>
      BY <1>5 DEF DrainEnd, histories
    <2>2. QED BY <2>1, QuietHonest
  <1>6. QED BY <1>3, <1>4, <1>5 DEF Drain

(* Pauses, calls, sends and timers neither take nor invent a frame.        *)
LEMMA CallsHonest ==
  ASSUME TypeOK, OrderInv, NEW out, Genuine(stream, delivered, out),
         \/ \E id \in Ids : Sends(id) \/ StreamCalls(id)
         \/ SessionCalls
         \/ \E id \in Ids : GapTimeout(id) \/ FlowTimeout(id)
  PROVE  HonestStep(out)
  <1>1. ASSUME NEW reason, reason \notin Accusations, Fail(reason), UNCHANGED histories
        PROVE  HonestStep(out)
    BY <1>1, FailHonest
  <1>2. ASSUME NEW owner \in Owners, NEW ids, PauseAs(owner, ids) \/ ResumeAs(owner, ids)
        PROVE  HonestStep(out)
    <2>1. delivered' = delivered /\ failure' = failure
      BY <1>2 DEF PauseAs, ResumeAs, histories
    <2>2. ASSUME NEW i \in Ids
          PROVE  stream'[i].window = stream[i].window /\ stream'[i].queue = stream[i].queue
      <3>1. \/ stream'[i] = IF i \in ids THEN PausedBy(stream[i], owner) ELSE stream[i]
            \/ stream'[i] = IF i \in ids THEN ResumedBy(stream[i], owner) ELSE stream[i]
        BY <1>2 DEF PauseAs, ResumeAs
      <3>2. stream[i] \in Stream
        BY DEF TypeOK
      <3>3. QED BY <3>1, <3>2 DEF PausedBy, ResumedBy, Stream
    <2>3. QED BY <2>1, <2>2, QuietHonest
  <1>3. ASSUME NEW id \in Ids, Sends(id) PROVE HonestStep(out)
    <2>1. CASE SendCancellation(id)
      BY <2>1, DropHonest DEF SendCancellation
    <2>2. ASSUME NEW type \in OrderedTypes, SendFails(id, type) PROVE HonestStep(out)
      BY <2>2, <1>1 DEF SendFails, Accusations
    <2>3. ASSUME NEW type \in OrderedTypes, NEW err \in BOOLEAN, SendOrdered(id, type, err)
          PROVE  HonestStep(out)
      <3> DEFINE s == SendState(id)
                 t == [s EXCEPT !.outStarted = TRUE,
                                !.outEnded = (type = "FIN"),
                                !.outErrorStatus = IF ~Initiator /\ type = "HEADERS"
                                                   THEN err ELSE @,
                                !.seq = @ + 1]
      <3>1. delivered' = delivered
        BY <2>3 DEF SendOrdered
      <3>2. CASE DropStream(id)
        BY <3>1, <3>2, DropHonest
      <3>3. CASE stream' = [stream EXCEPT ![id] = t] /\ failure' = failure
        <4>1. s \in Stream
          BY OpenedStreamType DEF SendState, TypeOK
        <4>2. t.window = s.window /\ t.queue = s.queue
          <5> HIDE DEF s
          <5> QED BY <4>1 DEF Stream
        <4>3. s = stream[id] \/ (s.window = NewWindow /\ s.queue = <<>>)
          BY OpenedBlank DEF SendState
        <4> HIDE DEF t, s
        <4>4. stream'[id] = t /\ \A i \in Ids \ {id} : stream'[i] = stream[i]
          BY <3>3 DEF TypeOK
        <4>5. QED BY <3>1, <3>3, <4>2, <4>3, <4>4, QuietHonest
      <3>4. QED BY <2>3, <3>2, <3>3 DEF SendOrdered
    <2>4. QED BY <1>3, <2>1, <2>2, <2>3 DEF Sends
  <1>4. ASSUME NEW id \in Ids, StreamCalls(id) PROVE HonestStep(out)
    <2>1. CASE Open(id)
      <3>1. UNCHANGED histories
        BY <2>1 DEF Open
      <3>2. CASE Fail("stream-id-reuse-or-invalid") \/ Fail("stream-allocation-limit")
        BY <1>1, <3>1, <3>2 DEF Accusations
      <3>3. CASE stream' = [stream EXCEPT ![id] = OpenedStream] /\ failure' = failure
        <4>1. stream'[id] = OpenedStream /\ \A i \in Ids \ {id} : stream'[i] = stream[i]
          BY <3>3 DEF TypeOK
        <4>2. delivered' = delivered
          BY <3>1 DEF histories
        <4>3. QED BY <3>3, <4>1, <4>2, OpenedBlank, QuietHonest
      <3>4. QED BY <2>1, <3>2, <3>3 DEF Open
    <2>2. CASE Drop(id)
      BY <2>2, DropHonest DEF Drop, histories
    <2>3. CASE Pause(id) \/ Resume(id)
      BY <1>2, <2>3 DEF Pause, Resume, Owners
    <2>4. QED BY <1>4, <2>1, <2>2, <2>3 DEF StreamCalls
  <1>5. CASE SessionCalls
    <2>1. CASE PauseAll \/ ResumeAll
      BY <1>2, <2>1 DEF PauseAll, ResumeAll, Owners
    <2>2. CASE OwnerFails
      BY <1>1, <2>2 DEF OwnerFails, Accusations
    <2>3. QED BY <1>5, <2>1, <2>2 DEF SessionCalls
  <1>6. ASSUME NEW id \in Ids, GapTimeout(id) \/ FlowTimeout(id) PROVE HonestStep(out)
    BY <1>1, <1>6 DEF GapTimeout, FlowTimeout, Accusations
  <1>7. QED BY <1>3, <1>4, <1>5, <1>6

----------------------------------------------------------------------------
(* The race with the opening of a stream.                                  *)

(* Only the client gives up on a frame without its opening, at once, and   *)
(* on a stream of which its consumer has taken nothing.                    *)
LEMMA RaceReceive ==
  ASSUME TypeOK, OrderInv, NEW f \in InboundFrames, Receive(f), failure' = Race
  PROVE  /\ ~Initiator
         /\ delivered' = delivered /\ delivered[f.id] = <<>>
         /\ ~IsStart(f.type) \/ f.seq # 1
  <1>1. ASSUME NEW reason, reason # Race, Fail(reason) PROVE FALSE
    BY <1>1 DEF Fail
  <1>2. ASSUME NEW s, NEW g, NEW total, DeliverOrQueueFails(s, g, total) PROVE FALSE
    BY <1>1, <1>2 DEF DeliverOrQueueFails, Race
  <1>3. ASSUME Alive, failure' = failure PROVE FALSE
    BY <1>3 DEF Alive, Race
  <1>4. ASSUME NEW s, NEW g, NEW total, Alive, DeliverOrQueue(f.id, s, g, total)
        PROVE  FALSE
    BY <1>3, <1>4 DEF DeliverOrQueue
  <1>5. ReceiveFatal(f)
    <2>1. ~ReceiveOpening(f.id, f.type)
      BY <1>2, <1>4 DEF ReceiveOpening
    <2>2. ~ReceiveNext(f.id, [type |-> f.type, seq |-> f.seq])
      BY <1>2, <1>4 DEF ReceiveNext
    <2>3. ~ReceiveAhead(f.id, [type |-> f.type, seq |-> f.seq])
      BY <1>3 DEF ReceiveAhead
    <2>4. ~ReceiveCancellation(f.id)
      BY <1>1, <1>3 DEF ReceiveCancellation, DropStream, Race
    <2>5. QED BY <2>1, <2>2, <2>3, <2>4 DEF Receive
  <1>6. /\ ~Initiator /\ f.id \notin known
        /\ ~IsStart(f.type) \/ f.seq # 1
    BY <1>1, <1>5 DEF ReceiveFatal, Race
  <1>7. Alive /\ delivered' = delivered
    BY <1>5 DEF ReceiveFatal, histories
  <1>8. delivered[f.id] = <<>>
    BY <1>6, <1>7, InboundFrameType DEF OrderInv, Allocation
  <1>9. QED BY <1>6, <1>7, <1>8

(* Nothing else that an end does raises that reason.                       *)
LEMMA RaceQuiet ==
  ASSUME \/ \E id \in Ids : Drain(id) \/ Sends(id) \/ StreamCalls(id)
         \/ SessionCalls
         \/ \E id \in Ids : GapTimeout(id) \/ FlowTimeout(id),
         failure' = Race
  PROVE  failure = Race
  <1>1. ASSUME NEW reason, reason # Race, Fail(reason) PROVE FALSE
    BY <1>1 DEF Fail
  <1>2. ASSUME NEW s, NEW g, NEW total, DeliverOrQueueFails(s, g, total) PROVE FALSE
    BY <1>1, <1>2 DEF DeliverOrQueueFails, Race
  <1>3. ASSUME NEW id \in Ids, Drain(id) PROVE failure' = failure
    BY <1>2, <1>3 DEF Drain, DrainQueue, DrainWindow, DrainEnd, DeliverOrQueue
  <1>4. ASSUME NEW id \in Ids, Sends(id) PROVE failure' = failure
    <2>1. CASE SendCancellation(id)
      BY <2>1 DEF SendCancellation, DropStream
    <2>2. ASSUME NEW type \in OrderedTypes, NEW err \in BOOLEAN, SendOrdered(id, type, err)
          PROVE  failure' = failure
      BY <2>2 DEF SendOrdered, DropStream
    <2>3. ASSUME NEW type \in OrderedTypes, SendFails(id, type) PROVE FALSE
      BY <1>1, <2>3 DEF SendFails, Race
    <2>4. QED BY <1>4, <2>1, <2>2, <2>3 DEF Sends
  <1>5. ASSUME NEW id \in Ids, StreamCalls(id) PROVE failure' = failure
    BY <1>1, <1>5 DEF StreamCalls, Open, Drop, DropStream, Pause, Resume, PauseAs,
       ResumeAs, Race
  <1>6. CASE SessionCalls
    BY <1>1, <1>6 DEF SessionCalls, PauseAll, ResumeAll, OwnerFails, PauseAs, ResumeAs,
       Race
  <1>7. ASSUME NEW id \in Ids, GapTimeout(id) \/ FlowTimeout(id) PROVE FALSE
    BY <1>1, <1>7 DEF GapTimeout, FlowTimeout, Race
  <1>8. QED BY <1>3, <1>4, <1>5, <1>6, <1>7

----------------------------------------------------------------------------
(* Histories only grow, one frame of one stream at a time.                 *)

(* A cancellation that was sent stays sent.                                *)
LEMMA CancelledGrows ==
  ASSUME Next
  PROVE  cancelled \subseteq cancelled'
  <1>1. ASSUME NEW id, NEW s, NEW f, NEW total,
               DeliverOrQueue(id, s, f, total) \/ DeliverOrQueueFails(s, f, total)
        PROVE  cancelled' = cancelled
    BY <1>1 DEF DeliverOrQueue, DeliverOrQueueFails, histories
  <1>2. ASSUME NEW f \in InboundFrames, Receive(f) PROVE cancelled' = cancelled
    BY <1>1, <1>2 DEF Receive, ReceiveOpening, ReceiveNext, ReceiveAhead,
       ReceiveCancellation, ReceiveFatal, histories
  <1>3. ASSUME NEW id \in Ids, Sends(id) PROVE cancelled \subseteq cancelled'
    BY <1>3 DEF Sends, SendCancellation, SendOrdered, SendFails, histories
  <1>4. ASSUME NEW id \in Ids, StreamCalls(id) PROVE cancelled' = cancelled
    BY <1>4 DEF StreamCalls, Open, Drop, Pause, Resume, PauseAs, ResumeAs, histories
  <1>5. CASE SessionCalls
    BY <1>5 DEF SessionCalls, PauseAll, ResumeAll, OwnerFails, PauseAs, ResumeAs,
       histories
  <1>6. ASSUME NEW id \in Ids, Drain(id) PROVE cancelled' = cancelled
    BY <1>1, <1>6 DEF Drain, DrainQueue, DrainWindow, DrainEnd, histories
  <1>7. ASSUME NEW id \in Ids, GapTimeout(id) \/ FlowTimeout(id)
        PROVE  cancelled' = cancelled
    BY <1>7 DEF GapTimeout, FlowTimeout, histories
  <1>8. QED BY <1>2, <1>3, <1>4, <1>5, <1>6, <1>7 DEF Next, Internal

GrowsBy(log, more, set) ==
  \/ more = log
  \/ \E x \in set : more = Append(log, x)

(* What receiving and draining do to the histories.                        *)
LEMMA TakesOne ==
  ASSUME TypeOK, (\E f \in InboundFrames : Receive(f)) \/ (\E id \in Ids : Drain(id))
  PROVE  /\ sent' = sent
         /\ \A i \in Ids : GrowsBy(delivered[i], delivered'[i], Frame)
  <1>1. ASSUME NEW id \in Ids, NEW s, NEW f \in Frame, NEW total,
               DeliverOrQueue(id, s, f, total) \/ DeliverOrQueueFails(s, f, total)
        PROVE  /\ sent' = sent
               /\ \A i \in Ids : GrowsBy(delivered[i], delivered'[i], Frame)
    <2>1. sent' = sent
      BY <1>1 DEF DeliverOrQueue, DeliverOrQueueFails, histories
    <2>2. delivered' \in {delivered, [delivered EXCEPT ![id] = Append(@, f)]}
      BY <1>1 DEF DeliverOrQueue, DeliverOrQueueFails, histories
    <2>3. QED BY <2>1, <2>2 DEF GrowsBy, TypeOK
  <1>2. UNCHANGED histories
          => sent' = sent /\ \A i \in Ids : GrowsBy(delivered[i], delivered'[i], Frame)
    BY DEF histories, GrowsBy
  <1>3. ASSUME NEW f \in InboundFrames, Receive(f)
        PROVE  /\ sent' = sent
               /\ \A i \in Ids : GrowsBy(delivered[i], delivered'[i], Frame)
    <2>0. f.id \in Ids
      BY InboundFrameType
    <2>1. CASE f.seq = 1 /\ IsStart(f.type) /\ ReceiveOpening(f.id, f.type)
      <3>1. [type |-> f.type, seq |-> 1] \in Frame
        BY <2>1, WindowAssumption DEF Frame, IsStart, OrderedTypes, SeqNos
      <3>2. QED BY <1>1, <2>0, <2>1, <3>1 DEF ReceiveOpening
    <2>2. CASE f.type \in OrderedTypes
               /\ ReceiveNext(f.id, [type |-> f.type, seq |-> f.seq])
      <3>1. [type |-> f.type, seq |-> f.seq] \in Frame
        BY <2>2 DEF Frame, ReceiveNext, IsNext
      <3>2. QED BY <1>1, <2>0, <2>2, <3>1 DEF ReceiveNext
    <2>3. CASE ReceiveAhead(f.id, [type |-> f.type, seq |-> f.seq])
      BY <1>2, <2>3 DEF ReceiveAhead
    <2>4. CASE ReceiveCancellation(f.id) \/ ReceiveFatal(f)
      BY <1>2, <2>4 DEF ReceiveCancellation, ReceiveFatal
    <2>5. QED BY <1>3, <2>1, <2>2, <2>3, <2>4 DEF Receive
  <1>4. ASSUME NEW id \in Ids, Drain(id)
        PROVE  /\ sent' = sent
               /\ \A i \in Ids : GrowsBy(delivered[i], delivered'[i], Frame)
    <2>1. stream[id] \in Stream /\ stream[id].window \in Window
          /\ stream[id].queue \in Seq(Frame)
      BY DEF TypeOK, Stream
    <2>2. CASE DrainQueue(id)
      <3>1. Head(stream[id].queue) \in Frame
        BY <2>1, <2>2, HeadTailProperties DEF DrainQueue
      <3>2. QED BY <1>1, <2>2, <3>1 DEF DrainQueue
    <2>3. CASE DrainWindow(id)
      <3> DEFINE w == stream[id].window
      <3>1. [type |-> w.buffer[w.expected], seq |-> w.expected] \in Frame
        BY <2>1, <2>3, TakeType DEF DrainWindow, Frame
      <3>2. QED BY <1>1, <2>3, <3>1 DEF DrainWindow
    <2>4. CASE DrainEnd(id)
      BY <1>2, <2>4 DEF DrainEnd
    <2>5. QED BY <1>4, <2>2, <2>3, <2>4 DEF Drain
  <1>5. QED BY <1>3, <1>4

(* What a call, a send or a timer does to them.                            *)
LEMMA SaysOne ==
  ASSUME TypeOK,
         \/ \E id \in Ids : Sends(id) \/ StreamCalls(id)
         \/ SessionCalls
         \/ \E id \in Ids : GapTimeout(id) \/ FlowTimeout(id)
  PROVE  /\ delivered' = delivered
         /\ \A i \in Ids : GrowsBy(sent[i], sent'[i], SentFrame)
  <1>1. UNCHANGED <<delivered, sent>>
          => delivered' = delivered /\ \A i \in Ids : GrowsBy(sent[i], sent'[i], SentFrame)
    BY DEF GrowsBy
  <1>2. ASSUME NEW id \in Ids, Sends(id)
        PROVE  delivered' = delivered /\ \A i \in Ids : GrowsBy(sent[i], sent'[i], SentFrame)
    <2>1. CASE SendCancellation(id) \/ \E type \in OrderedTypes : SendFails(id, type)
      BY <1>1, <2>1 DEF SendCancellation, SendFails, histories
    <2>2. ASSUME NEW type \in OrderedTypes, NEW err \in BOOLEAN, SendOrdered(id, type, err)
          PROVE  delivered' = delivered
                 /\ \A i \in Ids : GrowsBy(sent[i], sent'[i], SentFrame)
      <3> DEFINE f == [type |-> type, err |-> err]
      <3>1. delivered' = delivered /\ sent' = [sent EXCEPT ![id] = Append(@, f)]
        BY <2>2 DEF SendOrdered
      <3>2. f \in SentFrame
        BY DEF SentFrame
      <3> HIDE DEF f
      <3>3. QED BY <3>1, <3>2 DEF GrowsBy, TypeOK
    <2>3. QED BY <1>2, <2>1, <2>2 DEF Sends
  <1>3. ASSUME NEW id \in Ids, StreamCalls(id) PROVE UNCHANGED <<delivered, sent>>
    BY <1>3 DEF StreamCalls, Open, Drop, Pause, Resume, PauseAs, ResumeAs, histories
  <1>4. CASE SessionCalls
    BY <1>1, <1>4 DEF SessionCalls, PauseAll, ResumeAll, OwnerFails, PauseAs, ResumeAs,
       histories
  <1>5. ASSUME NEW id \in Ids, GapTimeout(id) \/ FlowTimeout(id)
        PROVE  UNCHANGED <<delivered, sent>>
    BY <1>5 DEF GapTimeout, FlowTimeout, histories
  <1>6. QED BY <1>1, <1>2, <1>3, <1>4, <1>5

----------------------------------------------------------------------------
(* No response ends before its request.                                    *)

(* Taking a frame takes no justification away.                             *)
LEMMA JustifiedTakes ==
  ASSUME NEW d \in Seq(Frame), NEW e, GrowsBy(d, e, Frame), NEW out, Justified(d, out)
  PROVE  Justified(e, out)
  <1>1. CASE e = d
    BY <1>1
  <1>2. ASSUME NEW f \in Frame, e = Append(d, f) PROVE Justified(e, out)
    <2>1. /\ Len(e) = Len(d) + 1 /\ Len(d) \in Nat /\ e # <<>>
          /\ \A n \in 1..Len(d) : e[n] = d[n]
          /\ d # <<>> => 1 \in 1..Len(d)
      BY <1>2
    <2>2. Has(d, "FIN") => Has(e, "FIN")
      BY <2>1 DEF Has
    <2>3. d # <<>> => e[1] = d[1]
      BY <2>1
    <2>4. QED BY <2>1, <2>2, <2>3 DEF Justified
  <1>3. QED BY <1>1, <1>2 DEF GrowsBy

(* A client that says FIN has the whole request, or answers an upgrade, or *)
(* with an error: what _prepareOutbound tests is true of the histories.    *)
LEMMA JustifiedSays ==
  ASSUME EndInv, ~Initiator, NEW id \in Ids, NEW type \in OrderedTypes,
         NEW err \in BOOLEAN, SendOrdered(id, type, err), delivered[id] # <<>>,
         \A i \in Ids : Justified(delivered[i], sent[i])
  PROVE  \A i \in Ids : Justified(delivered'[i], sent'[i])
  <1> DEFINE d == delivered[id]
             out == sent[id]
             s == stream[id]
             f == [type |-> type, err |-> err]
             m == Append(out, f)
  <1>1. /\ id \in streams /\ SendState(id) = s
        /\ ~MisorderedOutput(s, type) /\ ~Premature(s, type)
        /\ delivered' = delivered /\ sent' = [sent EXCEPT ![id] = Append(@, f)]
    BY DEF SendOrdered, OpensBySending, SendState
  <1>2. /\ s \in Stream /\ out \in Seq(SentFrame) /\ d \in Seq(Frame)
        /\ Begun(s, d) /\ Said(s, out)
    BY <1>1 DEF EndInv, TypeOK, BegunInv, OutputInv
  <1>3. f \in SentFrame /\ f.type = type
    BY DEF SentFrame
  <1>4. /\ Len(m) = Len(out) + 1 /\ Len(out) \in Nat /\ m[Len(out) + 1] = f
        /\ \A n \in 1..Len(out) : m[n] = out[n]
        /\ out # <<>> => 1 \in 1..Len(out)
    BY <1>2, <1>3
  <1>5. sent'[id] = m /\ \A i \in Ids \ {id} : sent'[i] = sent[i]
    BY <1>1 DEF EndInv, TypeOK
  <1>6. Justified(d, m)
    <2> SUFFICES ASSUME Has(m, "FIN")
                 PROVE  Has(d, "FIN") \/ (d # <<>> /\ d[1].type = "UPGRADE") \/ m[1].err
      BY DEF Justified
    <2> HIDE DEF m, f, d, out, s
    <2>1. type = "FIN"
      <3>1. ~Has(out, "FIN")
        BY <1>1, <1>2 DEF Said, MisorderedOutput
      <3>2. PICK n \in 1..(Len(out) + 1) : m[n].type = "FIN"
        BY <1>4 DEF Has
      <3>3. n \notin 1..Len(out)
        BY <1>4, <3>1, <3>2 DEF Has
      <3>4. n = Len(out) + 1
        BY <1>4, <3>2, <3>3
      <3>5. QED BY <1>3, <1>4, <3>2, <3>4
    <2>2. s.openType # "HEADERS" \/ s.ended \/ s.outErrorStatus
      BY <1>1, <2>1 DEF Premature
    <2>3. d # <<>>
      BY DEF d
    <2>4. CASE s.openType # "HEADERS"
      <3>1. s.openType = d[1].type /\ s.openType # NoFrame
        BY <1>2, <2>3 DEF Begun, Started
      <3>2. s.openType \in {"HEADERS", "UPGRADE", NoFrame}
        BY <1>2 DEF Stream, StartTypes
      <3>3. QED BY <2>3, <2>4, <3>1, <3>2
    <2>5. CASE s.ended
      BY <1>2, <2>5 DEF Begun
    <2>6. CASE s.outErrorStatus
      <3>1. out # <<>> /\ out[1].err
        BY <1>2, <2>6 DEF Said
      <3>2. m[1] = out[1]
        BY <1>4, <3>1
      <3>3. QED BY <3>1, <3>2
    <2>7. QED BY <2>2, <2>4, <2>5, <2>6
  <1>7. QED BY <1>1, <1>5, <1>6

(* Every other call of a client says nothing.                              *)
LEMMA JustifiedCalls ==
  ASSUME EndInv, ~Initiator,
         \/ \E id \in Ids : delivered[id] # <<>> /\ Sends(id)
         \/ \E id \in Ids : StreamCalls(id)
         \/ SessionCalls
         \/ \E id \in Ids : GapTimeout(id) \/ FlowTimeout(id),
         \A i \in Ids : Justified(delivered[i], sent[i])
  PROVE  \A i \in Ids : Justified(delivered'[i], sent'[i])
  <1>1. ASSUME NEW id \in Ids, delivered[id] # <<>>, Sends(id)
        PROVE  \A i \in Ids : Justified(delivered'[i], sent'[i])
    <2>1. CASE SendCancellation(id) \/ \E type \in OrderedTypes : SendFails(id, type)
      BY <2>1 DEF SendCancellation, SendFails, histories
    <2>2. ASSUME NEW type \in OrderedTypes, NEW err \in BOOLEAN, SendOrdered(id, type, err)
          PROVE  \A i \in Ids : Justified(delivered'[i], sent'[i])
      BY <1>1, <2>2, JustifiedSays
    <2>3. QED BY <1>1, <2>1, <2>2 DEF Sends
  <1>2. ASSUME NEW id \in Ids, StreamCalls(id) PROVE UNCHANGED <<delivered, sent>>
    BY <1>2 DEF StreamCalls, Open, Drop, Pause, Resume, PauseAs, ResumeAs, histories
  <1>3. CASE SessionCalls
    BY <1>3 DEF SessionCalls, PauseAll, ResumeAll, OwnerFails, PauseAs, ResumeAs, histories
  <1>4. ASSUME NEW id \in Ids, GapTimeout(id) \/ FlowTimeout(id)
        PROVE  UNCHANGED <<delivered, sent>>
    BY <1>4 DEF GapTimeout, FlowTimeout, histories
  <1>5. QED BY <1>1, <1>2, <1>3, <1>4
=============================================================================
