------------------------- MODULE SessionPairProofs -------------------------
(***************************************************************************)
(* The two ends of a session understand each other, for every value of the *)
(* constants: EndToEnd, NoEarlySuccess and BlamedOnlyInRace.               *)
(*                                                                         *)
(* None of them is inductive.  A consumer takes what its end holds in the  *)
(* window and in the flow queue, so PairInv says that all of it, and not   *)
(* only what was taken, was said by the peer (Genuine); a response is      *)
(* justified when it is said, long before the server takes it (Justified); *)
(* and what a frame of the peer can provoke depends on the shape of what   *)
(* the peer said, which each end keeps to with any peer (EndInv).  From    *)
(* that shape it follows that a frame which overtakes its opening is not   *)
(* the only one of its stream, unless it is a cancellation.                *)
(***************************************************************************)
EXTENDS SessionPair, SequenceTheorems, TLAPS

PairInv ==
  /\ Client!EndInv
  /\ Server!EndInv
  /\ Client!Genuine(cStream, cDelivered, sSent)
  /\ Server!Genuine(sStream, sDelivered, cSent)
  /\ \A i \in Ids : Client!Justified(cDelivered[i], cSent[i])
  /\ BlamedOnlyInRace

----------------------------------------------------------------------------
(* The two instances speak of the same frames.                             *)
LEMMA SameSpeech ==
  /\ Client!SentFrame = Server!SentFrame
  /\ Client!OrderedTypes = Server!OrderedTypes
  /\ \A out : Client!Shape(out) <=> Server!Shape(out)
  <1>1. Client!OrderedTypes = Server!OrderedTypes
    BY DEF Client!OrderedTypes, Server!OrderedTypes, Client!StartTypes, Server!StartTypes
  <1>2. Client!SentFrame = Server!SentFrame
    BY <1>1 DEF Client!SentFrame, Server!SentFrame
  <1>3. \A type : Client!IsStart(type) <=> Server!IsStart(type)
    BY DEF Client!IsStart, Server!IsStart, Client!StartTypes, Server!StartTypes
  <1>4. \A out : Client!Shape(out) <=> Server!Shape(out)
    BY <1>3 DEF Client!Shape, Server!Shape
  <1>5. QED BY <1>1, <1>2, <1>4

(* What the server has said, as the client's lemmas need it.               *)
LEMMA ServerSpeech ==
  ASSUME Server!EndInv
  PROVE  /\ sSent \in [Ids -> Seq(Client!SentFrame)]
         /\ \A i \in Ids : Client!Shape(sSent[i])
  BY SameSpeech DEF Server!EndInv, Server!TypeOK, Server!OutputInv

(* What the client has said, as the server's lemmas need it.               *)
LEMMA ClientSpeech ==
  ASSUME Client!EndInv
  PROVE  /\ cSent \in [Ids -> Seq(Server!SentFrame)]
         /\ \A i \in Ids : Server!Shape(cSent[i])
  BY SameSpeech DEF Client!EndInv, Client!TypeOK, Client!OutputInv

(* What a lane can bring the client.                                       *)
ToClient(f) ==
  /\ Client!Honest(f, sSent)
  /\ f.type \in Client!OrderedTypes \/ f.id \in sCancelled

(* A frame or a cancellation that a lane brings is one the peer sent, and  *)
(* one that an end takes into account.                                     *)
LEMMA ClientFrame ==
  ASSUME PairInv, NEW id \in Ids, ClientReceives(id)
  PROVE  \E f \in Client!InboundFrames : ToClient(f) /\ Client!Receive(f)
  <1>1. CASE id \in sCancelled /\ Client!Receive([id |-> id, type |-> "ERROR", seq |-> 0])
    <2> DEFINE f == [id |-> id, type |-> "ERROR", seq |-> 0]
    <2>1. f \in Client!InboundFrames
      BY PairAssumption DEF Client!InboundFrames, Client!FrameTypes, Client!WindowAssumption
    <2>2. ToClient(f)
      BY <1>1 DEF ToClient, Client!Honest, Client!OrderedTypes, Client!StartTypes
    <2>3. QED BY <1>1, <2>1, <2>2
  <1>2. ASSUME NEW n \in DOMAIN sSent[id],
               Client!Receive([id |-> id, type |-> sSent[id][n].type, seq |-> n])
        PROVE  \E f \in Client!InboundFrames : ToClient(f) /\ Client!Receive(f)
    <2> DEFINE f == [id |-> id, type |-> sSent[id][n].type, seq |-> n]
    <2>1. sSent[id] \in Seq(Client!SentFrame) /\ Client!Shape(sSent[id])
      BY ServerSpeech DEF PairInv
    <2>2. n \in 1..Len(sSent[id]) /\ Len(sSent[id]) \in Nat /\ Len(sSent[id]) <= MaxSeq
      BY <2>1 DEF Client!Shape
    <2>3. sSent[id][n].type \in Client!OrderedTypes
      <3>1. sSent[id][n] \in Client!SentFrame
        BY <2>1, <2>2
      <3>2. QED BY <3>1 DEF Client!SentFrame
    <2>4. n \in 0..(MaxSeq + 1)
      BY <2>2, PairAssumption DEF Client!WindowAssumption
    <2>5. f \in Client!InboundFrames
      BY <2>3, <2>4 DEF Client!InboundFrames, Client!FrameTypes
    <2>6. ToClient(f)
      BY <2>2, <2>3 DEF ToClient, Client!Honest, Client!From
    <2>7. QED BY <1>2, <2>5, <2>6
  <1>3. QED BY <1>1, <1>2 DEF ClientReceives

(* The same in the other direction.                                        *)
LEMMA ServerFrame ==
  ASSUME PairInv, NEW id \in Ids, ServerReceives(id)
  PROVE  \E f \in Server!InboundFrames : Server!Honest(f, cSent) /\ Server!Receive(f)
  <1>1. CASE Server!Receive([id |-> id, type |-> "ERROR", seq |-> 0])
    <2> DEFINE f == [id |-> id, type |-> "ERROR", seq |-> 0]
    <2>1. f \in Server!InboundFrames
      BY PairAssumption DEF Server!InboundFrames, Server!FrameTypes, Server!WindowAssumption
    <2>2. Server!Honest(f, cSent)
      BY DEF Server!Honest, Server!OrderedTypes, Server!StartTypes
    <2>3. QED BY <1>1, <2>1, <2>2
  <1>2. ASSUME NEW n \in DOMAIN cSent[id],
               Server!Receive([id |-> id, type |-> cSent[id][n].type, seq |-> n])
        PROVE  \E f \in Server!InboundFrames : Server!Honest(f, cSent) /\ Server!Receive(f)
    <2> DEFINE f == [id |-> id, type |-> cSent[id][n].type, seq |-> n]
    <2>1. cSent[id] \in Seq(Server!SentFrame) /\ Server!Shape(cSent[id])
      BY ClientSpeech DEF PairInv
    <2>2. n \in 1..Len(cSent[id]) /\ Len(cSent[id]) \in Nat /\ Len(cSent[id]) <= MaxSeq
      BY <2>1 DEF Server!Shape
    <2>3. cSent[id][n].type \in Server!OrderedTypes
      <3>1. cSent[id][n] \in Server!SentFrame
        BY <2>1, <2>2
      <3>2. QED BY <3>1 DEF Server!SentFrame
    <2>4. n \in 0..(MaxSeq + 1)
      BY <2>2, PairAssumption DEF Server!WindowAssumption
    <2>5. f \in Server!InboundFrames
      BY <2>3, <2>4 DEF Server!InboundFrames, Server!FrameTypes
    <2>6. Server!Honest(f, cSent)
      BY <2>2, <2>3 DEF Server!Honest, Server!From
    <2>7. QED BY <1>2, <2>5, <2>6
  <1>3. QED BY <1>1, <1>2 DEF ServerReceives

----------------------------------------------------------------------------
(* The steps of each end.                                                  *)

(* An end that does not move keeps its part of PairInv.                    *)
LEMMA ServerStill ==
  ASSUME PairInv, UNCHANGED serverVars
  PROVE  /\ Server!EndInv'
         /\ sSent' = sSent /\ sFailure' = sFailure /\ sCancelled' = sCancelled
         /\ Server!Genuine(sStream', sDelivered', cSent)
  <1>1. UNCHANGED Server!vars
    BY DEF serverVars, Server!vars
  <1>2. Server!EndInv'
    BY <1>1, PairAssumption, Server!EndStep DEF PairInv
  <1>3. sStream' = sStream /\ sDelivered' = sDelivered /\ sSent' = sSent
        /\ sFailure' = sFailure /\ sCancelled' = sCancelled
    BY DEF serverVars
  <1>4. QED BY <1>2, <1>3 DEF PairInv

(* Neither does the client.                                                *)
LEMMA ClientStill ==
  ASSUME PairInv, UNCHANGED clientVars
  PROVE  /\ Client!EndInv'
         /\ cSent' = cSent /\ cDelivered' = cDelivered /\ cFailure' = cFailure
         /\ Client!Genuine(cStream', cDelivered', sSent)
  <1>1. UNCHANGED Client!vars
    BY DEF clientVars, Client!vars
  <1>2. Client!EndInv'
    BY <1>1, PairAssumption, Client!EndStep DEF PairInv
  <1>3. cStream' = cStream /\ cDelivered' = cDelivered /\ cSent' = cSent
        /\ cFailure' = cFailure
    BY DEF clientVars
  <1>4. QED BY <1>2, <1>3 DEF PairInv

(* An honest step of one end finds no breach in the other.                 *)
LEMMA NoBreach ==
  /\ PairInv /\ ~Client!Accuses => cFailure' \notin Breaches
  /\ PairInv /\ ~Server!Accuses => sFailure' \notin Breaches
  /\ Client!Race = Unallocated /\ Server!Race = Unallocated
  /\ Unallocated # "none"
  <1>1. Client!Accusations = Breaches /\ Server!Accusations = Breaches
    BY DEF Client!Accusations, Server!Accusations, Breaches
  <1>2. Client!Race = Unallocated /\ Server!Race = Unallocated /\ Unallocated # "none"
    BY DEF Client!Race, Server!Race, Unallocated
  <1>3. QED BY <1>1, <1>2 DEF PairInv, BlamedOnlyInRace, Client!Accuses, Server!Accuses

(* Once a frame overtook its opening, a step of the server changes nothing *)
(* about it.                                                               *)
LEMMA OvertakenStays ==
  ASSUME PairInv, UNCHANGED clientVars, sCancelled \subseteq sCancelled',
         \A i \in Ids : Server!GrowsBy(sSent[i], sSent'[i], Server!SentFrame)
  PROVE  cFailure' = Unallocated => \E i \in Ids : Overtaken(i)'
  <1> SUFFICES ASSUME cFailure' = Unallocated PROVE \E i \in Ids : Overtaken(i)'
    OBVIOUS
  <1>1. PICK i \in Ids : Overtaken(i)
    BY ClientStill DEF PairInv, BlamedOnlyInRace
  <1>2. Len(sSent[i]) > 1 => Len(sSent'[i]) > 1
    <2>1. sSent[i] \in Seq(Server!SentFrame)
      BY DEF PairInv, Server!EndInv, Server!TypeOK
    <2>2. CASE sSent'[i] = sSent[i]
      BY <2>2
    <2>3. ASSUME NEW f \in Server!SentFrame, sSent'[i] = Append(sSent[i], f)
          PROVE  Len(sSent[i]) > 1 => Len(sSent'[i]) > 1
      BY <2>1, <2>3
    <2>4. QED BY <2>2, <2>3 DEF Server!GrowsBy
  <1>3. QED BY <1>1, <1>2, ClientStill DEF Overtaken

(* A client that gave up on such a frame takes nothing any more.           *)
LEMMA OvertakenForGood ==
  ASSUME PairInv, UNCHANGED serverVars, Client!Next, cFailure = Unallocated
  PROVE  \E i \in Ids : Overtaken(i)'
  <1>1. PICK i \in Ids : Overtaken(i)
    BY DEF PairInv, BlamedOnlyInRace
  <1>2. cDelivered' = cDelivered
    BY PairAssumption, NoBreach, Client!FailedStep
       DEF PairInv, Client!EndInv, Client!Alive, Client!histories
  <1>3. QED BY <1>1, <1>2, ServerStill DEF Overtaken

(* A frame on which the client gives up is a cancellation, or a second     *)
(* frame of its stream at the least.                                       *)
LEMMA OvertakenNow ==
  ASSUME PairInv, UNCHANGED serverVars, NEW f \in Client!InboundFrames, ToClient(f),
         Client!Receive(f), cFailure' = Unallocated
  PROVE  Overtaken(f.id)'
  <1>1. /\ f.id \in Ids /\ cDelivered'[f.id] = <<>>
        /\ ~Client!IsStart(f.type) \/ f.seq # 1
    BY PairAssumption, NoBreach, Client!RaceReceive, Client!InboundFrameType
       DEF PairInv, Client!EndInv
  <1>2. Len(sSent[f.id]) > 1 \/ f.id \in sCancelled
    <2> SUFFICES ASSUME f.type \in Client!OrderedTypes PROVE Len(sSent[f.id]) > 1
      BY DEF ToClient
    <2>1. sSent[f.id] \in Seq(Client!SentFrame) /\ Client!Shape(sSent[f.id])
      BY <1>1, ServerSpeech DEF PairInv
    <2>2. f.seq \in 1..Len(sSent[f.id]) /\ f.type = sSent[f.id][f.seq].type
      BY DEF ToClient, Client!Honest, Client!From
    <2>3. f.seq # 1
      BY <1>1, <2>1, <2>2 DEF Client!Shape
    <2>4. Len(sSent[f.id]) \in Nat
      BY <2>1
    <2>5. QED BY <2>2, <2>3, <2>4
  <1>3. QED BY <1>1, <1>2, ServerStill DEF Overtaken

(* The client takes a frame from a lane, or from its own window or queue.  *)
LEMMA ClientTakes ==
  ASSUME PairInv, UNCHANGED serverVars,
         \/ \E f \in Client!InboundFrames : ToClient(f) /\ Client!Receive(f)
         \/ \E id \in Ids : Client!Drain(id)
  PROVE  PairInv'
  <1>0. Client!Next
    BY DEF Client!Next, Client!Internal
  <1>1. Client!EndInv'
    BY <1>0, PairAssumption, Client!EndStep DEF PairInv
  <1>2. /\ sSent \in [Ids -> Seq(Client!SentFrame)]
        /\ \A i \in Ids : Client!Shape(sSent[i])
    BY ServerSpeech DEF PairInv
  <1>3. Client!HonestStep(sSent)
    BY <1>2, PairAssumption, Client!ReceiveHonest, Client!DrainHonest
       DEF PairInv, Client!EndInv, ToClient
  <1>4. /\ cSent' = cSent
        /\ \A i \in Ids : Client!GrowsBy(cDelivered[i], cDelivered'[i], Client!Frame)
    BY PairAssumption, Client!TakesOne DEF PairInv, Client!EndInv
  <1>5. \A i \in Ids : Client!Justified(cDelivered'[i], cSent'[i])
    <2> SUFFICES ASSUME NEW i \in Ids PROVE Client!Justified(cDelivered'[i], cSent[i])
      BY <1>4
    <2>1. cDelivered[i] \in Seq(Client!Frame) /\ Client!Justified(cDelivered[i], cSent[i])
      BY DEF PairInv, Client!EndInv, Client!TypeOK
    <2>2. QED BY <1>4, <2>1, PairAssumption, Client!JustifiedTakes
  <1>6. BlamedOnlyInRace'
    <2>1. cFailure' \notin Breaches /\ sFailure' \notin Breaches \cup {Unallocated}
      BY <1>3, NoBreach, ServerStill DEF Client!HonestStep, PairInv, BlamedOnlyInRace
    <2>2. ASSUME cFailure' = Unallocated PROVE \E i \in Ids : Overtaken(i)'
      <3>1. CASE cFailure = Unallocated
        BY <1>0, <3>1, OvertakenForGood
      <3>2. CASE cFailure # Unallocated
        <4>1. PICK f \in Client!InboundFrames : ToClient(f) /\ Client!Receive(f)
          BY <2>2, <3>2, NoBreach, PairAssumption, Client!RaceQuiet
        <4>2. f.id \in Ids
          BY PairAssumption, Client!InboundFrameType
        <4>3. QED BY <2>2, <4>1, <4>2, OvertakenNow
      <3>3. QED BY <3>1, <3>2
    <2>3. QED BY <2>1, <2>2 DEF BlamedOnlyInRace, Breaches, Unallocated
  <1>7. QED BY <1>1, <1>3, <1>4, <1>5, <1>6, ServerStill DEF PairInv, Client!HonestStep

(* The server takes a frame from a lane, or from its own window or queue.  *)
LEMMA ServerTakes ==
  ASSUME PairInv, UNCHANGED clientVars,
         \/ \E f \in Server!InboundFrames : Server!Honest(f, cSent) /\ Server!Receive(f)
         \/ \E id \in Ids : Server!Drain(id)
  PROVE  PairInv'
  <1>0. Server!Next
    BY DEF Server!Next, Server!Internal
  <1>1. Server!EndInv'
    BY <1>0, PairAssumption, Server!EndStep DEF PairInv
  <1>2. /\ cSent \in [Ids -> Seq(Server!SentFrame)]
        /\ \A i \in Ids : Server!Shape(cSent[i])
    BY ClientSpeech DEF PairInv
  <1>3. Server!HonestStep(cSent)
    BY <1>2, PairAssumption, Server!ReceiveHonest, Server!DrainHonest
       DEF PairInv, Server!EndInv
  <1>4. sSent' = sSent
    BY PairAssumption, Server!TakesOne DEF PairInv, Server!EndInv
  <1>5. BlamedOnlyInRace'
    <2>1. cFailure' \notin Breaches /\ sFailure' \notin Breaches
      BY <1>3, NoBreach, ClientStill DEF Server!HonestStep, PairInv, BlamedOnlyInRace
    <2>2. sFailure' # Unallocated
      <3> SUFFICES ASSUME sFailure' = Unallocated PROVE FALSE
        OBVIOUS
      <3>1. CASE \E f \in Server!InboundFrames : Server!Receive(f)
        BY <3>1, NoBreach, PairAssumption, Server!RaceReceive DEF PairInv, Server!EndInv
      <3>2. CASE \E id \in Ids : Server!Drain(id)
        BY <3>2, NoBreach, PairAssumption, Server!RaceQuiet DEF PairInv, BlamedOnlyInRace
      <3>3. QED BY <3>1, <3>2
    <2>3. cFailure' = Unallocated => \E i \in Ids : Overtaken(i)'
      <3>1. sCancelled \subseteq sCancelled'
        BY <1>0, PairAssumption, Server!CancelledGrows
      <3>2. \A i \in Ids : Server!GrowsBy(sSent[i], sSent'[i], Server!SentFrame)
        BY <1>4 DEF Server!GrowsBy
      <3>3. QED BY <3>1, <3>2, OvertakenStays
    <2>4. QED BY <2>1, <2>2, <2>3 DEF BlamedOnlyInRace
  <1>6. QED BY <1>1, <1>3, <1>4, <1>5, ClientStill DEF PairInv, Server!HonestStep

(* What one end has said grows, and the other end still holds part of it.  *)
LEMMA ServerHears ==
  ASSUME PairInv, UNCHANGED serverVars,
         \A i \in Ids : Client!GrowsBy(cSent[i], cSent'[i], Client!SentFrame)
  PROVE  Server!Genuine(sStream', sDelivered', cSent')
  <1>1. ASSUME NEW i \in Ids
        PROVE  /\ Len(cSent[i]) \in Nat /\ Len(cSent'[i]) \in Nat
               /\ Len(cSent[i]) <= Len(cSent'[i])
               /\ \A n \in 1..Len(cSent[i]) : cSent'[i][n] = cSent[i][n]
    <2>1. cSent[i] \in Seq(Client!SentFrame)
      BY DEF PairInv, Client!EndInv, Client!TypeOK
    <2>2. CASE cSent'[i] = cSent[i]
      BY <2>1, <2>2
    <2>3. ASSUME NEW f \in Client!SentFrame, cSent'[i] = Append(cSent[i], f)
          PROVE  /\ Len(cSent[i]) \in Nat /\ Len(cSent'[i]) \in Nat
                 /\ Len(cSent[i]) <= Len(cSent'[i])
                 /\ \A n \in 1..Len(cSent[i]) : cSent'[i][n] = cSent[i][n]
      BY <2>1, <2>3
    <2>4. QED BY <2>2, <2>3 DEF Client!GrowsBy
  <1>2. Server!Genuine(sStream', sDelivered', cSent)
    BY ServerStill
  <1>3. QED BY <1>1, <1>2, PairAssumption, Server!GenuineGrows

(* The client hears what the server says.                                  *)
LEMMA ClientHears ==
  ASSUME PairInv, UNCHANGED clientVars,
         \A i \in Ids : Server!GrowsBy(sSent[i], sSent'[i], Server!SentFrame)
  PROVE  Client!Genuine(cStream', cDelivered', sSent')
  <1>1. ASSUME NEW i \in Ids
        PROVE  /\ Len(sSent[i]) \in Nat /\ Len(sSent'[i]) \in Nat
               /\ Len(sSent[i]) <= Len(sSent'[i])
               /\ \A n \in 1..Len(sSent[i]) : sSent'[i][n] = sSent[i][n]
    <2>1. sSent[i] \in Seq(Server!SentFrame)
      BY DEF PairInv, Server!EndInv, Server!TypeOK
    <2>2. CASE sSent'[i] = sSent[i]
      BY <2>1, <2>2
    <2>3. ASSUME NEW f \in Server!SentFrame, sSent'[i] = Append(sSent[i], f)
          PROVE  /\ Len(sSent[i]) \in Nat /\ Len(sSent'[i]) \in Nat
                 /\ Len(sSent[i]) <= Len(sSent'[i])
                 /\ \A n \in 1..Len(sSent[i]) : sSent'[i][n] = sSent[i][n]
      BY <2>1, <2>3
    <2>4. QED BY <2>2, <2>3 DEF Server!GrowsBy
  <1>2. Client!Genuine(cStream', cDelivered', sSent)
    BY ClientStill
  <1>3. QED BY <1>1, <1>2, PairAssumption, Client!GenuineGrows

(* The client's proxy sends, pauses, resumes, drops or fails, or one of    *)
(* its timers fires.                                                       *)
LEMMA ClientCalls ==
  ASSUME PairInv, UNCHANGED serverVars,
         \/ \E id \in Ids : cDelivered[id] # <<>> /\ Client!Sends(id)
         \/ \E id \in Ids : Client!StreamCalls(id)
         \/ Client!SessionCalls
         \/ \E id \in Ids : Client!GapTimeout(id) \/ Client!FlowTimeout(id)
  PROVE  PairInv'
  <1>0. Client!Next
    BY DEF Client!Next, Client!Internal
  <1>1. Client!EndInv'
    BY <1>0, PairAssumption, Client!EndStep DEF PairInv
  <1>2. Client!HonestStep(sSent)
    BY PairAssumption, Client!CallsHonest DEF PairInv, Client!EndInv
  <1>3. \A i \in Ids : Client!GrowsBy(cSent[i], cSent'[i], Client!SentFrame)
    BY PairAssumption, Client!SaysOne DEF PairInv, Client!EndInv
  <1>4. \A i \in Ids : Client!Justified(cDelivered'[i], cSent'[i])
    BY PairAssumption, Client!JustifiedCalls DEF PairInv
  <1>5. BlamedOnlyInRace'
    <2>1. cFailure' \notin Breaches /\ sFailure' \notin Breaches \cup {Unallocated}
      BY <1>2, NoBreach, ServerStill DEF Client!HonestStep, PairInv, BlamedOnlyInRace
    <2>2. ASSUME cFailure' = Unallocated PROVE \E i \in Ids : Overtaken(i)'
      <3>1. cFailure = Unallocated
        BY <2>2, NoBreach, PairAssumption, Client!RaceQuiet
      <3>2. QED BY <1>0, <3>1, OvertakenForGood
    <2>3. QED BY <2>1, <2>2 DEF BlamedOnlyInRace, Breaches, Unallocated
  <1>6. QED BY <1>1, <1>2, <1>3, <1>4, <1>5, ServerStill, ServerHears
            DEF PairInv, Client!HonestStep

(* The server's router sends, pauses, resumes, opens, drops or fails, or   *)
(* one of its timers fires.                                                *)
LEMMA ServerCalls ==
  ASSUME PairInv, UNCHANGED clientVars,
         \/ \E id \in Ids : Server!Sends(id) \/ Server!StreamCalls(id)
         \/ Server!SessionCalls
         \/ \E id \in Ids : Server!GapTimeout(id) \/ Server!FlowTimeout(id)
  PROVE  PairInv'
  <1>0. Server!Next
    BY DEF Server!Next, Server!Internal
  <1>1. Server!EndInv'
    BY <1>0, PairAssumption, Server!EndStep DEF PairInv
  <1>2. Server!HonestStep(cSent)
    BY PairAssumption, Server!CallsHonest DEF PairInv, Server!EndInv
  <1>3. \A i \in Ids : Server!GrowsBy(sSent[i], sSent'[i], Server!SentFrame)
    BY PairAssumption, Server!SaysOne DEF PairInv, Server!EndInv
  <1>4. BlamedOnlyInRace'
    <2>1. cFailure' \notin Breaches /\ sFailure' \notin Breaches
      BY <1>2, NoBreach, ClientStill DEF Server!HonestStep, PairInv, BlamedOnlyInRace
    <2>2. sFailure' # Unallocated
      BY NoBreach, PairAssumption, Server!RaceQuiet DEF PairInv, BlamedOnlyInRace
    <2>3. cFailure' = Unallocated => \E i \in Ids : Overtaken(i)'
      BY <1>0, <1>3, PairAssumption, Server!CancelledGrows, OvertakenStays
    <2>4. QED BY <2>1, <2>2, <2>3 DEF BlamedOnlyInRace
  <1>5. QED BY <1>1, <1>2, <1>3, <1>4, ClientStill, ClientHears
            DEF PairInv, Server!HonestStep

----------------------------------------------------------------------------
(* Nothing has been said or taken yet.                                     *)
LEMMA PairInit == Init => PairInv
  <1> SUFFICES ASSUME Init PROVE PairInv
    OBVIOUS
  <1>1. Client!EndInv /\ Server!EndInv
    BY PairAssumption, Client!EndInit, Server!EndInit DEF Init
  <1>2. /\ \A i \in Ids : cDelivered[i] = <<>> /\ cSent[i] = <<>>
        /\ \A i \in Ids : sDelivered[i] = <<>>
        /\ \A i \in Ids : cStream[i] = Client!NewStream /\ sStream[i] = Server!NewStream
        /\ cFailure = "none" /\ sFailure = "none"
    BY DEF Init, Client!Init, Server!Init
  <1>3. /\ Client!NewStream.queue = <<>>
        /\ Client!Buffered(Client!NewStream.window) = {}
    BY DEF Client!NewStream, Client!NewWindow, Client!Buffered
  <1>4. /\ Server!NewStream.queue = <<>>
        /\ Server!Buffered(Server!NewStream.window) = {}
    BY DEF Server!NewStream, Server!NewWindow, Server!Buffered
  <1>5. Client!Genuine(cStream, cDelivered, sSent)
    BY <1>2, <1>3 DEF Client!Genuine, Client!HeldFrom, Client!LogFrom
  <1>6. Server!Genuine(sStream, sDelivered, cSent)
    BY <1>2, <1>4 DEF Server!Genuine, Server!HeldFrom, Server!LogFrom
  <1>7. \A i \in Ids : Client!Justified(cDelivered[i], cSent[i])
    BY <1>2 DEF Client!Justified, Client!Has
  <1>8. BlamedOnlyInRace
    BY <1>2 DEF BlamedOnlyInRace, Breaches, Unallocated
  <1>9. QED BY <1>1, <1>5, <1>6, <1>7, <1>8 DEF PairInv

(* PairInv is inductive, one step per end and action.                      *)
LEMMA PairStep == PairInv /\ [Next]_vars => PairInv'
  <1> SUFFICES ASSUME PairInv, [Next]_vars PROVE PairInv'
    OBVIOUS
  <1>1. ASSUME NEW id \in Ids, ClientReceives(id) PROVE PairInv'
    BY <1>1, ClientFrame, ClientTakes DEF ClientReceives
  <1>2. ASSUME NEW id \in Ids, ServerReceives(id) PROVE PairInv'
    BY <1>2, ServerFrame, ServerTakes DEF ServerReceives
  <1>3. CASE ClientActs
    BY <1>3, ClientTakes, ClientCalls
       DEF ClientActs, Client!Internal, Client!SessionCalls
  <1>4. CASE ServerActs
    BY <1>4, ServerTakes, ServerCalls
       DEF ServerActs, Server!Internal, Server!SessionCalls
  <1>5. CASE UNCHANGED vars
    <2>1. UNCHANGED clientVars /\ UNCHANGED serverVars
      BY <1>5 DEF vars
    <2>2. UNCHANGED <<cDelivered, cStream>>
      BY <2>1 DEF clientVars
    <2>3. BlamedOnlyInRace'
      BY <2>1, <2>2, ClientStill, ServerStill DEF PairInv, BlamedOnlyInRace, Overtaken
    <2>4. QED BY <2>1, <2>2, <2>3, ClientStill, ServerStill DEF PairInv
  <1>6. QED BY <1>1, <1>2, <1>3, <1>4, <1>5 DEF Next

(* The inductive invariant of the pair holds of every reachable state.     *)
THEOREM PairInvariant == Spec => []PairInv
  BY PairInit, PairStep, PTL DEF Spec

(* With the other one as its peer, each end is a TransportSession: what is *)
(* proved of a session with any peer holds of both.                        *)
THEOREM EndsAreSessions == Spec => Client!Spec /\ Server!Spec
  <1>1. PairInv /\ [Next]_vars => [Client!Next]_(Client!vars) /\ [Server!Next]_(Server!vars)
    <2> SUFFICES ASSUME PairInv, [Next]_vars
                 PROVE  [Client!Next]_(Client!vars) /\ [Server!Next]_(Server!vars)
      OBVIOUS
    <2>1. UNCHANGED clientVars => UNCHANGED Client!vars
      BY DEF clientVars, Client!vars
    <2>2. UNCHANGED serverVars => UNCHANGED Server!vars
      BY DEF serverVars, Server!vars
    <2>3. ASSUME NEW id \in Ids, ClientReceives(id)
          PROVE  [Client!Next]_(Client!vars) /\ [Server!Next]_(Server!vars)
      BY <2>2, <2>3, ClientFrame DEF ClientReceives, Client!Next
    <2>4. ASSUME NEW id \in Ids, ServerReceives(id)
          PROVE  [Client!Next]_(Client!vars) /\ [Server!Next]_(Server!vars)
      BY <2>1, <2>4, ServerFrame DEF ServerReceives, Server!Next
    <2>5. CASE ClientActs
      BY <2>2, <2>5 DEF ClientActs, Client!Next, Client!SessionCalls
    <2>6. CASE ServerActs
      BY <2>1, <2>6 DEF ServerActs, Server!Next, Server!SessionCalls
    <2>7. CASE UNCHANGED vars
      BY <2>1, <2>2, <2>7 DEF vars
    <2>8. QED BY <2>3, <2>4, <2>5, <2>6, <2>7 DEF Next
  <1>2. QED BY <1>1, PairInvariant, PTL DEF Spec, Init, Client!Spec, Server!Spec

----------------------------------------------------------------------------
(* The properties.                                                         *)

(* A log numbered 1, 2, 3, ... whose frames the peer said is a prefix.     *)
LEMMA PrefixTaken ==
  /\ PairInv => TakenFrom(cDelivered, sSent)
  /\ PairInv => TakenFrom(sDelivered, cSent)
  <1>1. ASSUME PairInv PROVE TakenFrom(cDelivered, sSent)
    <2> SUFFICES ASSUME NEW i \in Ids
                 PROVE  /\ Len(cDelivered[i]) <= Len(sSent[i])
                        /\ \A n \in 1..Len(cDelivered[i]) :
                             cDelivered[i][n] = [type |-> sSent[i][n].type, seq |-> n]
      BY DEF TakenFrom
    <2> DEFINE d == cDelivered[i]
               out == sSent[i]
    <2>1. /\ d \in Seq(Client!Frame) /\ out \in Seq(Client!SentFrame)
          /\ Client!LogNumbered(d) /\ Client!LogFrom(d, out)
      BY <1>1, ServerSpeech
         DEF PairInv, Client!EndInv, Client!TypeOK, Client!OrderInv, Client!Genuine
    <2> HIDE DEF d, out
    <2>2. ASSUME NEW n \in 1..Len(d)
          PROVE  d[n] = [type |-> out[n].type, seq |-> n] /\ n \in 1..Len(out)
      <3>1. d[n].seq = n /\ d[n].type = out[n].type /\ n \in 1..Len(out)
        BY <2>1 DEF Client!LogNumbered, Client!LogFrom, Client!From
      <3>2. d[n] \in Client!Frame
        BY <2>1
      <3>3. d[n] = [type |-> d[n].type, seq |-> d[n].seq]
        BY <3>2 DEF Client!Frame
      <3>4. QED BY <3>1, <3>3
    <2>3. Len(d) \in Nat /\ Len(out) \in Nat
      BY <2>1
    <2>4. Len(d) <= Len(out)
      <3>1. CASE Len(d) = 0
        BY <2>3, <3>1
      <3>2. CASE Len(d) # 0
        <4>1. Len(d) \in 1..Len(d)
          BY <2>3, <3>2
        <4>2. Len(d) \in 1..Len(out)
          BY <2>2, <4>1, Zenon
        <4>3. QED BY <2>3, <4>2
      <3>3. QED BY <3>1, <3>2
    <2>5. QED BY <2>2, <2>4 DEF d, out
  <1>2. ASSUME PairInv PROVE TakenFrom(sDelivered, cSent)
    <2> SUFFICES ASSUME NEW i \in Ids
                 PROVE  /\ Len(sDelivered[i]) <= Len(cSent[i])
                        /\ \A n \in 1..Len(sDelivered[i]) :
                             sDelivered[i][n] = [type |-> cSent[i][n].type, seq |-> n]
      BY DEF TakenFrom
    <2> DEFINE d == sDelivered[i]
               out == cSent[i]
    <2>1. /\ d \in Seq(Server!Frame) /\ out \in Seq(Server!SentFrame)
          /\ Server!LogNumbered(d) /\ Server!LogFrom(d, out)
      BY <1>2, ClientSpeech
         DEF PairInv, Server!EndInv, Server!TypeOK, Server!OrderInv, Server!Genuine
    <2> HIDE DEF d, out
    <2>2. ASSUME NEW n \in 1..Len(d)
          PROVE  d[n] = [type |-> out[n].type, seq |-> n] /\ n \in 1..Len(out)
      <3>1. d[n].seq = n /\ d[n].type = out[n].type /\ n \in 1..Len(out)
        BY <2>1 DEF Server!LogNumbered, Server!LogFrom, Server!From
      <3>2. d[n] \in Server!Frame
        BY <2>1
      <3>3. d[n] = [type |-> d[n].type, seq |-> d[n].seq]
        BY <3>2 DEF Server!Frame
      <3>4. QED BY <3>1, <3>3
    <2>3. Len(d) \in Nat /\ Len(out) \in Nat
      BY <2>1
    <2>4. Len(d) <= Len(out)
      <3>1. CASE Len(d) = 0
        BY <2>3, <3>1
      <3>2. CASE Len(d) # 0
        <4>1. Len(d) \in 1..Len(d)
          BY <2>3, <3>2
        <4>2. Len(d) \in 1..Len(out)
          BY <2>2, <4>1, Zenon
        <4>3. QED BY <2>3, <4>2
      <3>3. QED BY <3>1, <3>2
    <2>5. QED BY <2>2, <2>4 DEF d, out
  <1>3. QED BY <1>1, <1>2

(* In both directions the consumer takes a prefix of what the producer     *)
(* sent, whatever the lanes do with the frames and whenever the two ends   *)
(* pause, cancel, finish or fail.                                          *)
THEOREM EndToEndCorrect == Spec => []EndToEnd
  <1>1. PairInv => EndToEnd
    BY PrefixTaken DEF EndToEnd
  <1>2. QED BY <1>1, PairInvariant, PTL

(* The server's consumer never takes the end of a response whose request   *)
(* the client's consumer has not taken whole, unless it is an error or the *)
(* stream is an upgrade.                                                   *)
THEOREM NoEarlySuccessCorrect == Spec => []NoEarlySuccess
  <1>1. PairInv => NoEarlySuccess
    <2> SUFFICES ASSUME PairInv, NEW i \in Ids, Has(sDelivered[i], "FIN")
                 PROVE  \/ Has(cDelivered[i], "FIN")
                        \/ sSent[i][1].type = "UPGRADE"
                        \/ cSent[i][1].err
      BY DEF NoEarlySuccess
    <2>1. Client!Has(cSent[i], "FIN")
      <3>1. PICK n \in 1..Len(sDelivered[i]) : sDelivered[i][n].type = "FIN"
        BY DEF Has
      <3>2. Server!From(sDelivered[i][n], cSent[i])
        BY <3>1 DEF PairInv, Server!Genuine, Server!LogFrom
      <3>3. QED BY <3>1, <3>2 DEF Server!From, Client!Has
    <2>2. \/ Client!Has(cDelivered[i], "FIN")
          \/ cDelivered[i] # <<>> /\ cDelivered[i][1].type = "UPGRADE"
          \/ cSent[i][1].err
      BY <2>1 DEF PairInv, Client!Justified
    <2>3. CASE cDelivered[i] # <<>> /\ cDelivered[i][1].type = "UPGRADE"
      <3>1. cDelivered[i] \in Seq(Client!Frame)
        BY DEF PairInv, Client!EndInv, Client!TypeOK
      <3>2. 1 \in 1..Len(cDelivered[i])
        BY <2>3, <3>1
      <3>3. cDelivered[i][1] = [type |-> sSent[i][1].type, seq |-> 1]
        BY <3>2, PrefixTaken DEF TakenFrom
      <3>4. QED BY <2>3, <3>3
    <2>4. QED BY <2>2, <2>3 DEF Client!Has, Has
  <1>2. QED BY <1>1, PairInvariant, PTL

(* Whatever is reordered, repeated, lost, paused, dropped or cancelled, no *)
(* end ever fails its session with an error that blames the protocol of    *)
(* the other, except a client that a frame reached before the opening of   *)
(* its stream (transport-session.js, receive): then the server had said    *)
(* more than the opening, and the client's consumer never took it.         *)
THEOREM BlamedOnlyInRaceCorrect == Spec => []BlamedOnlyInRace
  <1>1. PairInv => BlamedOnlyInRace
    BY DEF PairInv
  <1>2. QED BY <1>1, PairInvariant, PTL
=============================================================================
