------------------------- MODULE HttpExchangeProofs -------------------------
(***************************************************************************)
(* The public requests of HttpExchange, for every set of streams and every *)
(* bound: both ends release what a request holds, and neither an upload    *)
(* nor an answer ever looks complete when it is not.                       *)
(*                                                                         *)
(* What is true of a request is spread over the tunnel: its first chunks   *)
(* at the target, its last at the router, the rest in flight.  HttpInv     *)
(* says of each stream what the frames in flight still have to bring.      *)
(* Upload counts: chunks the target got and chunks in flight are together  *)
(* the chunks read from the public client, and a FIN in flight is the end  *)
(* of that request.  Answer does the same in the other direction, with the *)
(* status, until a FIN comes after which the answer is Whole.  Ends says   *)
(* when a stream is carried at all; a stream that is not (its session      *)
(* failed, or it was cancelled) is never delivered another frame.          *)
(***************************************************************************)
EXTENDS HttpExchange, SequenceTheorems, FiniteSetTheorems, TLAPS

(* The frames of one direction: a head frame first, FIN last, DATA between.*)
IsHead(frame) == frame \notin {"DATA", "FIN"}
Headed(q) == q # <<>> /\ IsHead(q[1])
Final(q) == q # <<>> /\ q[Len(q)] = "FIN"

WellFormed(q) ==
  \A n \in 1 .. Len(q) : /\ IsHead(q[n]) => n = 1
                         /\ q[n] = "FIN" => n = Len(q)

(* Chunks among them.                                                      *)
Heads(q) == IF Headed(q) THEN 1 ELSE 0
Fins(q) == IF Final(q) THEN 1 ELSE 0
Chunks(q) == Len(q) - Heads(q) - Fins(q)

(* What is left of a stream of frames that has begun, or not, to arrive.   *)
Continues(q, begun) == WellFormed(q) /\ (q # <<>> => (Headed(q) <=> ~begun))

(* The stream has reached the proxy; the tunnel still carries it.          *)
Opened(x) == cli[x].phase # "none"
Carried(x) == toClient[x] # <<>> \/ cli[x].phase = "active"

(* What the two ends know of a stream and of each other.                   *)
Ends(x) ==
  /\ srv[x] = "open" => serverUp
  /\ srv[x] = "idle" => pub[x] = NewPublic /\ ~Opened(x) /\ ~Carried(x)
  /\ cli[x].phase = "active" => clientUp
  /\ cli[x].phase = "none" => tgt[x] = NewTarget /\ cli[x] = NewProxy
  /\ cli[x].timer => ~cli[x].responding
  /\ toClient[x] # <<>> => ClientListens(x)
  /\ x \in Open /\ ClientListens(x) => Carried(x)

(* The request: read = got + in flight.                                    *)
Upload(x) ==
  /\ Carried(x) =>
       /\ Continues(toClient[x], Opened(x))
       /\ tgt[x].got + Chunks(toClient[x]) = pub[x].sent
       /\ Final(toClient[x]) => pub[x].req = "ended"
       /\ tgt[x].req = "ended" => toClient[x] = <<>>
  /\ tgt[x].req = "ended" => pub[x].req = "ended" /\ tgt[x].got = pub[x].sent

(* The answer, as the public client has it with the frames in flight.      *)
Begun(x) == pub[x].res = "open"
Answered(x) == Begun(x) \/ toServer[x] # <<>>
StatusOf(x) == IF Begun(x) THEN pub[x].status ELSE Head(toServer[x])
BodyOf(x) == pub[x].body + Chunks(toServer[x])

(* The answer is the target's to its end, or one the proxy made up.        *)
Whole(x) ==
  \/ StatusOf(x) = tgt[x].status /\ tgt[x].res = "ended" /\ BodyOf(x) = tgt[x].sent
  \/ StatusOf(x) = "plain"

(* The answer: sent by the target = received + in flight.                  *)
Answer(x) ==
  /\ pub[x].res = "none" => pub[x].status = "none" /\ pub[x].body = 0
  /\ tgt[x].sent <= MaxChunks[x]
  /\ tgt[x].res = "ended" => cli[x].phase = "done"
  /\ cli[x].phase = "active" /\ ~cli[x].responding => tgt[x].sent = 0
  /\ srv[x] # "open" => toServer[x] = <<>> /\ pub[x].res # "open"
  /\ srv[x] = "open" =>
       /\ pub[x].res \in {"none", "open"}
       /\ Continues(toServer[x], Begun(x))
       /\ BodyOf(x) <= BodyBound(x)
       /\ cli[x].phase = "none" \/ (cli[x].phase = "active" /\ ~cli[x].responding) => ~Answered(x)
       /\ cli[x].phase = "active" /\ cli[x].responding =>
            /\ Answered(x)
            /\ StatusOf(x) = tgt[x].status
            /\ BodyOf(x) = tgt[x].sent
       /\ Final(toServer[x]) => cli[x].phase = "done" /\ Whole(x)
  /\ pub[x].res = "ended" /\ pub[x].status \in TargetStatus =>
       /\ tgt[x].res = "ended" /\ pub[x].status = tgt[x].status
       /\ pub[x].body = tgt[x].sent

Stream(x) == Ends(x) /\ Upload(x) /\ Answer(x)

HttpInv == TypeOK /\ SlotsMatch /\ \A x \in Streams : Stream(x)

-----------------------------------------------------------------------------
(* Sequences of frames. *)

(* A frame behind a sequence of frames.                                    *)
LEMMA AppendFacts ==
  ASSUME NEW T, NEW q \in Seq(T), NEW f \in T
  PROVE  /\ Append(q, f) \in Seq(T)
         /\ Len(Append(q, f)) = Len(q) + 1 /\ Len(q) \in Nat
         /\ Append(q, f)[Len(q) + 1] = f
         /\ \A n \in 1 .. Len(q) : Append(q, f)[n] = q[n]
         /\ Append(q, f) # <<>>
         /\ q = <<>> <=> Len(q) = 0
  BY AppendProperties, LenProperties, EmptySeq

(* The first frame of a sequence, and the rest.                            *)
LEMMA TailFacts ==
  ASSUME NEW T, NEW q \in Seq(T), q # <<>>
  PROVE  /\ Tail(q) \in Seq(T)
         /\ Len(q) \in Nat /\ Len(Tail(q)) = Len(q) - 1 /\ Len(q) >= 1
         /\ Head(q) = q[1] /\ Head(q) \in T
         /\ \A n \in 1 .. Len(q) - 1 : Tail(q)[n] = q[n + 1]
         /\ Tail(q) = <<>> <=> Len(q) = 1
  <1>1. Len(q) \in Nat \ {0}
    BY EmptySeq
  <1>2. /\ Head(q) \in T /\ Tail(q) \in Seq(T) /\ Len(Tail(q)) = Len(q) - 1
        /\ \A n \in 1 .. Len(Tail(q)) : Tail(q)[n] = q[n + 1]
    BY HeadTailProperties
  <1>3. Tail(q) = <<>> <=> Len(Tail(q)) = 0
    BY <1>2, EmptySeq
  <1>4. Head(q) = q[1]
    OBVIOUS
  <1>5. QED BY <1>1, <1>2, <1>3, <1>4

(* Nothing in flight has the shape of an answer with nothing left of it.   *)
LEMMA EmptyShape ==
  WellFormed(<<>>) /\ Chunks(<<>>) = 0 /\ ~Headed(<<>>) /\ ~Final(<<>>)
  <1>1. ~Headed(<<>>) /\ ~Final(<<>>) /\ WellFormed(<<>>)
    BY DEF Headed, Final, WellFormed
  <1>2. QED BY <1>1 DEF Chunks, Heads, Fins

(* A frame that is sent goes behind the others.                            *)
LEMMA AppendShape ==
  ASSUME NEW T, NEW q \in Seq(T), NEW f \in T,
         WellFormed(q), ~Final(q), IsHead(f) => q = <<>>
  PROVE  /\ WellFormed(Append(q, f))
         /\ Headed(Append(q, f)) <=> Headed(q) \/ (q = <<>> /\ IsHead(f))
         /\ Final(Append(q, f)) <=> f = "FIN"
         /\ Chunks(Append(q, f)) = Chunks(q) + (IF f = "DATA" THEN 1 ELSE 0)
         /\ q # <<>> => Head(Append(q, f)) = Head(q)
         /\ q = <<>> => Head(Append(q, f)) = f
  <1> DEFINE r == Append(q, f)
  <1>1. /\ Len(r) = Len(q) + 1 /\ Len(q) \in Nat /\ r[Len(q) + 1] = f
        /\ \A n \in 1 .. Len(q) : r[n] = q[n]
        /\ r # <<>> /\ r \in Seq(T)
        /\ q = <<>> <=> Len(q) = 0
    BY AppendFacts
  <1> HIDE DEF r
  <1>2. WellFormed(r)
    <2> SUFFICES ASSUME NEW n \in 1 .. Len(r)
                 PROVE  (IsHead(r[n]) => n = 1) /\ (r[n] = "FIN" => n = Len(r))
      BY DEF WellFormed
    <2>1. CASE n = Len(q) + 1
      BY <1>1, <2>1
    <2>2. CASE n \in 1 .. Len(q)
      <3>1. q[n] # "FIN"
        BY <1>1, <2>2 DEF WellFormed, Final
      <3>2. QED BY <1>1, <2>2, <3>1 DEF WellFormed
    <2>3. QED BY <1>1, <2>1, <2>2
  <1>3. Final(r) <=> f = "FIN"
    BY <1>1 DEF Final
  <1>4. Headed(r) <=> Headed(q) \/ (q = <<>> /\ IsHead(f))
    BY <1>1 DEF Headed
  <1>5. Chunks(r) = Chunks(q) + (IF f = "DATA" THEN 1 ELSE 0)
    <2>1. Fins(q) = 0 /\ Fins(r) = IF f = "FIN" THEN 1 ELSE 0
      BY <1>3 DEF Fins
    <2>2. Heads(r) = Heads(q) + (IF IsHead(f) THEN 1 ELSE 0) /\ Heads(q) \in Int
      <3>1. CASE IsHead(f)
        BY <1>4, <3>1 DEF Heads, Headed
      <3>2. CASE ~IsHead(f)
        BY <1>4, <3>2 DEF Heads
      <3>3. QED BY <3>1, <3>2
    <2>3. f = "DATA" \/ f = "FIN" \/ IsHead(f)
      BY DEF IsHead
    <2>4. IsHead(f) => f # "DATA" /\ f # "FIN"
      BY DEF IsHead
    <2>5. CASE f = "DATA"
      BY <1>1, <2>1, <2>2, <2>4, <2>5 DEF Chunks
    <2>6. CASE f = "FIN"
      BY <1>1, <2>1, <2>2, <2>4, <2>6 DEF Chunks
    <2>7. CASE IsHead(f)
      BY <1>1, <2>1, <2>2, <2>4, <2>7 DEF Chunks
    <2>8. QED BY <2>3, <2>5, <2>6, <2>7
  <1>6. q # <<>> => Head(r) = Head(q)
    BY <1>1, TailFacts
  <1>7. q = <<>> => Head(r) = f
    BY <1>1, TailFacts
  <1>8. QED BY <1>2, <1>3, <1>4, <1>5, <1>6, <1>7 DEF r

(* A frame that arrives is the first.                                      *)
LEMMA TailShape ==
  ASSUME NEW T, NEW q \in Seq(T), q # <<>>, WellFormed(q)
  PROVE  /\ Headed(q) <=> IsHead(Head(q))
         /\ WellFormed(Tail(q)) /\ ~Headed(Tail(q))
         /\ Head(q) = "FIN" => Tail(q) = <<>> /\ Final(q)
         /\ Head(q) # "FIN" => (Final(Tail(q)) <=> Final(q))
         /\ Chunks(q) = Chunks(Tail(q)) + (IF Head(q) = "DATA" THEN 1 ELSE 0)
         /\ Chunks(Tail(q)) \in Nat
  <1> DEFINE r == Tail(q)
             k == Len(q)
  <1>1. /\ k \in Nat /\ Len(r) = k - 1 /\ k >= 1
        /\ Head(q) = q[1]
        /\ \A n \in 1 .. k - 1 : r[n] = q[n + 1]
        /\ r = <<>> <=> k = 1
    BY TailFacts
  <1> HIDE DEF r
  <1>2. Headed(q) <=> IsHead(Head(q))
    BY <1>1 DEF Headed
  <1>3. ASSUME NEW n \in 1 .. Len(r)
        PROVE  ~IsHead(r[n]) /\ (r[n] = "FIN" => n = Len(r))
    <2>1. n + 1 \in 1 .. Len(q) /\ r[n] = q[n + 1] /\ n + 1 # 1
      BY <1>1
    <2>2. QED BY <1>1, <2>1 DEF WellFormed
  <1>4. WellFormed(r)
    BY <1>3 DEF WellFormed
  <1>5. ~Headed(r)
    BY <1>1, <1>3 DEF Headed
  <1>6. Head(q) = "FIN" => r = <<>> /\ Final(q)
    BY <1>1 DEF WellFormed, Final
  <1>7. Head(q) # "FIN" => (Final(r) <=> Final(q))
    <2>1. CASE k = 1
      BY <1>1, <2>1 DEF Final
    <2>2. CASE k # 1
      <3>1. r[Len(r)] = q[k]
        BY <1>1, <2>2
      <3>2. QED BY <1>1, <2>2, <3>1 DEF Final
    <2>3. QED BY <2>1, <2>2
  <1>8. Heads(r) = 0 /\ Heads(q) = IF IsHead(Head(q)) THEN 1 ELSE 0
    BY <1>2, <1>5 DEF Heads
  <1>9. Fins(r) = IF Head(q) = "FIN" THEN 0 ELSE Fins(q)
    BY <1>6, <1>7, EmptyShape DEF Fins
  <1>10. /\ Head(q) = "FIN" => Fins(q) = 1
         /\ Fins(q) \in {0, 1} /\ Fins(r) \in {0, 1}
    BY <1>6 DEF Fins
  <1>11. Chunks(q) = Chunks(r) + (IF Head(q) = "DATA" THEN 1 ELSE 0)
    <2>1. Chunks(q) = k - Heads(q) - Fins(q) /\ Chunks(r) = (k - 1) - Heads(r) - Fins(r)
      BY <1>1 DEF Chunks
    <2>2. CASE Head(q) = "FIN"
      <3>1. ~IsHead(Head(q))
        BY <2>2 DEF IsHead
      <3> HIDE DEF k
      <3>2. QED BY <1>1, <1>8, <1>9, <1>10, <2>1, <2>2, <3>1
    <2>3. CASE Head(q) = "DATA"
      <3>1. ~IsHead(Head(q))
        BY <2>3 DEF IsHead
      <3> HIDE DEF k
      <3>2. QED BY <1>1, <1>8, <1>9, <1>10, <2>1, <2>3, <3>1
    <2>4. CASE IsHead(Head(q))
      <3>1. Head(q) # "DATA" /\ Head(q) # "FIN"
        BY <2>4 DEF IsHead
      <3> HIDE DEF k
      <3>2. QED BY <1>1, <1>8, <1>9, <1>10, <2>1, <2>4, <3>1
    <2>5. QED BY <2>2, <2>3, <2>4 DEF IsHead
  <1>12. Chunks(r) \in Nat
    <2>1. Final(r) => Len(r) # 0
      BY <1>1 DEF Final
    <2>2. Fins(r) <= Len(r)
      BY <1>1, <2>1 DEF Fins
    <2>3. Chunks(r) = Len(r) - Fins(r)
      BY <1>1, <1>8, <1>10 DEF Chunks
    <2>4. QED BY <1>1, <1>10, <2>2, <2>3
  <1>13. QED BY <1>2, <1>4, <1>5, <1>6, <1>7, <1>11, <1>12 DEF r

(* A well-formed sequence of frames counts a number of chunks.             *)
LEMMA ChunksNat ==
  ASSUME NEW T, NEW q \in Seq(T), WellFormed(q)
  PROVE  Chunks(q) \in Nat
  <1>1. CASE q = <<>>
    BY <1>1, EmptyShape
  <1>2. CASE q # <<>>
    BY <1>2, TailShape
  <1>3. QED BY <1>1, <1>2

(* The answer the proxy makes up.                                          *)
Plain == <<"plain", "DATA", "FIN">>

(* The answer the proxy makes up is whole and carries one chunk.           *)
LEMMA PlainShape ==
  /\ WellFormed(Plain) /\ Headed(Plain) /\ Final(Plain) /\ Chunks(Plain) = 1
  /\ Head(Plain) = "plain" /\ Plain # <<>>
  /\ <<>> \o Plain = Plain
  <1>1. WellFormed(Plain) /\ Headed(Plain) /\ Final(Plain) /\ Plain # <<>>
        /\ Len(Plain) = 3
    BY DEF Plain, WellFormed, Headed, Final, IsHead
  <1>2. Chunks(Plain) = 1
    BY <1>1 DEF Chunks, Heads, Fins
  <1>3. Head(Plain) = "plain"
    BY DEF Plain
  <1>4. Plain \in Seq({"plain", "DATA", "FIN"})
    BY DEF Plain
  <1>5. <<>> \o Plain = Plain
    BY <1>4, ConcatEmptySeq
  <1>6. QED BY <1>1, <1>2, <1>3, <1>5

-----------------------------------------------------------------------------
(* The parts of a state. *)

PublicState == [req : Request, paused : BOOLEAN, sent : Nat, res : Response,
                status : TargetStatus \cup LocalStatus \cup {"none"}, body : Nat]
ProxyState == [phase : {"none", "active", "done"}, requestEnded : BOOLEAN,
               responding : BOOLEAN, timer : BOOLEAN, full : BOOLEAN, paused : BOOLEAN]
TargetState == [req : {"none", "open", "ended", "destroyed"}, got : Nat,
                res : {"none", "open", "ended"}, status : TargetStatus \cup {"none"},
                sent : Nat]
DownFrames == {"HEADERS", "DATA", "FIN"}
UpFrames == TargetStatus \cup {"plain", "DATA", "FIN"}

(* What the domains of the variables say of one stream.                    *)
LEMMA Parts ==
  ASSUME TypeOK, NEW x \in Streams
  PROVE  /\ pub[x] \in PublicState /\ cli[x] \in ProxyState /\ tgt[x] \in TargetState
         /\ toClient[x] \in Seq(DownFrames) /\ toServer[x] \in Seq(UpFrames)
         /\ srv[x] \in {"idle", "open", "done"} /\ MaxChunks[x] \in Nat
         /\ BodyBound(x) \in Nat /\ 1 <= BodyBound(x) /\ MaxChunks[x] <= BodyBound(x)
  BY HttpAssumption DEF TypeOK, PublicState, ProxyState, TargetState, DownFrames,
     UpFrames, BodyBound

(* A step that leaves a stream alone keeps what is known of it.            *)
Untouched(y) ==
  /\ pub'[y] = pub[y] /\ srv'[y] = srv[y] /\ cli'[y] = cli[y] /\ tgt'[y] = tgt[y]
  /\ toClient'[y] = toClient[y] /\ toServer'[y] = toServer[y]

(* A stream that a step leaves alone keeps its invariant, unless the step  *)
(* fails the session of an open one.                                       *)
LEMMA Elsewhere ==
  ASSUME NEW y \in Streams, Stream(y), Untouched(y), clientUp' = clientUp,
         serverUp' = serverUp \/ srv[y] # "open"
  PROVE  Stream(y)'
  BY DEF Stream, Ends, Upload, Answer, Untouched, Opened, Carried, ClientListens, Open,
     Begun, Answered, StatusOf, BodyOf, Whole

(* The router gives up a response.                                         *)
LEMMA FailResponseFacts ==
  ASSUME NEW p \in PublicState
  PROVE  /\ FailResponse(p) \in PublicState
         /\ FailResponse(p).res \in {"ended", "destroyed"}
         /\ FailResponse(p).sent = p.sent /\ FailResponse(p).body = p.body
         /\ FailResponse(p).req = p.req
         /\ p.res \in {"ended", "destroyed"} => FailResponse(p) = p
         /\ p.status # "none" => p.res = "none" \/ FailResponse(p).status = p.status
         /\ p.res \in {"none", "open"} /\ FailResponse(p).res = "ended"
              => FailResponse(p).status = "gateway"
  <1>1. p.res \in {"none", "open", "ended", "destroyed"}
    BY DEF PublicState, Response
  <1>2. CASE p.res \in {"ended", "destroyed"}
    BY <1>2 DEF FailResponse
  <1>3. CASE p.res = "open"
    BY <1>3 DEF FailResponse, PublicState, Response
  <1>4. CASE p.res = "none"
    BY <1>4 DEF FailResponse, PublicState, Response, LocalStatus
  <1>5. QED BY <1>1, <1>2, <1>3, <1>4

(* cleanup() of some open streams at the router.                           *)
LEMMA CleanupEffect ==
  ASSUME HttpInv, NEW S \in SUBSET Open, NEW terminal \in BOOLEAN,
         Cleanup(S, terminal), UNCHANGED <<cli, mux, stopped>>
  PROVE  /\ srv' \in [Streams -> {"idle", "open", "done"}]
         /\ slots' \in [Slots -> SUBSET Streams] /\ held' \subseteq Streams
         /\ toServer' \in [Streams -> Seq(UpFrames)]
         /\ errors' \subseteq {"client", "server"} \X Streams
         /\ \A y \in S : srv'[y] = "done" /\ toServer'[y] = <<>>
         /\ \A y \in Streams \ S : srv'[y] = srv[y] /\ toServer'[y] = toServer[y]
         /\ SlotsMatch'
  <1>1. /\ srv \in [Streams -> {"idle", "open", "done"}]
        /\ slots \in [Slots -> SUBSET Streams] /\ held \subseteq Streams
        /\ toServer \in [Streams -> Seq(UpFrames)]
        /\ errors \subseteq {"client", "server"} \X Streams
        /\ S \subseteq Streams
    BY DEF HttpInv, TypeOK, UpFrames, Open
  <1>2. /\ srv' = [x \in Streams |-> IF x \in S THEN "done" ELSE srv[x]]
        /\ slots' = [k \in Slots |-> slots[k] \ S]
        /\ held' = held \ S
        /\ toServer' = [x \in Streams |-> IF x \in S THEN <<>> ELSE toServer[x]]
    BY DEF Cleanup, Released, Without
  <1>3. /\ srv' \in [Streams -> {"idle", "open", "done"}]
        /\ slots' \in [Slots -> SUBSET Streams] /\ held' \subseteq Streams
    BY <1>1, <1>2
  <1>4. toServer' \in [Streams -> Seq(UpFrames)]
    BY <1>1, <1>2, EmptySeq
  <1>5. errors' \subseteq {"client", "server"} \X Streams
    BY <1>1 DEF Cleanup
  <1>6. /\ \A y \in S : srv'[y] = "done" /\ toServer'[y] = <<>>
        /\ \A y \in Streams \ S : srv'[y] = srv[y] /\ toServer'[y] = toServer[y]
    BY <1>1, <1>2
  <1>7. Open' = Open \ S
    BY <1>1, <1>6 DEF Open
  <1>8. Active' = Active
    BY DEF Active
  <1>9. SlotsMatch'
    BY <1>2, <1>7, <1>8 DEF HttpInv, SlotsMatch
  <1>10. QED BY <1>3, <1>4, <1>5, <1>6, <1>9

(* A stream the router has cleaned up: its response ended with it.         *)
LEMMA StreamClosed ==
  ASSUME HttpInv, NEW y \in Open, srv'[y] = "done", toServer'[y] = <<>>,
         pub'[y].sent = pub[y].sent, pub'[y].res \in {"ended", "destroyed"},
         pub[y].req = "ended" => pub'[y].req = "ended",
         pub'[y].res = "ended" /\ pub'[y].status \in TargetStatus =>
           /\ tgt[y].res = "ended" /\ pub'[y].status = tgt[y].status
           /\ pub'[y].body = tgt[y].sent,
         cli'[y] = cli[y], tgt'[y] = tgt[y], toClient'[y] = toClient[y],
         clientUp' = clientUp
  PROVE  Stream(y)'
  <1>1. Stream(y) /\ y \in Streams
    BY DEF HttpInv, Open
  <1>2. Ends(y)'
    BY <1>1 DEF Stream, Ends, Opened, Carried, ClientListens, Open
  <1>3. Upload(y)'
    BY <1>1 DEF Stream, Upload, Opened, Carried
  <1>4. Answer(y)'
    BY <1>1 DEF Stream, Answer
  <1>5. QED BY <1>2, <1>3, <1>4 DEF Stream

(* The parts of the types that a step of the router may leave alone.       *)
LEMMA RouterTypes ==
  ASSUME HttpInv, UNCHANGED <<session, clientVars>>,
         serverUp' \in BOOLEAN, pub' \in [Streams -> PublicState],
         \A y \in Streams : pub'[y].body <= BodyBound(y),
         srv' \in [Streams -> {"idle", "open", "done"}],
         slots' \in [Slots -> SUBSET Streams], held' \subseteq Streams,
         toServer' \in [Streams -> Seq(UpFrames)],
         toClient' \in [Streams -> Seq(DownFrames)],
         errors' \subseteq {"client", "server"} \X Streams
  PROVE  TypeOK'
  BY DEF HttpInv, TypeOK, clientVars, PublicState, UpFrames, DownFrames

-----------------------------------------------------------------------------
(* The router. *)

(* One stream is cleaned up: an abort, a timeout, a disconnect, an ERROR   *)
(* or the FIN of the answer.                                               *)
LEMMA CloseOne ==
  ASSUME HttpInv, NEW x \in Open, NEW terminal \in BOOLEAN, Cleanup({x}, terminal),
         NEW p \in PublicState, pub' = [pub EXCEPT ![x] = p],
         UNCHANGED <<session, serverUp, clientVars, toClient>>,
         p.sent = pub[x].sent, p.body = pub[x].body, p.res \in {"ended", "destroyed"},
         pub[x].req = "ended" => p.req = "ended",
         p.res = "ended" /\ p.status \in TargetStatus =>
           /\ tgt[x].res = "ended" /\ p.status = tgt[x].status
           /\ p.body = tgt[x].sent
  PROVE  HttpInv'
  <1>1. x \in Streams /\ {x} \in SUBSET Open
    BY DEF Open
  <1>2. /\ srv' \in [Streams -> {"idle", "open", "done"}]
        /\ slots' \in [Slots -> SUBSET Streams] /\ held' \subseteq Streams
        /\ toServer' \in [Streams -> Seq(UpFrames)]
        /\ errors' \subseteq {"client", "server"} \X Streams
        /\ srv'[x] = "done" /\ toServer'[x] = <<>>
        /\ \A y \in Streams \ {x} : srv'[y] = srv[y] /\ toServer'[y] = toServer[y]
        /\ SlotsMatch'
    BY <1>1, CleanupEffect DEF clientVars
  <1>3. /\ pub \in [Streams -> PublicState] /\ serverUp \in BOOLEAN
        /\ toClient \in [Streams -> Seq(DownFrames)]
        /\ \A y \in Streams : pub[y].body <= BodyBound(y)
    BY DEF HttpInv, TypeOK, PublicState, DownFrames
  <1>4. /\ pub' \in [Streams -> PublicState] /\ pub'[x] = p
        /\ \A y \in Streams \ {x} : pub'[y] = pub[y]
    BY <1>1, <1>3
  <1>5. \A y \in Streams : pub'[y].body <= BodyBound(y)
    BY <1>3, <1>4
  <1>6. TypeOK'
    BY <1>2, <1>3, <1>4, <1>5, RouterTypes
  <1>7. Stream(x)'
    BY <1>2, <1>4, StreamClosed DEF clientVars
  <1>8. ASSUME NEW y \in Streams \ {x} PROVE Stream(y)'
    <2>1. Stream(y) /\ Untouched(y)
      BY <1>2, <1>4 DEF HttpInv, Untouched, clientVars
    <2>2. QED BY <2>1, Elsewhere DEF clientVars
  <1>9. QED BY <1>2, <1>6, <1>7, <1>8 DEF HttpInv

(* An abort of the router keeps the invariant.                             *)
LEMMA AbortInv ==
  ASSUME HttpInv, NEW x \in Open, NEW after \in Request,
         pub[x].req = "ended" => after = "ended", Abort(x, after)
  PROVE  HttpInv'
  <1> DEFINE p == [FailResponse(pub[x]) EXCEPT !.paused = FALSE, !.req = after]
  <1>1. pub[x] \in PublicState /\ Answer(x)
    BY Parts DEF HttpInv, Open, Stream
  <1>2. pub[x].res \in {"none", "open"}
    BY <1>1 DEF Answer, Open
  <1>3. /\ FailResponse(pub[x]) \in PublicState
        /\ FailResponse(pub[x]).res \in {"ended", "destroyed"}
        /\ FailResponse(pub[x]).sent = pub[x].sent
        /\ FailResponse(pub[x]).body = pub[x].body
        /\ FailResponse(pub[x]).res = "ended" => FailResponse(pub[x]).status = "gateway"
    BY <1>1, <1>2, FailResponseFacts
  <1>4. /\ p \in PublicState /\ p.res = FailResponse(pub[x]).res
        /\ p.status = FailResponse(pub[x]).status /\ p.req = after
        /\ p.sent = pub[x].sent /\ p.body = pub[x].body
    BY <1>3 DEF PublicState
  <1>5. /\ Cleanup({x}, TRUE) /\ pub' = [pub EXCEPT ![x] = p]
        /\ UNCHANGED <<session, serverUp, clientVars, toClient>>
    BY DEF Abort
  <1> HIDE DEF p
  <1>6. QED BY <1>3, <1>4, <1>5, CloseOne DEF TargetStatus

(* The loss of the public connection keeps it.                             *)
LEMMA PublicDisconnectInv ==
  ASSUME HttpInv, NEW x \in Streams, PublicDisconnect(x)
  PROVE  HttpInv'
  <1> DEFINE p == [pub[x] EXCEPT !.res = "destroyed", !.paused = FALSE,
                                 !.req = IF @ = "flowing" THEN "aborted" ELSE @]
  <1>1. x \in Open /\ pub[x] \in PublicState
    BY Parts DEF HttpInv, PublicDisconnect, Open
  <1>2. /\ p \in PublicState /\ p.res = "destroyed"
        /\ p.sent = pub[x].sent /\ p.body = pub[x].body
        /\ pub[x].req = "ended" => p.req = "ended"
    BY <1>1 DEF PublicState, Request, Response
  <1>3. pub' = [pub EXCEPT ![x] = p]
    BY <1>1 DEF PublicDisconnect, HttpInv, TypeOK
  <1>4. Cleanup({x}, TRUE) /\ UNCHANGED <<session, serverUp, clientVars, toClient>>
    BY DEF PublicDisconnect
  <1> HIDE DEF p
  <1>5. QED BY <1>1, <1>2, <1>3, <1>4, CloseOne

(* The client's ERROR keeps it.                                            *)
LEMMA ServerCancelledInv ==
  ASSUME HttpInv, NEW x \in Streams, ServerCancelled(x)
  PROVE  HttpInv'
  <1> DEFINE p == [FailResponse(pub[x]) EXCEPT !.paused = FALSE]
  <1>1. x \in Open /\ pub[x] \in PublicState /\ Answer(x)
    BY Parts DEF HttpInv, ServerCancelled, SlotsMatch, Slots, Stream
  <1>2. pub[x].res \in {"none", "open"}
    BY <1>1 DEF Answer, Open
  <1>3. /\ FailResponse(pub[x]) \in PublicState
        /\ FailResponse(pub[x]).res \in {"ended", "destroyed"}
        /\ FailResponse(pub[x]).sent = pub[x].sent
        /\ FailResponse(pub[x]).body = pub[x].body
        /\ FailResponse(pub[x]).req = pub[x].req
        /\ FailResponse(pub[x]).res = "ended" => FailResponse(pub[x]).status = "gateway"
    BY <1>1, <1>2, FailResponseFacts
  <1>4. /\ p \in PublicState /\ p.res = FailResponse(pub[x]).res
        /\ p.status = FailResponse(pub[x]).status /\ p.req = pub[x].req
        /\ p.sent = pub[x].sent /\ p.body = pub[x].body
    BY <1>3 DEF PublicState
  <1>5. /\ Cleanup({x}, FALSE) /\ pub' = [pub EXCEPT ![x] = p]
        /\ UNCHANGED <<session, serverUp, clientVars, toClient>>
    BY DEF ServerCancelled
  <1> HIDE DEF p
  <1>6. QED BY <1>1, <1>3, <1>4, <1>5, CloseOne DEF TargetStatus

(* A frame of the answer reaches the public client.                        *)
LEMMA ServerReceivesInv ==
  ASSUME HttpInv, NEW x \in Streams, ServerReceives(x)
  PROVE  HttpInv'
  <1> DEFINE q == toServer[x]
             taken == [toServer EXCEPT ![x] = Tail(@)]
  <1>1. /\ x \in Open /\ srv[x] = "open" /\ q # <<>> /\ Stream(x)
        /\ UNCHANGED <<session, serverUp, clientVars, toClient>>
    BY DEF ServerReceives, HttpInv, SlotsMatch, Slots, Open
  <1>2. /\ pub[x] \in PublicState /\ q \in Seq(UpFrames) /\ tgt[x] \in TargetState
        /\ BodyBound(x) \in Nat
    BY Parts DEF HttpInv
  <1>3. /\ Continues(q, Begun(x)) /\ pub[x].res \in {"none", "open"}
        /\ BodyOf(x) <= BodyBound(x)
        /\ Final(q) => cli[x].phase = "done" /\ Whole(x)
    BY <1>1 DEF Stream, Answer
  <1>4. /\ Headed(q) <=> IsHead(Head(q))
        /\ WellFormed(Tail(q)) /\ ~Headed(Tail(q))
        /\ Head(q) = "FIN" => Tail(q) = <<>> /\ Final(q)
        /\ Head(q) # "FIN" => (Final(Tail(q)) <=> Final(q))
        /\ Chunks(q) = Chunks(Tail(q)) + (IF Head(q) = "DATA" THEN 1 ELSE 0)
        /\ Chunks(Tail(q)) \in Nat
        /\ Head(q) \in UpFrames /\ Tail(q) \in Seq(UpFrames)
    BY <1>1, <1>2, <1>3, TailShape, TailFacts DEF Continues
  <1>5. Begun(x) <=> ~IsHead(Head(q))
    BY <1>1, <1>3, <1>4 DEF Continues
  <1>6. CASE Head(q) = "FIN"
    <2> DEFINE p == [pub[x] EXCEPT !.res = "ended", !.paused = FALSE]
    <2>1. Begun(x) /\ Final(q) /\ Whole(x) /\ BodyOf(x) = pub[x].body
      <3>1. Begun(x) /\ Final(q) /\ Whole(x) /\ Tail(q) = <<>>
        BY <1>3, <1>4, <1>5, <1>6 DEF IsHead
      <3>2. Chunks(q) = 0
        <4>1. Chunks(Tail(q)) = 0
          BY <3>1, EmptyShape
        <4>2. Chunks(q) = Chunks(Tail(q)) + 0
          BY <1>4, <1>6
        <4>3. QED BY <4>1, <4>2
      <3>3. pub[x].body \in Nat
        BY <1>2 DEF PublicState
      <3>4. QED BY <3>1, <3>2, <3>3 DEF BodyOf
    <2>2. /\ p \in PublicState /\ p.res = "ended" /\ p.status = pub[x].status
          /\ p.sent = pub[x].sent /\ p.body = pub[x].body /\ p.req = pub[x].req
      BY <1>2 DEF PublicState, Response
    <2>3. p.status \in TargetStatus =>
            /\ tgt[x].res = "ended" /\ p.status = tgt[x].status
            /\ p.body = tgt[x].sent
      BY <2>1, <2>2 DEF Whole, StatusOf, TargetStatus
    <2>4. Cleanup({x}, FALSE) /\ pub' = [pub EXCEPT ![x] = p]
      BY <1>1, <1>6 DEF ServerReceives, HttpInv, TypeOK
    <2> HIDE DEF p
    <2>5. QED BY <1>1, <2>2, <2>3, <2>4, CloseOne
  <1>7. CASE Head(q) # "FIN"
    <2>1. PICK p \in PublicState :
            /\ pub' = [pub EXCEPT ![x] = p]
            /\ p.req = pub[x].req /\ p.sent = pub[x].sent /\ p.res = "open"
            /\ p.status = StatusOf(x)
            /\ p.body = pub[x].body + (IF Head(q) = "DATA" THEN 1 ELSE 0)
            /\ toServer' = taken /\ UNCHANGED <<srv, slots, errors>>
            /\ held' \in {held, held \cup {x}}
      <3>1. CASE Head(q) = "DATA"
        <4> DEFINE p == [pub[x] EXCEPT !.body = @ + 1]
        <4>1. /\ p \in PublicState /\ p.res = "open" /\ p.status = StatusOf(x)
              /\ p.req = pub[x].req /\ p.sent = pub[x].sent /\ p.body = pub[x].body + 1
          BY <1>2, <1>5, <3>1 DEF PublicState, IsHead, Begun, StatusOf
        <4>2. /\ pub' = [pub EXCEPT ![x] = p] /\ toServer' = taken
              /\ UNCHANGED <<srv, slots, errors>> /\ held' \in {held, held \cup {x}}
          BY <1>1, <3>1 DEF ServerReceives, HttpInv, TypeOK
        <4> HIDE DEF p
        <4>3. QED BY <3>1, <4>1, <4>2
      <3>2. CASE Head(q) # "DATA"
        <4> DEFINE p == [pub[x] EXCEPT !.res = "open", !.status = Head(q)]
        <4>1. ~Begun(x)
          BY <1>5, <1>7, <3>2 DEF IsHead
        <4>2. Head(q) \in TargetStatus \cup LocalStatus
          BY <1>4, <1>7, <3>2 DEF UpFrames, LocalStatus
        <4>3. /\ p \in PublicState /\ p.res = "open" /\ p.status = Head(q)
              /\ p.req = pub[x].req /\ p.sent = pub[x].sent /\ p.body = pub[x].body
              /\ pub[x].body \in Nat
          BY <1>2, <4>2 DEF PublicState, Response
        <4>4. p.status = StatusOf(x)
          BY <4>1, <4>3 DEF StatusOf
        <4>5. /\ pub' = [pub EXCEPT ![x] = p] /\ toServer' = taken
              /\ UNCHANGED <<srv, slots, errors>> /\ held' = held
          BY <1>1, <1>7, <3>2 DEF ServerReceives, HttpInv, TypeOK
        <4> HIDE DEF p
        <4>6. p.body = pub[x].body + (IF Head(q) = "DATA" THEN 1 ELSE 0)
          BY <3>2, <4>3
        <4>7. held' \in {held, held \cup {x}}
          BY <4>5
        <4> HIDE DEF q, taken
        <4>8. QED BY <4>3, <4>4, <4>5, <4>6, <4>7
      <3>3. QED BY <3>1, <3>2
    <2>2. /\ pub \in [Streams -> PublicState] /\ toServer \in [Streams -> Seq(UpFrames)]
          /\ srv \in [Streams -> {"idle", "open", "done"}]
          /\ slots \in [Slots -> SUBSET Streams] /\ held \subseteq Streams
          /\ errors \subseteq {"client", "server"} \X Streams
          /\ toClient \in [Streams -> Seq(DownFrames)] /\ serverUp \in BOOLEAN
          /\ \A y \in Streams : pub[y].body <= BodyBound(y)
      BY DEF HttpInv, TypeOK, PublicState, UpFrames, DownFrames
    <2>3. /\ pub' \in [Streams -> PublicState] /\ pub'[x] = p
          /\ \A y \in Streams \ {x} : pub'[y] = pub[y]
          /\ toServer' \in [Streams -> Seq(UpFrames)] /\ toServer'[x] = Tail(q)
          /\ \A y \in Streams \ {x} : toServer'[y] = toServer[y]
          /\ held' \subseteq Streams
      BY <1>4, <2>1, <2>2
    <2>4. p.body + Chunks(Tail(q)) = BodyOf(x) /\ p.body \in Nat
      BY <1>2, <1>4, <2>1 DEF BodyOf, PublicState
    <2>5. p.body <= BodyBound(x)
      BY <1>2, <1>3, <1>4, <2>4
    <2>6. TypeOK'
      BY <1>1, <2>1, <2>2, <2>3, <2>5, RouterTypes
    <2>7. SlotsMatch'
      BY <1>1, <2>1 DEF HttpInv, SlotsMatch, Open, Active, clientVars
    <2>8. /\ Begun(x)' /\ StatusOf(x)' = StatusOf(x) /\ BodyOf(x)' = BodyOf(x)
          /\ Answered(x) /\ Answered(x)'
      BY <1>1, <2>1, <2>3, <2>4 DEF Begun, StatusOf, BodyOf, Answered
    <2>9. Whole(x) => Whole(x)'
      BY <1>1, <2>8 DEF Whole, clientVars
    <2>10. Ends(x)'
      BY <1>1, <2>1, <2>3 DEF Stream, Ends, Opened, Carried, ClientListens, Open, clientVars
    <2>11. Upload(x)'
      BY <1>1, <2>1, <2>3 DEF Stream, Upload, Opened, Carried, clientVars
    <2>12. Continues(toServer[x], Begun(x))'
      BY <1>4, <2>3, <2>8 DEF Continues
    <2>13. Answer(x)'
      <3>1. pub'[x].res = "open" /\ srv'[x] = "open" /\ cli' = cli /\ tgt' = tgt
        BY <1>1, <2>1, <2>3 DEF clientVars
      <3>2. Final(toServer[x])' => cli'[x].phase = "done" /\ Whole(x)'
        BY <1>3, <1>4, <1>7, <2>3, <2>9, <3>1
      <3>3. BodyBound(x)' = BodyBound(x)
        BY DEF BodyBound
      <3>4. /\ cli'[x].phase # "none"
            /\ cli'[x].phase = "active" =>
                 /\ cli'[x].responding
                 /\ StatusOf(x)' = tgt'[x].status /\ BodyOf(x)' = tgt'[x].sent
        BY <1>1, <2>8, <3>1 DEF Stream, Answer
      <3>5. /\ tgt'[x].sent <= MaxChunks[x] /\ (tgt'[x].res = "ended" => cli'[x].phase = "done")
            /\ cli'[x].phase = "active" /\ ~cli'[x].responding => tgt'[x].sent = 0
        BY <1>1, <3>1 DEF Stream, Answer
      <3>6. BodyOf(x)' <= BodyBound(x)'
        BY <1>3, <2>8, <3>3
      <3>7. QED BY <2>8, <2>12, <3>1, <3>2, <3>4, <3>5, <3>6 DEF Answer
    <2>14. ASSUME NEW y \in Streams \ {x} PROVE Stream(y)'
      <3>1. Stream(y) /\ Untouched(y)
        BY <1>1, <2>1, <2>3 DEF HttpInv, Untouched, clientVars
      <3>2. QED BY <1>1, <3>1, Elsewhere DEF clientVars
    <2>15. QED BY <2>6, <2>7, <2>10, <2>11, <2>13, <2>14 DEF HttpInv, Stream
  <1>8. QED BY <1>6, <1>7

(* A chunk or the end of the request is sent, or dropped for good.         *)
LEMMA SendUpload ==
  ASSUME HttpInv, NEW x \in Open, NEW f \in {"DATA", "FIN"}, pub[x].req = "flowing",
         Send(x, f), UNCHANGED clientVars,
         pub'[x].sent = pub[x].sent + (IF f = "DATA" THEN 1 ELSE 0),
         pub'[x].req = IF f = "FIN" THEN "ended" ELSE "flowing"
  PROVE  /\ Upload(x)'
         /\ toClient' \in [Streams -> Seq(DownFrames)]
         /\ \A y \in Streams \ {x} : toClient'[y] = toClient[y]
         /\ toClient'[x] # <<>> => ClientListens(x)
         /\ Carried(x) => Carried(x)'
  <1>1. /\ x \in Streams /\ Stream(x) /\ toClient \in [Streams -> Seq(DownFrames)]
        /\ f \in DownFrames /\ f # "HEADERS" /\ tgt[x].req # "ended" /\ ~Final(toClient[x])
    BY DEF HttpInv, Open, TypeOK, DownFrames, Stream, Upload, Carried, Final
  <1>2. pub[x].sent \in Nat /\ tgt[x].got \in Nat
    BY <1>1, Parts DEF HttpInv, PublicState, TargetState
  <1>3. CASE ClientListens(x)
    <2> DEFINE q == toClient[x]
               r == Append(q, f)
    <2>1. Carried(x) /\ Continues(q, Opened(x)) /\ tgt[x].got + Chunks(q) = pub[x].sent
      BY <1>1, <1>3 DEF Stream, Ends, Upload
    <2>2. toClient' = [toClient EXCEPT ![x] = r]
      BY <1>3 DEF Send
    <2>3. r \in Seq(DownFrames) /\ r # <<>>
      BY <1>1, AppendFacts
    <2>4. /\ toClient' \in [Streams -> Seq(DownFrames)] /\ toClient'[x] = r
          /\ \A y \in Streams \ {x} : toClient'[y] = toClient[y]
      BY <1>1, <2>2, <2>3
    <2>5. q \in Seq(DownFrames) /\ WellFormed(q) /\ ~IsHead(f)
      BY <1>1, <2>1 DEF Continues, IsHead
    <2>6. /\ WellFormed(r) /\ (Headed(r) <=> Headed(q))
          /\ Final(r) <=> f = "FIN"
          /\ Chunks(r) = Chunks(q) + (IF f = "DATA" THEN 1 ELSE 0)
          /\ Chunks(q) \in Nat
      BY <1>1, <2>5, AppendShape, ChunksNat
    <2>7. q = <<>> => Opened(x) /\ ~Headed(q)
      BY <2>1, EmptyShape DEF Carried, Opened
    <2> HIDE DEF q, r
    <2>8. Continues(r, Opened(x))
      BY <2>1, <2>6, <2>7 DEF Continues
    <2>9. tgt[x].got + Chunks(r) = pub'[x].sent
      BY <1>2, <2>1, <2>6
    <2>10. Final(r) => pub'[x].req = "ended"
      BY <2>6
    <2>11. tgt' = tgt /\ cli' = cli /\ (Opened(x)' <=> Opened(x))
      BY DEF clientVars, Opened
    <2>12. Continues(toClient[x], Opened(x))'
      BY <2>4, <2>8, <2>11 DEF Continues
    <2>13. Upload(x)'
      BY <1>1, <2>4, <2>9, <2>10, <2>11, <2>12 DEF Upload
    <2>14. QED BY <1>3, <2>3, <2>4, <2>13 DEF Carried
  <1>4. CASE ~ClientListens(x)
    <2>1. toClient' = toClient /\ ~Carried(x)
      BY <1>1, <1>4 DEF Send, Stream, Ends, Carried, ClientListens
    <2>2. tgt' = tgt /\ cli' = cli
      BY DEF clientVars
    <2>3. ~Carried(x)'
      BY <2>1, <2>2 DEF Carried
    <2>4. Upload(x)'
      BY <1>1, <2>2, <2>3 DEF Upload
    <2>5. QED BY <1>1, <2>1, <2>4 DEF Carried
  <1>5. QED BY <1>3, <1>4

(* A request that goes on: a frame is sent or the pause ends.              *)
LEMMA RequestGoesOn ==
  ASSUME HttpInv, NEW x \in Open, NEW p \in PublicState, pub' = [pub EXCEPT ![x] = p],
         p.res = pub[x].res, p.status = pub[x].status, p.body = pub[x].body,
         Upload(x)', toClient' \in [Streams -> Seq(DownFrames)],
         \A y \in Streams \ {x} : toClient'[y] = toClient[y],
         toClient'[x] # <<>> => ClientListens(x), Carried(x) => Carried(x)',
         UNCHANGED <<session, serverUp, srv, slots, held, clientVars, toServer, errors>>
  PROVE  HttpInv'
  <1>1. x \in Streams /\ Stream(x)
    BY DEF HttpInv, Open
  <1>2. /\ pub \in [Streams -> PublicState] /\ toServer \in [Streams -> Seq(UpFrames)]
        /\ srv \in [Streams -> {"idle", "open", "done"}]
        /\ slots \in [Slots -> SUBSET Streams] /\ held \subseteq Streams
        /\ errors \subseteq {"client", "server"} \X Streams
        /\ serverUp \in BOOLEAN
        /\ \A y \in Streams : pub[y].body <= BodyBound(y)
    BY DEF HttpInv, TypeOK, PublicState, UpFrames
  <1>3. /\ pub' \in [Streams -> PublicState] /\ pub'[x] = p
        /\ \A y \in Streams \ {x} : pub'[y] = pub[y]
    BY <1>1, <1>2
  <1>4. \A y \in Streams : pub'[y].body <= BodyBound(y)
    BY <1>2, <1>3
  <1>5. TypeOK'
    BY <1>2, <1>3, <1>4, RouterTypes
  <1>6. SlotsMatch'
    BY DEF HttpInv, SlotsMatch, Open, Active, clientVars
  <1>7. Ends(x)'
    <2>1. srv'[x] = "open" /\ srv[x] = "open" /\ Ends(x)
      BY <1>1 DEF Open, Stream
    <2>2. QED BY <2>1 DEF Ends, ClientListens, Opened, Open, clientVars
  <1>8. Answer(x)'
    BY <1>1, <1>3 DEF Stream, Answer, Begun, Answered, StatusOf, BodyOf, Whole, clientVars
  <1>9. ASSUME NEW y \in Streams \ {x} PROVE Stream(y)'
    <2>1. Stream(y) /\ Untouched(y)
      BY <1>3 DEF HttpInv, Untouched, clientVars
    <2>2. QED BY <2>1, Elsewhere DEF clientVars
  <1>10. QED BY <1>5, <1>6, <1>7, <1>8, <1>9 DEF HttpInv, Stream

(* The end of the public request keeps it.                                 *)
LEMMA PublicEndInv ==
  ASSUME HttpInv, NEW x \in Streams, PublicEnd(x)
  PROVE  HttpInv'
  <1> DEFINE p == [pub[x] EXCEPT !.req = "ended"]
  <1>1. x \in Open /\ pub[x] \in PublicState /\ pub \in [Streams -> PublicState]
    BY Parts DEF HttpInv, PublicEnd, Open, TypeOK, PublicState
  <1>2. /\ p \in PublicState /\ p.req = "ended" /\ p.sent = pub[x].sent + 0
        /\ p.res = pub[x].res /\ p.status = pub[x].status /\ p.body = pub[x].body
    BY <1>1 DEF PublicState, Request
  <1>3. pub' = [pub EXCEPT ![x] = p]
    BY <1>1 DEF PublicEnd
  <1> HIDE DEF p
  <1>4. pub'[x] = p
    BY <1>1, <1>3
  <1>5. /\ Upload(x)' /\ toClient' \in [Streams -> Seq(DownFrames)]
        /\ \A y \in Streams \ {x} : toClient'[y] = toClient[y]
        /\ toClient'[x] # <<>> => ClientListens(x)
        /\ Carried(x) => Carried(x)'
    BY <1>1, <1>2, <1>4, SendUpload DEF PublicEnd
  <1>6. UNCHANGED <<session, serverUp, srv, slots, held, clientVars, toServer, errors>>
    BY DEF PublicEnd
  <1>7. QED BY <1>1, <1>2, <1>3, <1>5, <1>6, RequestGoesOn

(* A lane that drains keeps it.                                            *)
LEMMA RequestDrainInv ==
  ASSUME HttpInv, NEW x \in Streams, RequestDrain(x)
  PROVE  HttpInv'
  <1> DEFINE p == [pub[x] EXCEPT !.paused = FALSE]
  <1>1. /\ x \in Open /\ pub[x] \in PublicState /\ pub \in [Streams -> PublicState]
        /\ toClient \in [Streams -> Seq(DownFrames)] /\ Stream(x)
    BY Parts DEF HttpInv, RequestDrain, SlotsMatch, Slots, TypeOK, PublicState, DownFrames
  <1>2. /\ p \in PublicState /\ p.req = pub[x].req /\ p.sent = pub[x].sent
        /\ p.res = pub[x].res /\ p.status = pub[x].status /\ p.body = pub[x].body
    BY <1>1 DEF PublicState
  <1>3. pub' = [pub EXCEPT ![x] = p]
    BY <1>1 DEF RequestDrain
  <1> HIDE DEF p
  <1>4. pub'[x] = p
    BY <1>1, <1>3
  <1>5. /\ UNCHANGED <<session, serverUp, srv, slots, held, clientVars, toServer, errors>>
        /\ toClient' = toClient
    BY DEF RequestDrain, wires
  <1>6. Upload(x)' /\ (Carried(x) => Carried(x)')
    BY <1>1, <1>2, <1>4, <1>5 DEF Stream, Upload, Carried, Opened, clientVars
  <1>7. toClient'[x] # <<>> => ClientListens(x)
    BY <1>1, <1>5 DEF Stream, Ends
  <1>8. QED BY <1>1, <1>2, <1>3, <1>5, <1>6, <1>7, RequestGoesOn

(* The session fails at the router: every open stream is cleaned up.       *)
LEMMA EvictInv ==
  ASSUME HttpInv, serverUp' = FALSE, Cleanup(Open, FALSE),
         UNCHANGED <<session, clientVars>>,
         pub' \in [Streams -> PublicState],
         \A y \in Streams \ Open : pub'[y] = pub[y],
         \A y \in Open : /\ pub'[y].body = pub[y].body
                         /\ pub'[y].res \in {"ended", "destroyed"}
                         /\ pub'[y].res = "ended" => pub'[y].status = "gateway",
         toClient' \in [Streams -> Seq(DownFrames)],
         \A y \in Streams \ Open : toClient'[y] = toClient[y],
         \A y \in Open : toClient'[y] # <<>> => ClientListens(y),
         \A y \in Open : Upload(y)'
  PROVE  HttpInv'
  <1>1. /\ srv' \in [Streams -> {"idle", "open", "done"}]
        /\ slots' \in [Slots -> SUBSET Streams] /\ held' \subseteq Streams
        /\ toServer' \in [Streams -> Seq(UpFrames)]
        /\ errors' \subseteq {"client", "server"} \X Streams
        /\ \A y \in Open : srv'[y] = "done" /\ toServer'[y] = <<>>
        /\ \A y \in Streams \ Open : srv'[y] = srv[y] /\ toServer'[y] = toServer[y]
        /\ SlotsMatch'
    BY CleanupEffect DEF clientVars
  <1>2. \A y \in Streams : pub[y].body <= BodyBound(y)
    BY DEF HttpInv, TypeOK
  <1>3. \A y \in Streams : pub'[y].body <= BodyBound(y)
    BY <1>2
  <1>4. TypeOK'
    BY <1>1, <1>3, RouterTypes
  <1>5. ASSUME NEW y \in Open PROVE Stream(y)'
    <2>1. Stream(y) /\ y \in Streams
      BY DEF HttpInv, Open
    <2>2. Ends(y)'
      BY <1>1, <2>1 DEF Stream, Ends, Opened, ClientListens, Open, clientVars
    <2>3. Answer(y)'
      <3>1. pub'[y].res # "none" /\ ~(pub'[y].res = "ended" /\ pub'[y].status \in TargetStatus)
        BY DEF TargetStatus
      <3>2. cli' = cli /\ tgt' = tgt
        BY DEF clientVars
      <3>3. QED BY <1>1, <2>1, <3>1, <3>2 DEF Stream, Answer
    <2>4. QED BY <2>2, <2>3 DEF Stream
  <1>6. ASSUME NEW y \in Streams \ Open PROVE Stream(y)'
    <2>1. Stream(y) /\ Untouched(y) /\ srv[y] # "open"
      BY <1>1 DEF HttpInv, Untouched, clientVars, Open
    <2>2. QED BY <2>1, Elsewhere DEF clientVars
  <1>7. QED BY <1>1, <1>4, <1>5, <1>6 DEF HttpInv

(* What eviction makes of the responses.                                   *)
LEMMA EvictionFacts ==
  ASSUME HttpInv
  PROVE  /\ AfterEviction \in [Streams -> PublicState]
         /\ \A y \in Streams \ Open : AfterEviction[y] = pub[y]
         /\ \A y \in Open :
              LET p == AfterEviction[y]
              IN  /\ p.body = pub[y].body /\ p.sent = pub[y].sent /\ p.req = pub[y].req
                  /\ p.res \in {"ended", "destroyed"}
                  /\ p.res = "ended" => p.status = "gateway"
  <1>1. ASSUME NEW y \in Open
        PROVE  /\ [FailResponse(pub[y]) EXCEPT !.paused = FALSE] \in PublicState
               /\ LET p == [FailResponse(pub[y]) EXCEPT !.paused = FALSE]
                  IN  /\ p.body = pub[y].body /\ p.sent = pub[y].sent /\ p.req = pub[y].req
                      /\ p.res \in {"ended", "destroyed"}
                      /\ p.res = "ended" => p.status = "gateway"
    <2>1. pub[y] \in PublicState /\ pub[y].res \in {"none", "open"}
      BY Parts DEF HttpInv, Open, Stream, Answer
    <2>2. /\ FailResponse(pub[y]) \in PublicState
          /\ FailResponse(pub[y]).res \in {"ended", "destroyed"}
          /\ FailResponse(pub[y]).sent = pub[y].sent
          /\ FailResponse(pub[y]).body = pub[y].body
          /\ FailResponse(pub[y]).req = pub[y].req
          /\ FailResponse(pub[y]).res = "ended" => FailResponse(pub[y]).status = "gateway"
      BY <2>1, FailResponseFacts
    <2>3. QED BY <2>2 DEF PublicState
  <1>2. \A y \in Streams : pub[y] \in PublicState
    BY Parts DEF HttpInv
  <1>3. Open \subseteq Streams
    BY DEF Open
  <1>4. QED BY <1>1, <1>2, <1>3 DEF AfterEviction

(* The failure of the session at the server keeps it.                      *)
LEMMA ServerFailsInv ==
  ASSUME HttpInv, ServerFails
  PROVE  HttpInv'
  <1>1. /\ serverUp' = FALSE /\ Cleanup(Open, FALSE) /\ pub' = AfterEviction
        /\ UNCHANGED <<session, clientVars>> /\ toClient' = toClient
    BY DEF ServerFails
  <1>2. toClient \in [Streams -> Seq(DownFrames)] /\ Open \subseteq Streams
    BY DEF HttpInv, TypeOK, DownFrames, Open
  <1>3. ASSUME NEW y \in Open
        PROVE  Upload(y)' /\ (toClient'[y] # <<>> => ClientListens(y))
    <2>1. Stream(y)
      BY <1>2 DEF HttpInv
    <2>2. pub'[y].sent = pub[y].sent /\ pub'[y].req = pub[y].req
      BY <1>1, EvictionFacts
    <2>3. QED BY <1>1, <2>1, <2>2 DEF Stream, Ends, Upload, Carried, Opened, clientVars
  <1>4. QED BY <1>1, <1>2, <1>3, EvictionFacts, EvictInv

(* A chunk more is read of the public request.                             *)
LEMMA ReadMore ==
  ASSUME NEW p \in PublicState, NEW s \in Nat, NEW b \in BOOLEAN
  PROVE  LET r == [p EXCEPT !.sent = s, !.paused = b]
         IN  /\ r \in PublicState /\ r.req = p.req /\ r.sent = s /\ r.res = p.res
             /\ r.status = p.status /\ r.body = p.body
  BY DEF PublicState

(* A chunk of the public request keeps it, whether it is sent, too large,  *)
(* or fails the session from inside the write.                             *)
LEMMA PublicDataInv ==
  ASSUME HttpInv, NEW x \in Streams, PublicData(x)
  PROVE  HttpInv'
  <1>1. /\ x \in Open /\ pub[x] \in PublicState /\ pub \in [Streams -> PublicState]
        /\ pub[x].req = "flowing" /\ Stream(x)
    BY Parts DEF HttpInv, PublicData, Open, TypeOK, PublicState
  <1>2. CASE Abort(x, "aborted")
    BY <1>1, <1>2, AbortInv DEF Request
  <1>3. CASE /\ Send(x, "DATA") /\ UNCHANGED <<session, clientVars>>
             /\ \E writable \in BOOLEAN :
                  pub' = [pub EXCEPT ![x].sent = @ + 1, ![x].paused = ~writable]
             /\ UNCHANGED <<serverUp, srv, slots, held, toServer, errors>>
    <2>1. PICK pause \in BOOLEAN :
            pub' = [pub EXCEPT ![x].sent = @ + 1, ![x].paused = pause]
      <3>1. PICK writable \in BOOLEAN :
              pub' = [pub EXCEPT ![x].sent = @ + 1, ![x].paused = ~writable]
        BY <1>3
      <3>2. (~writable) \in BOOLEAN
        OBVIOUS
      <3>3. QED BY <3>1, <3>2
    <2> DEFINE p == [pub[x] EXCEPT !.sent = @ + 1, !.paused = pause]
    <2>2. /\ p \in PublicState /\ p.req = "flowing" /\ p.sent = pub[x].sent + 1
          /\ p.res = pub[x].res /\ p.status = pub[x].status /\ p.body = pub[x].body
      <3>1. pub[x] \in PublicState /\ pub[x].sent + 1 \in Nat /\ pause \in BOOLEAN
        BY <1>1, <2>1 DEF PublicState
      <3>2. /\ p \in PublicState /\ p.req = pub[x].req /\ p.sent = pub[x].sent + 1
            /\ p.res = pub[x].res /\ p.status = pub[x].status /\ p.body = pub[x].body
        <4> DEFINE u == pub[x]
                   s == u.sent + 1
        <4>1. u \in PublicState /\ s \in Nat
          BY <3>1
        <4> HIDE DEF u, s
        <4>2. LET r == [u EXCEPT !.sent = s, !.paused = pause]
              IN  /\ r \in PublicState /\ r.req = u.req /\ r.sent = s /\ r.res = u.res
                  /\ r.status = u.status /\ r.body = u.body
          BY <3>1, <4>1, ReadMore
        <4>3. QED BY <4>2 DEF u, s
      <3> HIDE DEF p
      <3>3. QED BY <1>1, <3>2
    <2>3. pub' = [pub EXCEPT ![x] = p]
      BY <1>1, <2>1 DEF PublicState
    <2> HIDE DEF p
    <2>4. pub'[x] = p
      BY <1>1, <2>3
    <2>5. /\ Upload(x)' /\ toClient' \in [Streams -> Seq(DownFrames)]
          /\ \A y \in Streams \ {x} : toClient'[y] = toClient[y]
          /\ toClient'[x] # <<>> => ClientListens(x)
          /\ Carried(x) => Carried(x)'
      BY <1>1, <1>3, <2>2, <2>4, SendUpload
    <2>6. QED BY <1>1, <1>3, <2>2, <2>3, <2>5, RequestGoesOn
  <1>4. CASE /\ Send(x, "DATA") /\ UNCHANGED <<session, clientVars>>
             /\ serverUp' = FALSE
             /\ Cleanup(Open, FALSE)
             /\ pub' = [AfterEviction EXCEPT ![x].sent = @ + 1, ![x].paused = TRUE]
    <2> DEFINE p == [AfterEviction[x] EXCEPT !.sent = @ + 1, !.paused = TRUE]
    <2>1. AfterEviction \in [Streams -> PublicState] /\ AfterEviction[x] \in PublicState
      BY EvictionFacts
    <2>2. /\ p \in PublicState /\ p.body = pub[x].body /\ p.sent = pub[x].sent + 1
          /\ p.req = "flowing" /\ p.res \in {"ended", "destroyed"}
          /\ p.res = "ended" => p.status = "gateway"
      <3>1. AfterEviction[x].sent = pub[x].sent /\ AfterEviction[x].sent + 1 \in Nat
        BY <1>1, <2>1, EvictionFacts DEF PublicState
      <3>2. /\ AfterEviction[x].body = pub[x].body /\ AfterEviction[x].req = "flowing"
            /\ AfterEviction[x].res \in {"ended", "destroyed"}
            /\ AfterEviction[x].res = "ended" => AfterEviction[x].status = "gateway"
        BY <1>1, EvictionFacts
      <3>3. TRUE \in BOOLEAN
        OBVIOUS
      <3>4. /\ p \in PublicState /\ p.req = AfterEviction[x].req
            /\ p.sent = AfterEviction[x].sent + 1 /\ p.res = AfterEviction[x].res
            /\ p.status = AfterEviction[x].status /\ p.body = AfterEviction[x].body
        BY <2>1, <3>1, <3>3, ReadMore
      <3> HIDE DEF p
      <3>5. QED BY <3>1, <3>2, <3>4
    <2>3. pub' = [AfterEviction EXCEPT ![x] = p]
      BY <1>4, <2>1 DEF PublicState
    <2> HIDE DEF p
    <2>4. /\ pub' \in [Streams -> PublicState] /\ pub'[x] = p
          /\ \A y \in Streams \ {x} : pub'[y] = AfterEviction[y]
      BY <2>1, <2>2, <2>3
    <2>5. /\ Upload(x)' /\ toClient' \in [Streams -> Seq(DownFrames)]
          /\ \A y \in Streams \ {x} : toClient'[y] = toClient[y]
          /\ toClient'[x] # <<>> => ClientListens(x)
      BY <1>1, <1>4, <2>2, <2>4, SendUpload
    <2>6. ASSUME NEW y \in Open \ {x}
          PROVE  Upload(y)' /\ (toClient'[y] # <<>> => ClientListens(y))
      <3>1. Stream(y) /\ y \in Streams /\ toClient'[y] = toClient[y]
        BY <2>5 DEF HttpInv, Open
      <3>2. pub'[y].sent = pub[y].sent /\ pub'[y].req = pub[y].req
        BY <2>4, <3>1, EvictionFacts
      <3>3. QED BY <1>4, <3>1, <3>2 DEF Stream, Ends, Upload, Carried, Opened, clientVars
    <2>7. \A y \in Open : Upload(y)' /\ (toClient'[y] # <<>> => ClientListens(y))
      BY <2>5, <2>6
    <2>8. \A y \in Streams \ Open : pub'[y] = pub[y] /\ toClient'[y] = toClient[y]
      BY <1>1, <2>4, <2>5, EvictionFacts
    <2>9. \A y \in Open : /\ pub'[y].body = pub[y].body
                          /\ pub'[y].res \in {"ended", "destroyed"}
                          /\ pub'[y].res = "ended" => pub'[y].status = "gateway"
      <3>1. Open \subseteq Streams
        BY DEF Open
      <3>2. QED BY <2>2, <2>4, <3>1, EvictionFacts
    <2>10. QED BY <1>4, <2>4, <2>5, <2>7, <2>8, <2>9, EvictInv
  <1>5. QED BY <1>2, <1>3, <1>4 DEF PublicData

(* The router's timeout keeps it.                                          *)
LEMMA StreamTimeoutInv ==
  ASSUME HttpInv, NEW x \in Streams, StreamTimeout(x)
  PROVE  HttpInv'
  <1>1. x \in Open /\ pub[x].req \in Request
    BY Parts DEF HttpInv, StreamTimeout, SlotsMatch, Slots, PublicState
  <1>2. QED BY <1>1, AbortInv DEF StreamTimeout

(* A response that drains keeps it.                                        *)
LEMMA ResponseDrainInv ==
  ASSUME HttpInv, NEW x \in Streams, ResponseDrain(x)
  PROVE  HttpInv'
  <1>1. /\ held' = held \ {x}
        /\ UNCHANGED <<session, serverUp, pub, srv, slots, clientVars, wires>>
    BY DEF ResponseDrain
  <1>2. TypeOK'
    BY <1>1 DEF HttpInv, TypeOK, clientVars, wires
  <1>3. SlotsMatch'
    BY <1>1 DEF HttpInv, SlotsMatch, Open, Active, clientVars
  <1>4. ASSUME NEW y \in Streams PROVE Stream(y)'
    BY <1>1, Elsewhere DEF HttpInv, Untouched, clientVars, wires
  <1>5. QED BY <1>2, <1>3, <1>4 DEF HttpInv

(* A request that gets no stream is answered at once.                      *)
LEMMA RefuseInv ==
  ASSUME HttpInv, NEW x \in Streams, Refuse(x)
  PROVE  HttpInv'
  <1> DEFINE p == [FailResponse(pub[x]) EXCEPT !.req = "flowing"]
  <1>1. /\ srv[x] = "idle" /\ srv' = [srv EXCEPT ![x] = "done"]
        /\ pub' = [pub EXCEPT ![x] = p]
        /\ UNCHANGED <<session, serverUp, slots, held, clientVars, wires>>
    BY DEF Refuse
  <1>2. /\ Stream(x) /\ pub[x] = NewPublic /\ pub[x] \in PublicState
        /\ srv \in [Streams -> {"idle", "open", "done"}]
        /\ pub \in [Streams -> PublicState]
    BY <1>1, Parts DEF HttpInv, Stream, Ends, TypeOK, PublicState
  <1>3. /\ FailResponse(pub[x]) \in PublicState
        /\ FailResponse(pub[x]).res = "ended" /\ FailResponse(pub[x]).status = "gateway"
        /\ FailResponse(pub[x]).body = 0
    <2>1. pub[x].res = "none" /\ pub[x].body = 0
      BY <1>2 DEF NewPublic
    <2>2. FailResponse(pub[x]) = [pub[x] EXCEPT !.res = "ended", !.status = "gateway"]
      BY <2>1 DEF FailResponse
    <2>3. QED BY <1>2, <2>1, <2>2 DEF PublicState, Response, LocalStatus
  <1>4. /\ p \in PublicState /\ p.res = "ended" /\ p.status = "gateway"
        /\ p.body = 0
    BY <1>3 DEF PublicState, Request
  <1> HIDE DEF p
  <1>5. /\ srv'[x] = "done" /\ pub'[x] = p /\ pub' \in [Streams -> PublicState]
        /\ srv' \in [Streams -> {"idle", "open", "done"}]
        /\ \A y \in Streams \ {x} : srv'[y] = srv[y] /\ pub'[y] = pub[y]
    BY <1>1, <1>2, <1>4
  <1>6. TypeOK'
    <2>1. \A y \in Streams : pub'[y].body <= BodyBound(y)
      <3>1. \A y \in Streams : pub[y].body <= BodyBound(y)
        BY DEF HttpInv, TypeOK
      <3>2. 0 <= BodyBound(x)
        BY Parts DEF HttpInv
      <3>3. QED BY <1>4, <1>5, <3>1, <3>2
    <2>2. QED BY <1>1, <1>5, <2>1, RouterTypes
                DEF HttpInv, TypeOK, clientVars, wires, UpFrames, DownFrames
  <1>7. SlotsMatch'
    <2>1. Open' = Open /\ Active' = Active
      BY <1>1, <1>5 DEF Open, Active, clientVars
    <2>2. QED BY <1>1, <2>1 DEF HttpInv, SlotsMatch, clientVars
  <1>8. Ends(x)'
    BY <1>1, <1>2, <1>5 DEF Stream, Ends, Opened, Carried, ClientListens, Open, clientVars, wires
  <1>9. Upload(x)'
    <2>1. ~Carried(x) /\ tgt[x].req # "ended"
      BY <1>1, <1>2 DEF Stream, Ends, Opened, NewTarget
    <2>2. ~Carried(x)' /\ tgt'[x].req # "ended"
      BY <1>1, <2>1 DEF Carried, clientVars, wires
    <2>3. QED BY <2>2 DEF Upload
  <1>10. Answer(x)'
    BY <1>1, <1>2, <1>4, <1>5 DEF Stream, Answer, TargetStatus, clientVars, wires
  <1>11. ASSUME NEW y \in Streams \ {x} PROVE Stream(y)'
    BY <1>1, <1>5, Elsewhere DEF HttpInv, Untouched, clientVars, wires
  <1>12. QED BY <1>6, <1>7, <1>8, <1>9, <1>10, <1>11 DEF HttpInv, Stream

(* A request that gets a stream: its HEADERS go out, if the client listens.*)
LEMMA AcceptInv ==
  ASSUME HttpInv, NEW x \in Streams, Accept(x)
  PROVE  HttpInv'
  <1>1. /\ srv[x] = "idle" /\ srv' = [srv EXCEPT ![x] = "open"] /\ serverUp
        /\ slots' = [k \in Slots |-> slots[k] \cup {x}]
        /\ Send(x, "HEADERS")
        /\ UNCHANGED <<session, serverUp, held, clientVars, toServer, errors>>
    BY DEF Accept, Available, Taken
  <1>2. /\ Stream(x) /\ pub[x] = NewPublic /\ cli[x].phase = "none" /\ ~Carried(x)
        /\ tgt[x] = NewTarget /\ toClient[x] = <<>> /\ toServer[x] = <<>>
    <2>1. Stream(x) /\ pub[x] = NewPublic /\ cli[x].phase = "none" /\ ~Carried(x)
      BY <1>1 DEF HttpInv, Stream, Ends, Opened
    <2>2. QED BY <1>1, <2>1 DEF Stream, Ends, Answer, Carried
  <1>3. PICK p : /\ p \in PublicState /\ pub' = [pub EXCEPT ![x] = p]
                 /\ p.res = "none" /\ p.status = "none" /\ p.body = 0 /\ p.sent = 0
    <2>1. PICK writable \in BOOLEAN :
            pub' = [pub EXCEPT ![x].req = "flowing", ![x].paused = ~writable]
      BY DEF Accept
    <2> DEFINE p == [pub[x] EXCEPT !.req = "flowing", !.paused = ~writable]
    <2>2. p \in PublicState /\ p.res = "none" /\ p.status = "none" /\ p.body = 0 /\ p.sent = 0
      <3>1. pub[x] \in PublicState
        BY Parts DEF HttpInv
      <3>2. p \in PublicState
        BY <3>1 DEF PublicState, Request
      <3>3. QED BY <1>2, <3>2 DEF NewPublic
    <2>3. pub' = [pub EXCEPT ![x] = p]
      BY <2>1 DEF HttpInv, TypeOK
    <2>4. QED BY <2>2, <2>3
  <1>4. /\ srv \in [Streams -> {"idle", "open", "done"}]
        /\ pub \in [Streams -> PublicState] /\ slots \in [Slots -> SUBSET Streams]
        /\ toClient \in [Streams -> Seq(DownFrames)]
    BY DEF HttpInv, TypeOK, PublicState, DownFrames
  <1>5. /\ srv'[x] = "open" /\ pub'[x] = p /\ pub' \in [Streams -> PublicState]
        /\ srv' \in [Streams -> {"idle", "open", "done"}]
        /\ slots' \in [Slots -> SUBSET Streams]
        /\ \A y \in Streams \ {x} : srv'[y] = srv[y] /\ pub'[y] = pub[y]
    BY <1>1, <1>3, <1>4
  <1>6. /\ toClient' \in [Streams -> Seq(DownFrames)]
        /\ \A y \in Streams \ {x} : toClient'[y] = toClient[y]
        /\ IF ClientListens(x) THEN toClient'[x] = <<"HEADERS">> ELSE toClient'[x] = <<>>
    <2>1. CASE ClientListens(x)
      <3>1. Append(<<>>, "HEADERS") = <<"HEADERS">> /\ <<"HEADERS">> \in Seq(DownFrames)
        BY DEF DownFrames
      <3>2. toClient' = [toClient EXCEPT ![x] = <<"HEADERS">>]
        BY <1>1, <1>2, <2>1, <3>1 DEF Send
      <3>3. QED BY <1>4, <2>1, <3>1, <3>2
    <2>2. CASE ~ClientListens(x)
      BY <1>1, <1>2, <1>4, <2>2 DEF Send
    <2>3. QED BY <2>1, <2>2
  <1>7. TypeOK'
    <2>1. \A y \in Streams : pub'[y].body <= BodyBound(y)
      <3>1. \A y \in Streams : pub[y].body <= BodyBound(y)
        BY DEF HttpInv, TypeOK
      <3>2. 0 <= BodyBound(x)
        BY Parts DEF HttpInv
      <3>3. QED BY <1>3, <1>5, <3>1, <3>2
    <2>2. QED BY <1>1, <1>5, <1>6, <2>1, RouterTypes DEF HttpInv, TypeOK, UpFrames
  <1>8. SlotsMatch'
    <2>1. Open' = Open \cup {x} /\ Active' = Active
      BY <1>1, <1>5 DEF Open, Active, clientVars
    <2>2. QED BY <1>1, <2>1 DEF HttpInv, SlotsMatch, clientVars
  <1>9. cli' = cli /\ tgt' = tgt /\ clientUp' = clientUp /\ toServer'[x] = <<>>
        /\ (ClientListens(x)' <=> ClientListens(x))
    BY <1>1, <1>2 DEF clientVars, ClientListens
  <1>10. Ends(x)'
    <2>1. <<"HEADERS">> # <<>>
      OBVIOUS
    <2>2. toClient'[x] # <<>> <=> ClientListens(x)
      BY <1>6, <2>1
    <2>3. serverUp' /\ srv'[x] = "open" /\ cli'[x].phase = "none" /\ ~cli[x].timer
      BY <1>1, <1>2, <1>5, <1>9 DEF Stream, Ends, NewProxy
    <2>4. QED BY <1>2, <1>9, <2>2, <2>3 DEF Stream, Ends, Carried
  <1>11. Upload(x)'
    <2>1. tgt'[x].req # "ended" /\ tgt'[x].got = 0 /\ ~Opened(x)'
      BY <1>2, <1>9 DEF NewTarget, Opened
    <2>2. CASE ClientListens(x)
      <3>1. /\ WellFormed(<<"HEADERS">>) /\ Headed(<<"HEADERS">>) /\ ~Final(<<"HEADERS">>)
            /\ Len(<<"HEADERS">>) = 1
        BY DEF WellFormed, Headed, Final, IsHead
      <3>2. Chunks(<<"HEADERS">>) = 0
        BY <3>1 DEF Chunks, Heads, Fins
      <3>3. toClient'[x] = <<"HEADERS">> /\ pub'[x].sent = 0
        BY <1>3, <1>5, <1>6, <2>2
      <3>4. Continues(toClient[x], Opened(x))'
        BY <2>1, <3>1, <3>3 DEF Continues
      <3>5. QED BY <2>1, <3>1, <3>2, <3>3, <3>4 DEF Upload
    <2>3. CASE ~ClientListens(x)
      BY <1>2, <1>6, <1>9, <2>1, <2>3 DEF Upload, Carried
    <2>4. QED BY <2>2, <2>3
  <1>12. Answer(x)'
    <2>1. Chunks(toServer'[x]) = 0 /\ WellFormed(toServer'[x]) /\ ~Final(toServer'[x])
      BY <1>9, EmptyShape
    <2>2. Continues(toServer[x], Begun(x))'
      BY <1>9, <2>1 DEF Continues
    <2>3. BodyOf(x)' = 0 /\ ~Answered(x)' /\ BodyBound(x)' \in Nat
      BY <1>3, <1>5, <1>9, <2>1, Parts DEF BodyOf, Answered, Begun, HttpInv, BodyBound
    <2>4. BodyOf(x)' <= BodyBound(x)'
      BY <2>3
    <2>5. tgt'[x].sent = 0 /\ tgt'[x].res # "ended" /\ MaxChunks[x] \in Nat
      BY <1>2, <1>9, HttpAssumption DEF NewTarget
    <2>6. QED BY <1>2, <1>3, <1>5, <1>9, <2>1, <2>2, <2>3, <2>4, <2>5 DEF Answer
  <1>13. ASSUME NEW y \in Streams \ {x} PROVE Stream(y)'
    BY <1>1, <1>5, <1>6, <1>9, Elsewhere DEF HttpInv, Untouched
  <1>14. QED BY <1>7, <1>8, <1>10, <1>11, <1>12, <1>13 DEF HttpInv, Stream

-----------------------------------------------------------------------------
(* The proxy. *)

(* The parts of the types that a step of the proxy may change.             *)
LEMMA ProxyTypes ==
  ASSUME HttpInv, UNCHANGED <<session, serverVars>>, clientUp' \in BOOLEAN,
         cli' \in [Streams -> ProxyState], tgt' \in [Streams -> TargetState],
         mux' \subseteq Streams, stopped' \subseteq Streams,
         toServer' \in [Streams -> Seq(UpFrames)],
         toClient' \in [Streams -> Seq(DownFrames)],
         errors' \subseteq {"client", "server"} \X Streams
  PROVE  TypeOK'
  <1>1. UNCHANGED <<session, serverUp, pub, srv, slots, held>>
    BY DEF serverVars
  <1>2. (\A y \in Streams : pub[y].body <= BodyBound(y))'
    <2>1. \A y \in Streams : pub[y].body <= BodyBound(y)
      BY DEF HttpInv, TypeOK
    <2>2. QED BY <1>1, <2>1 DEF BodyBound
  <1>3. QED BY <1>1, <1>2 DEF HttpInv, TypeOK, ProxyState, TargetState, UpFrames, DownFrames

(* A completed stream has no timer, and a destroyed request has an empty   *)
(* target.                                                                 *)
LEMMA CompletedFacts ==
  /\ Completed \in ProxyState /\ Completed.phase = "done" /\ ~Completed.timer
  /\ Destroyed \in TargetState /\ Destroyed.req = "destroyed" /\ Destroyed.res = "none"
  /\ Destroyed.sent = 0 /\ Destroyed.got = 0
  BY DEF Completed, NewProxy, ProxyState, Destroyed, NewTarget, TargetState

(* The session fails at the client: every open stream is over there.       *)
LEMMA AbortAllInv ==
  ASSUME HttpInv, AbortAll, UNCHANGED <<session, serverVars, toServer>>
  PROVE  HttpInv'
  <1>1. /\ clientUp' = FALSE /\ mux' = {} /\ stopped' = {}
        /\ cli' = [x \in Streams |-> IF x \in Active THEN Completed ELSE cli[x]]
        /\ tgt' = [x \in Streams |-> IF x \in Active THEN Destroyed ELSE tgt[x]]
        /\ toClient' = [x \in Streams |-> <<>>]
        /\ errors' \subseteq errors
    BY DEF AbortAll, Without
  <1>2. /\ cli \in [Streams -> ProxyState] /\ tgt \in [Streams -> TargetState]
        /\ toServer \in [Streams -> Seq(UpFrames)]
        /\ errors \subseteq {"client", "server"} \X Streams
        /\ Active \subseteq Streams
    BY DEF HttpInv, TypeOK, ProxyState, TargetState, UpFrames, Active
  <1>3. /\ UNCHANGED <<pub, srv, slots, held, serverUp>> /\ toServer' = toServer
    BY DEF serverVars
  <1>4. /\ cli' \in [Streams -> ProxyState] /\ tgt' \in [Streams -> TargetState]
        /\ \A y \in Active : cli'[y] = Completed /\ tgt'[y] = Destroyed
        /\ \A y \in Streams \ Active : cli'[y] = cli[y] /\ tgt'[y] = tgt[y]
    BY <1>1, <1>2, CompletedFacts
  <1>5. /\ toClient' \in [Streams -> Seq(DownFrames)]
        /\ \A y \in Streams : toClient'[y] = <<>>
    BY <1>1, EmptySeq
  <1>6. TypeOK'
    BY <1>1, <1>2, <1>4, <1>5, ProxyTypes
  <1>7. SlotsMatch'
    <2>1. Active' = {} /\ Open' = Open
      BY <1>3, <1>4, CompletedFacts DEF Active, Open
    <2>2. QED BY <1>1, <1>3, <2>1 DEF HttpInv, SlotsMatch
  <1>8. ASSUME NEW y \in Active PROVE Stream(y)'
    <2>1. /\ y \in Streams /\ Stream(y) /\ cli[y].phase = "active" /\ srv[y] # "idle"
      BY <1>2 DEF HttpInv, Active, Stream, Ends, Carried
    <2>2. ~Carried(y)'
      BY <1>4, <1>5, <2>1, CompletedFacts DEF Carried
    <2>3. Ends(y)'
      BY <1>1, <1>3, <1>4, <1>5, <2>1, CompletedFacts DEF Stream, Ends, ClientListens
    <2>4. Upload(y)'
      BY <1>4, <2>2, CompletedFacts DEF Upload
    <2>5. Answer(y)'
      <3>1. ~Final(toServer[y]) /\ tgt[y].res # "ended"
        <4>1. srv[y] # "open" => toServer[y] = <<>>
          BY <2>1 DEF Stream, Answer
        <4>2. QED BY <2>1, <4>1 DEF Stream, Answer, Final
      <3>2. MaxChunks[y] \in Nat
        BY <2>1, HttpAssumption
      <3>3. 0 <= MaxChunks[y]
        BY <3>2
      <3>4. BodyBound(y)' = BodyBound(y) /\ BodyOf(y)' = BodyOf(y) /\ (Begun(y)' <=> Begun(y))
        BY <1>3 DEF BodyBound, BodyOf, Begun
      <3>5. Continues(toServer[y], Begun(y))' <=> Continues(toServer[y], Begun(y))
        BY <1>3, <3>4 DEF Continues
      <3>6. cli'[y].phase = "done" /\ tgt'[y].sent <= MaxChunks[y] /\ tgt'[y].res = "none"
        BY <1>4, <3>3, CompletedFacts
      <3>7. Answer(y)
        BY <2>1 DEF Stream
      <3>8. QED BY <1>3, <3>1, <3>4, <3>5, <3>6, <3>7 DEF Answer
    <2>6. QED BY <2>3, <2>4, <2>5 DEF Stream
  <1>9. ASSUME NEW y \in Streams \ Active PROVE Stream(y)'
    <2>1. Stream(y) /\ cli[y].phase # "active"
      BY DEF HttpInv, Active
    <2>2. ~Carried(y)'
      BY <1>4, <1>5, <2>1 DEF Carried
    <2>3. Ends(y)'
      BY <1>1, <1>3, <1>4, <1>5, <2>1, <2>2 DEF Stream, Ends, ClientListens, Opened
    <2>4. Upload(y)'
      BY <1>3, <1>4, <2>1, <2>2 DEF Stream, Upload
    <2>5. Answer(y)'
      BY <1>3, <1>4, <2>1
         DEF Stream, Answer, BodyBound, BodyOf, Begun, Answered, StatusOf, Whole
    <2>6. QED BY <2>3, <2>4, <2>5 DEF Stream
  <1>10. QED BY <1>6, <1>7, <1>8, <1>9 DEF HttpInv

(* The failure of the session at the client keeps it.                      *)
LEMMA ClientFailsInv ==
  ASSUME HttpInv, ClientFails
  PROVE  HttpInv'
  BY AbortAllInv DEF ClientFails

(* The proxy completes one stream: its answer is whole, made up, or broken *)
(* off.                                                                    *)
LEMMA FinishInv ==
  ASSUME HttpInv, NEW x \in Active, Finish({x}), NEW t \in TargetState,
         tgt' = [tgt EXCEPT ![x] = t], UNCHANGED <<session, serverVars, clientUp>>,
         errors' \subseteq {"client", "server"} \X Streams,
         toServer' \in [Streams -> Seq(UpFrames)],
         \A y \in Streams \ {x} : toServer'[y] = toServer[y],
         t.sent <= MaxChunks[x],
         t.req = "ended" => pub[x].req = "ended" /\ t.got = pub[x].sent,
         srv[x] # "open" => toServer'[x] = <<>>,
         srv[x] = "open" => /\ Continues(toServer'[x], Begun(x))
                            /\ BodyOf(x)' <= BodyBound(x)
                            /\ Final(toServer'[x]) => Whole(x)'
  PROVE  HttpInv'
  <1>1. /\ cli' = [y \in Streams |-> IF y \in {x} THEN Completed ELSE cli[y]]
        /\ mux' = mux \ {x} /\ stopped' = stopped \ {x}
        /\ toClient' = [y \in Streams |-> IF y \in {x} THEN <<>> ELSE toClient[y]]
    BY DEF Finish, Without
  <1>2. /\ x \in Streams /\ Stream(x) /\ cli[x].phase = "active"
        /\ UNCHANGED <<pub, srv, slots, held, serverUp>>
    BY DEF HttpInv, Active, serverVars
  <1>3. /\ cli \in [Streams -> ProxyState] /\ tgt \in [Streams -> TargetState]
        /\ toClient \in [Streams -> Seq(DownFrames)] /\ clientUp \in BOOLEAN
        /\ mux \subseteq Streams /\ stopped \subseteq Streams
    BY DEF HttpInv, TypeOK, ProxyState, TargetState, DownFrames
  <1>4. /\ cli' \in [Streams -> ProxyState] /\ tgt' \in [Streams -> TargetState]
        /\ cli'[x] = Completed /\ tgt'[x] = t
        /\ \A y \in Streams \ {x} : cli'[y] = cli[y] /\ tgt'[y] = tgt[y]
    BY <1>1, <1>2, <1>3, CompletedFacts
  <1>5. /\ toClient' \in [Streams -> Seq(DownFrames)] /\ toClient'[x] = <<>>
        /\ \A y \in Streams \ {x} : toClient'[y] = toClient[y]
    BY <1>1, <1>2, <1>3, EmptySeq
  <1>6. TypeOK'
    BY <1>1, <1>3, <1>4, <1>5, ProxyTypes
  <1>7. SlotsMatch'
    <2>1. Active' = Active \ {x} /\ Open' = Open
      BY <1>2, <1>4, CompletedFacts DEF Active, Open
    <2>2. QED BY <1>1, <1>2, <2>1 DEF HttpInv, SlotsMatch
  <1>8. ~Carried(x)' /\ cli'[x].phase = "done"
    BY <1>4, <1>5, CompletedFacts DEF Carried
  <1>9. Ends(x)'
    <2>1. srv[x] # "idle"
      BY <1>2 DEF Stream, Ends, Carried
    <2>2. QED BY <1>2, <1>4, <1>5, <1>8, <2>1, CompletedFacts
            DEF Stream, Ends, ClientListens, serverVars
  <1>10. Upload(x)'
    BY <1>2, <1>4, <1>8 DEF Upload
  <1>11. Answer(x)'
    <2>1. tgt[x].res # "ended"
      BY <1>2 DEF Stream, Answer
    <2>2. BodyBound(x)' = BodyBound(x) /\ (Begun(x)' <=> Begun(x))
      BY <1>2 DEF BodyBound, Begun
    <2>3. Continues(toServer[x], Begun(x))' <=> Continues(toServer'[x], Begun(x))
      BY <2>2 DEF Continues
    <2>4. QED BY <1>2, <1>4, <1>8, <2>1, <2>2, <2>3 DEF Stream, Answer
  <1>12. ASSUME NEW y \in Streams \ {x} PROVE Stream(y)'
    BY <1>2, <1>4, <1>5, Elsewhere DEF HttpInv, Untouched
  <1>13. QED BY <1>6, <1>7, <1>9, <1>10, <1>11, <1>12 DEF HttpInv, Stream

(* The proxy goes on with a stream, or begins it.                          *)
LEMMA GoOnInv ==
  ASSUME HttpInv, NEW x \in Streams, NEW c \in ProxyState, NEW t \in TargetState,
         c.phase = "active", c.timer => ~c.responding, clientUp, srv[x] # "idle",
         cli' = [cli EXCEPT ![x] = c], tgt' = [tgt EXCEPT ![x] = t],
         mux' = mux \cup {x}, stopped' \subseteq stopped \cup {x},
         UNCHANGED <<session, serverVars, clientUp, errors>>,
         toClient' \in [Streams -> Seq(DownFrames)],
         toServer' \in [Streams -> Seq(UpFrames)],
         \A y \in Streams \ {x} : toClient'[y] = toClient[y] /\ toServer'[y] = toServer[y],
         Upload(x)', Answer(x)'
  PROVE  HttpInv'
  <1>1. /\ cli \in [Streams -> ProxyState] /\ tgt \in [Streams -> TargetState]
        /\ mux \subseteq Streams /\ stopped \subseteq Streams /\ clientUp \in BOOLEAN
        /\ errors \subseteq {"client", "server"} \X Streams
    BY DEF HttpInv, TypeOK, ProxyState, TargetState
  <1>2. /\ cli' \in [Streams -> ProxyState] /\ tgt' \in [Streams -> TargetState]
        /\ cli'[x] = c /\ tgt'[x] = t
        /\ \A y \in Streams \ {x} : cli'[y] = cli[y] /\ tgt'[y] = tgt[y]
    BY <1>1
  <1>3. UNCHANGED <<pub, srv, slots, held, serverUp>>
    BY DEF serverVars
  <1>4. TypeOK'
    BY <1>1, <1>2, ProxyTypes
  <1>5. SlotsMatch'
    <2>1. Active' = Active \cup {x} /\ Open' = Open
      BY <1>2, <1>3 DEF Active, Open
    <2>2. QED BY <1>3, <2>1 DEF HttpInv, SlotsMatch
  <1>6. Ends(x)'
    <2>1. Ends(x)
      BY DEF HttpInv, Stream
    <2>2. QED BY <1>2, <1>3, <2>1 DEF Ends, ClientListens, Carried
  <1>7. ASSUME NEW y \in Streams \ {x} PROVE Stream(y)'
    BY <1>2, <1>3, Elsewhere DEF HttpInv, Untouched
  <1>8. QED BY <1>4, <1>5, <1>6, <1>7 DEF HttpInv, Stream

(* What a step that leaves the answer's frames alone keeps of the answer.  *)
LEMMA AnswerKept ==
  ASSUME HttpInv, NEW x \in Streams, UNCHANGED <<serverVars, toServer>>,
         cli'[x].phase = "active", cli[x].phase = "active",
         cli'[x].responding = cli[x].responding,
         tgt'[x].sent = tgt[x].sent, tgt'[x].res = tgt[x].res,
         tgt'[x].status = tgt[x].status
  PROVE  Answer(x)'
  <1>1. Answer(x) /\ UNCHANGED <<pub, srv>>
    BY DEF HttpInv, Stream, serverVars
  <1>2. QED BY <1>1 DEF Answer, BodyBound, BodyOf, Begun, Answered, StatusOf, Whole

(* What a step that leaves the request's frames alone keeps of the upload. *)
LEMMA UploadKept ==
  ASSUME HttpInv, NEW x \in Active, UNCHANGED <<serverVars, toClient>>,
         cli'[x].phase = "active", tgt'[x].got = tgt[x].got, tgt'[x].req = tgt[x].req
  PROVE  Upload(x)'
  <1>1. /\ Upload(x) /\ UNCHANGED pub /\ x \in Streams
        /\ (Opened(x)' <=> Opened(x)) /\ (Carried(x)' <=> Carried(x))
    BY DEF HttpInv, Stream, serverVars, Active, Opened, Carried
  <1>2. QED BY <1>1 DEF Upload, Continues

(* A frame for the public client goes behind the others, if the router     *)
(* still listens.                                                          *)
LEMMA ReplyFrame ==
  ASSUME HttpInv, NEW x \in Streams, NEW f \in UpFrames, Reply(x, <<f>>)
  PROVE  /\ toServer' \in [Streams -> Seq(UpFrames)]
         /\ \A y \in Streams \ {x} : toServer'[y] = toServer[y]
         /\ srv[x] = "open" => toServer'[x] = Append(toServer[x], f)
         /\ srv[x] # "open" => toServer'[x] = <<>>
  <1>1. /\ toServer \in [Streams -> Seq(UpFrames)] /\ Stream(x)
    BY DEF HttpInv, TypeOK, UpFrames
  <1>2. srv[x] = "open" => ServerListens(x)
    BY <1>1 DEF Stream, Ends, ServerListens
  <1>3. Append(toServer[x], f) = toServer[x] \o <<f>> /\ Append(toServer[x], f) \in Seq(UpFrames)
    BY <1>1, AppendIsConcat, AppendFacts
  <1>4. CASE srv[x] = "open"
    <2>1. toServer' = [toServer EXCEPT ![x] = Append(toServer[x], f)]
      BY <1>2, <1>3, <1>4 DEF Reply
    <2>2. QED BY <1>1, <1>3, <1>4, <2>1
  <1>5. CASE srv[x] # "open"
    <2>1. toServer' = toServer /\ toServer[x] = <<>>
      BY <1>1, <1>5 DEF Reply, ServerListens, Stream, Answer
    <2>2. QED BY <1>1, <1>5, <2>1
  <1>6. QED BY <1>4, <1>5

(* The answer the proxy makes up before the target has said anything.      *)
LEMMA ReplyPlain ==
  ASSUME HttpInv, NEW x \in Active, ~cli[x].responding, Reply(x, Plain),
         UNCHANGED serverVars
  PROVE  /\ toServer' \in [Streams -> Seq(UpFrames)]
         /\ \A y \in Streams \ {x} : toServer'[y] = toServer[y]
         /\ srv[x] # "open" => toServer'[x] = <<>>
         /\ srv[x] = "open" => /\ Continues(toServer'[x], Begun(x))
                               /\ BodyOf(x)' <= BodyBound(x)
                               /\ Final(toServer'[x]) => Whole(x)'
  <1>1. /\ toServer \in [Streams -> Seq(UpFrames)] /\ Stream(x) /\ x \in Streams
        /\ cli[x].phase = "active" /\ UNCHANGED <<pub, srv>>
    BY DEF HttpInv, TypeOK, UpFrames, Active, serverVars
  <1>2. CASE srv[x] = "open"
    <2>1. toServer[x] = <<>> /\ ~Begun(x) /\ ServerListens(x)
      BY <1>1, <1>2 DEF Stream, Ends, Answer, Answered, ServerListens
    <2>2. toServer' = [toServer EXCEPT ![x] = Plain]
      BY <2>1, PlainShape DEF Reply
    <2>3. Plain \in Seq(UpFrames)
      BY DEF Plain, UpFrames
    <2>4. /\ toServer' \in [Streams -> Seq(UpFrames)] /\ toServer'[x] = Plain
          /\ \A y \in Streams \ {x} : toServer'[y] = toServer[y]
      BY <1>1, <2>2, <2>3
    <2>5. Continues(Plain, Begun(x))
      BY <2>1, PlainShape DEF Continues
    <2>6. pub[x].body = 0 /\ 1 <= BodyBound(x)
      BY <1>1, <1>2, <2>1, Parts DEF Stream, Answer, Begun, HttpInv
    <2>7. BodyOf(x)' = 1
      <3>1. BodyOf(x)' = pub[x].body + Chunks(Plain)
        BY <1>1, <2>4 DEF BodyOf
      <3>2. QED BY <2>6, <3>1, PlainShape
    <2>8. StatusOf(x)' = "plain"
      BY <1>1, <2>1, <2>4, PlainShape DEF StatusOf, Begun
    <2>9. QED BY <1>2, <2>4, <2>5, <2>6, <2>7, <2>8 DEF Whole
  <1>3. CASE srv[x] # "open"
    <2>1. toServer' = toServer /\ toServer[x] = <<>>
      BY <1>1, <1>3 DEF Reply, ServerListens, Stream, Answer
    <2>2. QED BY <1>1, <1>3, <2>1
  <1>4. QED BY <1>2, <1>3

(* The request is destroyed after a made-up answer.                        *)
LEMMA PlainInv ==
  ASSUME HttpInv, NEW x \in Active, ~cli[x].responding, Reply(x, Plain), Finish({x}),
         tgt' = [tgt EXCEPT ![x] = Destroyed], errors' = Cancelling(x),
         UNCHANGED <<session, serverVars, clientUp>>
  PROVE  HttpInv'
  <1>1. errors' \subseteq {"client", "server"} \X Streams /\ x \in Streams
    BY DEF HttpInv, TypeOK, Cancelling, Active
  <1>2. Destroyed \in TargetState /\ Destroyed.sent <= MaxChunks[x] /\ Destroyed.req # "ended"
    BY <1>1, CompletedFacts, HttpAssumption
  <1>3. QED BY <1>1, <1>2, ReplyPlain, FinishInv

(* The request is destroyed and nothing more is answered.                  *)
LEMMA BrokenInv ==
  ASSUME HttpInv, NEW x \in Active, Finish({x}), tgt' = [tgt EXCEPT ![x] = Destroyed],
         errors' \subseteq {"client", "server"} \X Streams,
         UNCHANGED <<session, serverVars, clientUp, toServer>>
  PROVE  HttpInv'
  <1>1. /\ x \in Streams /\ Stream(x) /\ cli[x].phase = "active" /\ UNCHANGED <<pub, srv>>
        /\ toServer \in [Streams -> Seq(UpFrames)]
    BY DEF HttpInv, TypeOK, Active, serverVars, UpFrames
  <1>2. Destroyed \in TargetState /\ Destroyed.sent <= MaxChunks[x] /\ Destroyed.req # "ended"
    BY <1>1, CompletedFacts, HttpAssumption
  <1>3. srv[x] # "open" => toServer[x] = <<>>
    BY <1>1 DEF Stream, Answer
  <1>4. srv[x] = "open" => /\ Continues(toServer[x], Begun(x)) /\ ~Final(toServer[x])
                           /\ BodyOf(x)' <= BodyBound(x)
    <2>1. BodyOf(x)' = BodyOf(x)
      BY <1>1 DEF BodyOf
    <2>2. QED BY <1>1, <2>1 DEF Stream, Answer
  <1>5. QED BY <1>1, <1>2, <1>3, <1>4, FinishInv

(* The target's timeout keeps it: no answer has begun while it is armed.   *)
LEMMA TargetTimeoutInv ==
  ASSUME HttpInv, NEW x \in Streams, TargetTimeout(x)
  PROVE  HttpInv'
  <1>1. x \in Active /\ ~cli[x].responding
    BY DEF TargetTimeout, HttpInv, Stream, Ends, Active
  <1>2. QED BY <1>1, PlainInv DEF TargetTimeout, Plain

(* A target that breaks off keeps it.                                      *)
LEMMA TargetBreaksInv ==
  ASSUME HttpInv, NEW x \in Streams, TargetBreaks(x)
  PROVE  HttpInv'
  <1>1. /\ x \in Active /\ Finish({x}) /\ tgt' = [tgt EXCEPT ![x] = Destroyed]
        /\ UNCHANGED <<session, serverVars, clientUp>>
    BY DEF TargetBreaks, Active
  <1>2. CASE ReportBreak(x)
    <2>1. errors' \subseteq {"client", "server"} \X Streams /\ toServer' = toServer
      BY <1>2 DEF ReportBreak, Cancelling, HttpInv, TypeOK
    <2>2. QED BY <1>1, <2>1, BrokenInv
  <1>3. CASE /\ ~cli[x].responding /\ Reply(x, <<"plain", "DATA", "FIN">>)
             /\ errors' = Cancelling(x)
    BY <1>1, <1>3, PlainInv DEF Plain
  <1>4. QED BY <1>2, <1>3 DEF TargetBreaks

(* The router's ERROR keeps it.                                            *)
LEMMA ClientCancelledInv ==
  ASSUME HttpInv, NEW x \in Streams, ClientCancelled(x)
  PROVE  HttpInv'
  <1>1. UNCHANGED <<session, serverVars, toServer>>
    BY DEF ClientCancelled
  <1>2. CASE AbortAll
    BY <1>1, <1>2, AbortAllInv
  <1>3. CASE ~AbortAll
    <2>1. /\ x \in Active /\ Finish({x}) /\ tgt' = [tgt EXCEPT ![x] = Destroyed]
          /\ errors' \subseteq {"client", "server"} \X Streams /\ UNCHANGED clientUp
      BY <1>3 DEF ClientCancelled, Active, Cancelling, HttpInv, TypeOK
    <2>2. QED BY <1>1, <2>1, BrokenInv
  <1>4. QED BY <1>2, <1>3

(* The end of the target's answer goes out behind the rest of it.          *)
LEMMA TargetEndsInv ==
  ASSUME HttpInv, NEW x \in Streams, TargetEnds(x)
  PROVE  HttpInv'
  <1>1. /\ x \in Active /\ cli[x].phase = "active" /\ cli[x].responding
        /\ UNCHANGED <<session, serverVars>> /\ Stream(x)
        /\ UNCHANGED <<pub, srv>>
    BY DEF TargetEnds, Active, serverVars, HttpInv
  <1>2. CASE AbortAll /\ UNCHANGED toServer
    BY <1>1, <1>2, AbortAllInv
  <1>3. CASE ~(AbortAll /\ UNCHANGED toServer)
    <2> DEFINE t == [tgt[x] EXCEPT !.res = "ended"]
               q == toServer[x]
               r == Append(q, "FIN")
    <2>1. /\ Reply(x, <<"FIN">>) /\ Finish({x}) /\ UNCHANGED clientUp
          /\ tgt' = [tgt EXCEPT ![x] = t] /\ errors' = Cancelling(x)
      BY <1>3 DEF TargetEnds, HttpInv, TypeOK
    <2>2. tgt[x] \in TargetState /\ tgt \in [Streams -> TargetState]
      BY Parts DEF HttpInv, TypeOK, TargetState
    <2>3. /\ t \in TargetState /\ t.res = "ended" /\ t.sent = tgt[x].sent
          /\ t.got = tgt[x].got /\ t.req = tgt[x].req /\ t.status = tgt[x].status
      BY <2>2 DEF TargetState
    <2>4. errors' \subseteq {"client", "server"} \X Streams
      BY <2>1 DEF Cancelling, HttpInv, TypeOK
    <2>5. /\ toServer' \in [Streams -> Seq(UpFrames)]
          /\ \A y \in Streams \ {x} : toServer'[y] = toServer[y]
          /\ srv[x] = "open" => toServer'[x] = r
          /\ srv[x] # "open" => toServer'[x] = <<>>
      BY <2>1, ReplyFrame DEF UpFrames
    <2> HIDE DEF t
    <2>6. tgt'[x] = t
      BY <2>1, <2>2
    <2>7. t.sent <= MaxChunks[x]
      BY <1>1, <2>3 DEF Stream, Answer
    <2>8. t.req = "ended" => pub[x].req = "ended" /\ t.got = pub[x].sent
      BY <1>1, <2>3 DEF Stream, Upload
    <2>9. ASSUME srv[x] = "open"
          PROVE  /\ Continues(toServer'[x], Begun(x)) /\ BodyOf(x)' <= BodyBound(x)
                 /\ Whole(x)'
      <3>1. /\ Continues(q, Begun(x)) /\ ~Final(q) /\ q \in Seq(UpFrames)
            /\ Answered(x) /\ StatusOf(x) = tgt[x].status /\ BodyOf(x) = tgt[x].sent
            /\ BodyOf(x) <= BodyBound(x) /\ pub[x].body \in Nat
        BY <1>1, <2>9, Parts DEF Stream, Answer, HttpInv, PublicState
      <3>2. "FIN" \in UpFrames /\ ~IsHead("FIN") /\ "FIN" # "DATA" /\ WellFormed(q)
        BY <3>1 DEF UpFrames, IsHead, Continues
      <3>3. /\ WellFormed(r) /\ (Headed(r) <=> Headed(q)) /\ r # <<>>
            /\ Chunks(r) = Chunks(q) + 0 /\ Chunks(q) \in Nat
            /\ q # <<>> => Head(r) = Head(q)
        BY <3>1, <3>2, AppendShape, AppendFacts, ChunksNat
      <3>4. q = <<>> => Begun(x) /\ ~Headed(q)
        BY <3>1, EmptyShape DEF Answered
      <3> HIDE DEF q, r
      <3>5. Headed(r) <=> ~Begun(x)
        BY <3>1, <3>3, <3>4 DEF Continues
      <3>6. toServer'[x] = r
        BY <2>5, <2>9
      <3>7. BodyOf(x)' = BodyOf(x)
        BY <1>1, <3>1, <3>3, <3>6 DEF BodyOf, q
      <3>8. StatusOf(x)' = StatusOf(x)
        BY <1>1, <3>3, <3>4, <3>6 DEF StatusOf, Begun, q
      <3>9. Whole(x)'
        BY <2>3, <2>6, <3>1, <3>7, <3>8 DEF Whole
      <3>10. QED BY <3>1, <3>3, <3>5, <3>6, <3>7, <3>9 DEF Continues
    <2>10. QED BY <1>1, <2>1, <2>3, <2>4, <2>5, <2>7, <2>8, <2>9, FinishInv
  <1>4. QED BY <1>2, <1>3

(* What every step of an active stream can use.                            *)
LEMMA ActiveFacts ==
  ASSUME HttpInv, NEW x \in Active
  PROVE  /\ x \in Streams /\ Stream(x) /\ cli[x].phase = "active" /\ clientUp
         /\ srv[x] # "idle" /\ mux \cup {x} = mux
         /\ cli[x] \in ProxyState /\ tgt[x] \in TargetState
         /\ cli \in [Streams -> ProxyState] /\ tgt \in [Streams -> TargetState]
         /\ toClient \in [Streams -> Seq(DownFrames)]
         /\ toServer \in [Streams -> Seq(UpFrames)]
  <1>1. x \in Streams /\ Stream(x) /\ cli[x].phase = "active"
    BY DEF HttpInv, Active
  <1>2. clientUp /\ srv[x] # "idle" /\ mux \cup {x} = mux
    BY <1>1 DEF Stream, Ends, Carried, HttpInv, SlotsMatch
  <1>3. QED BY <1>1, <1>2, Parts
          DEF HttpInv, TypeOK, ProxyState, TargetState, DownFrames, UpFrames

(* The pauses of an active stream change nothing else.                     *)
LEMMA PauseInv ==
  ASSUME HttpInv, NEW x \in Active, NEW c \in ProxyState, cli' = [cli EXCEPT ![x] = c],
         c.phase = "active", c.responding = cli[x].responding, c.timer = cli[x].timer,
         stopped' \subseteq stopped,
         UNCHANGED <<session, serverVars, clientUp, mux, tgt, wires>>
  PROVE  HttpInv'
  <1>1. /\ x \in Streams /\ Stream(x) /\ cli[x].phase = "active" /\ clientUp
        /\ srv[x] # "idle" /\ mux \cup {x} = mux
        /\ tgt[x] \in TargetState /\ cli \in [Streams -> ProxyState]
        /\ tgt \in [Streams -> TargetState]
        /\ toClient \in [Streams -> Seq(DownFrames)]
        /\ toServer \in [Streams -> Seq(UpFrames)]
    BY ActiveFacts
  <1>2. tgt' = [tgt EXCEPT ![x] = tgt[x]] /\ cli'[x] = c
    BY <1>1
  <1>3. Upload(x)' /\ Answer(x)'
    BY <1>1, <1>2, UploadKept, AnswerKept DEF wires
  <1>4. c.timer => ~c.responding
    BY <1>1 DEF Stream, Ends
  <1>5. UNCHANGED <<toClient, toServer, errors>>
    BY DEF wires
  <1>6. QED BY <1>1, <1>2, <1>3, <1>4, <1>5, GoOnInv

(* A target that drains keeps it.                                          *)
LEMMA TargetDrainInv ==
  ASSUME HttpInv, NEW x \in Streams, TargetDrain(x)
  PROVE  HttpInv'
  <1> DEFINE c == [cli[x] EXCEPT !.full = FALSE]
  <1>1. /\ x \in Active /\ cli[x] \in ProxyState /\ cli \in [Streams -> ProxyState]
        /\ cli[x].phase = "active"
    BY ActiveFacts DEF TargetDrain, Active
  <1>2. /\ c \in ProxyState /\ c.phase = "active" /\ c.responding = cli[x].responding
        /\ c.timer = cli[x].timer
    BY <1>1 DEF ProxyState
  <1>3. cli' = [cli EXCEPT ![x] = c]
    BY <1>1 DEF TargetDrain
  <1> HIDE DEF c
  <1>4. QED BY <1>1, <1>2, <1>3, PauseInv DEF TargetDrain

(* A lane that drains at the client keeps it.                              *)
LEMMA LaneDrainInv ==
  ASSUME HttpInv, NEW x \in Streams, LaneDrain(x)
  PROVE  HttpInv'
  <1> DEFINE c == [cli[x] EXCEPT !.paused = FALSE]
  <1>1. /\ x \in Active /\ cli[x] \in ProxyState /\ cli \in [Streams -> ProxyState]
        /\ cli[x].phase = "active"
    BY ActiveFacts DEF LaneDrain, Active
  <1>2. /\ c \in ProxyState /\ c.phase = "active" /\ c.responding = cli[x].responding
        /\ c.timer = cli[x].timer
    BY <1>1 DEF ProxyState
  <1>3. cli' = [cli EXCEPT ![x] = c]
    BY <1>1 DEF LaneDrain
  <1> HIDE DEF c
  <1>4. QED BY <1>1, <1>2, <1>3, PauseInv DEF LaneDrain

(* The target's status goes out, or a chunk of its answer.                 *)
LEMMA TargetRespondsInv ==
  ASSUME HttpInv, NEW x \in Streams, NEW status \in TargetStatus, TargetResponds(x, status)
  PROVE  HttpInv'
  <1> DEFINE t == [tgt[x] EXCEPT !.res = "open", !.status = status]
             r == Append(<<>>, status)
  <1>1. /\ x \in Active /\ ~cli[x].responding /\ Reply(x, <<status>>)
        /\ tgt' = [tgt EXCEPT ![x].res = "open", ![x].status = status]
        /\ UNCHANGED <<session, serverVars, clientUp, mux, stopped, toClient, errors>>
    BY DEF TargetResponds, Active
  <1>2. /\ x \in Streams /\ Stream(x) /\ cli[x].phase = "active" /\ clientUp
        /\ srv[x] # "idle" /\ mux \cup {x} = mux
        /\ cli[x] \in ProxyState /\ tgt[x] \in TargetState
        /\ cli \in [Streams -> ProxyState] /\ tgt \in [Streams -> TargetState]
        /\ toClient \in [Streams -> Seq(DownFrames)]
        /\ UNCHANGED <<pub, srv>>
    BY <1>1, ActiveFacts DEF serverVars
  <1>3. PICK c : /\ c \in ProxyState /\ cli' = [cli EXCEPT ![x] = c]
                 /\ c.phase = "active" /\ c.responding /\ ~c.timer
    <2>1. PICK writable \in BOOLEAN :
            cli' = [cli EXCEPT ![x].responding = TRUE, ![x].timer = FALSE,
                               ![x].paused = ~writable]
      BY DEF TargetResponds
    <2> DEFINE c == [cli[x] EXCEPT !.responding = TRUE, !.timer = FALSE,
                                   !.paused = ~writable]
    <2>2. c \in ProxyState /\ c.phase = "active" /\ c.responding /\ ~c.timer
      BY <1>2 DEF ProxyState
    <2>3. cli' = [cli EXCEPT ![x] = c]
      BY <1>2, <2>1
    <2>4. QED BY <2>2, <2>3
  <1>4. /\ t \in TargetState /\ t.res = "open" /\ t.status = status
        /\ t.sent = tgt[x].sent /\ t.got = tgt[x].got /\ t.req = tgt[x].req
        /\ tgt' = [tgt EXCEPT ![x] = t]
    BY <1>1, <1>2 DEF TargetState
  <1>5. /\ status \in UpFrames /\ IsHead(status) /\ status # "FIN" /\ status # "DATA"
    BY DEF UpFrames, IsHead, TargetStatus
  <1>6. /\ toServer' \in [Streams -> Seq(UpFrames)]
        /\ \A y \in Streams \ {x} : toServer'[y] = toServer[y]
        /\ srv[x] = "open" => toServer'[x] = Append(toServer[x], status)
        /\ srv[x] # "open" => toServer'[x] = <<>>
    BY <1>1, <1>2, <1>5, ReplyFrame
  <1> HIDE DEF t
  <1>7. cli'[x] = c /\ tgt'[x] = t
    BY <1>2, <1>3, <1>4
  <1>8. Upload(x)'
    BY <1>1, <1>3, <1>4, <1>7, UploadKept
  <1>9. Answer(x)'
    <2>1. /\ tgt[x].sent = 0 /\ tgt[x].sent <= MaxChunks[x]
      BY <1>1, <1>2 DEF Stream, Answer
    <2>2. CASE srv[x] # "open"
      BY <1>2, <1>3, <1>4, <1>6, <1>7, <2>1, <2>2 DEF Stream, Answer
    <2>3. CASE srv[x] = "open"
      <3>1. /\ toServer[x] = <<>> /\ ~Begun(x) /\ pub[x].res = "none" /\ pub[x].body = 0
        BY <1>1, <1>2, <2>3 DEF Stream, Answer, Answered, Begun
      <3>2. toServer'[x] = r
        BY <1>6, <2>3, <3>1
      <3>3. <<>> \in Seq(UpFrames) /\ WellFormed(<<>>) /\ ~Final(<<>>) /\ Chunks(<<>>) = 0
        BY EmptyShape
      <3>4. /\ WellFormed(r) /\ Headed(r) /\ ~Final(r) /\ Head(r) = status
            /\ Chunks(r) = 0 + 0 /\ r # <<>>
        <4> DEFINE e == <<>>
        <4>1. /\ e \in Seq(UpFrames) /\ WellFormed(e) /\ ~Final(e) /\ e = <<>>
              /\ Chunks(e) = 0
          BY <3>3
        <4> HIDE DEF e
        <4>2. /\ WellFormed(Append(e, status)) /\ Headed(Append(e, status))
              /\ ~Final(Append(e, status)) /\ Head(Append(e, status)) = status
              /\ Chunks(Append(e, status)) = Chunks(e) + 0
              /\ Append(e, status) # <<>>
          <5>1. Append(e, status) # <<>>
            BY <1>5, <4>1, AppendFacts
          <5>2. /\ WellFormed(Append(e, status))
                /\ Headed(Append(e, status)) <=> Headed(e) \/ (e = <<>> /\ IsHead(status))
                /\ Final(Append(e, status)) <=> status = "FIN"
                /\ Chunks(Append(e, status)) = Chunks(e) + (IF status = "DATA" THEN 1 ELSE 0)
                /\ e = <<>> => Head(Append(e, status)) = status
            BY <1>5, <4>1, AppendShape
          <5>3. QED BY <1>5, <4>1, <5>1, <5>2
        <4>3. QED BY <4>1, <4>2 DEF e
      <3> HIDE DEF r
      <3>5. Continues(toServer[x], Begun(x))' /\ ~Begun(x)'
        BY <1>2, <3>1, <3>2, <3>4 DEF Continues, Begun
      <3>6. /\ StatusOf(x)' = status /\ BodyOf(x)' = 0 /\ Answered(x)'
            /\ BodyBound(x)' = BodyBound(x)
        <4>1. StatusOf(x)' = status /\ Answered(x)' /\ BodyBound(x)' = BodyBound(x)
          BY <1>2, <3>2, <3>4, <3>5 DEF StatusOf, Answered, BodyBound
        <4>2. BodyOf(x)' = pub[x].body + Chunks(r)
          BY <1>2, <3>2 DEF BodyOf
        <4>3. Chunks(r) = 0
          BY <3>4
        <4>4. QED BY <3>1, <4>1, <4>2, <4>3
      <3>7. 0 <= BodyBound(x)
        BY <1>2, Parts DEF HttpInv
      <3>8. ~Final(toServer[x])' /\ BodyOf(x)' <= BodyBound(x)'
        BY <3>2, <3>4, <3>6, <3>7
      <3>9. /\ pub'[x].res = "none" /\ pub'[x].status = "none" /\ pub'[x].body = 0
            /\ srv'[x] = "open"
        BY <1>2, <2>3, <3>1 DEF Stream, Answer
      <3>10. /\ tgt'[x].sent = 0 /\ tgt'[x].status = status /\ tgt'[x].res = "open"
             /\ tgt'[x].sent <= MaxChunks[x]
        BY <1>4, <1>7, <2>1
      <3>11. cli'[x].phase = "active" /\ cli'[x].responding
        BY <1>3, <1>7
      <3>12. QED BY <3>5, <3>6, <3>8, <3>9, <3>10, <3>11 DEF Answer
    <2>4. QED BY <2>2, <2>3
  <1>10. stopped' \subseteq stopped \cup {x} /\ mux' = mux \cup {x}
         /\ toClient' \in [Streams -> Seq(DownFrames)] /\ toClient' = toClient
    BY <1>1, <1>2
  <1>11. QED BY <1>1, <1>2, <1>3, <1>4, <1>6, <1>8, <1>9, <1>10, GoOnInv

(* A chunk of the target's answer keeps it.                                *)
LEMMA TargetDataInv ==
  ASSUME HttpInv, NEW x \in Streams, TargetData(x)
  PROVE  HttpInv'
  <1> DEFINE t == [tgt[x] EXCEPT !.sent = @ + 1]
             q == toServer[x]
             r == Append(q, "DATA")
  <1>1. /\ x \in Active /\ cli[x].responding /\ Reply(x, <<"DATA">>)
        /\ tgt' = [tgt EXCEPT ![x].sent = @ + 1] /\ tgt[x].sent < MaxChunks[x]
        /\ UNCHANGED <<session, serverVars, clientUp, mux, stopped, toClient, errors>>
    BY DEF TargetData, Active
  <1>2. /\ x \in Streams /\ Stream(x) /\ cli[x].phase = "active" /\ clientUp
        /\ srv[x] # "idle" /\ mux \cup {x} = mux
        /\ cli[x] \in ProxyState /\ tgt[x] \in TargetState
        /\ cli \in [Streams -> ProxyState] /\ tgt \in [Streams -> TargetState]
        /\ toClient \in [Streams -> Seq(DownFrames)]
        /\ UNCHANGED <<pub, srv>> /\ pub[x] \in PublicState
        /\ BodyBound(x) \in Nat /\ MaxChunks[x] \in Nat /\ MaxChunks[x] <= BodyBound(x)
    BY <1>1, ActiveFacts, Parts DEF serverVars, HttpInv
  <1>3. PICK c : /\ c \in ProxyState /\ cli' = [cli EXCEPT ![x] = c]
                 /\ c.phase = "active" /\ c.responding /\ ~c.timer
    <2>1. PICK writable \in BOOLEAN : cli' = [cli EXCEPT ![x].paused = ~writable]
      BY DEF TargetData
    <2> DEFINE c == [cli[x] EXCEPT !.paused = ~writable]
    <2>2. ~cli[x].timer
      BY <1>1, <1>2 DEF Stream, Ends
    <2>3. c \in ProxyState /\ c.phase = "active" /\ c.responding /\ ~c.timer
      BY <1>1, <1>2, <2>2 DEF ProxyState
    <2>4. cli' = [cli EXCEPT ![x] = c]
      BY <1>2, <2>1
    <2>5. QED BY <2>3, <2>4
  <1>4. tgt[x].sent \in Nat /\ tgt[x].sent + 1 \in Nat /\ tgt[x].sent + 1 <= MaxChunks[x]
    BY <1>1, <1>2 DEF TargetState
  <1>5. /\ t \in TargetState /\ t.sent = tgt[x].sent + 1 /\ t.res = tgt[x].res
        /\ t.status = tgt[x].status /\ t.got = tgt[x].got /\ t.req = tgt[x].req
    BY <1>2, <1>4 DEF TargetState
  <1>6. tgt' = [tgt EXCEPT ![x] = t]
    BY <1>1, <1>2
  <1>7. /\ toServer' \in [Streams -> Seq(UpFrames)]
        /\ \A y \in Streams \ {x} : toServer'[y] = toServer[y]
        /\ srv[x] = "open" => toServer'[x] = r
        /\ srv[x] # "open" => toServer'[x] = <<>>
    BY <1>1, <1>2, ReplyFrame DEF UpFrames
  <1> HIDE DEF t
  <1>8. cli'[x] = c /\ tgt'[x] = t
    BY <1>2, <1>3, <1>5, <1>6
  <1>9. Upload(x)'
    BY <1>1, <1>3, <1>5, <1>8, UploadKept
  <1>10. Answer(x)'
    <2>1. tgt[x].res # "ended"
      BY <1>2 DEF Stream, Answer
    <2>2. t.sent <= MaxChunks[x]
      BY <1>4, <1>5
    <2>3. CASE srv[x] # "open"
      BY <1>2, <1>3, <1>5, <1>7, <1>8, <2>1, <2>2, <2>3 DEF Stream, Answer
    <2>4. CASE srv[x] = "open"
      <3>1. /\ Continues(q, Begun(x)) /\ q \in Seq(UpFrames) /\ ~Final(q) /\ Answered(x)
            /\ StatusOf(x) = tgt[x].status /\ BodyOf(x) = tgt[x].sent
            /\ pub[x].body \in Nat /\ pub[x].res \in {"none", "open"}
        BY <1>1, <1>2, <2>4, Parts DEF Stream, Answer, HttpInv, PublicState
      <3>2. "DATA" \in UpFrames /\ ~IsHead("DATA") /\ "DATA" # "FIN" /\ WellFormed(q)
        BY <3>1 DEF UpFrames, IsHead, Continues
      <3>3. /\ WellFormed(r) /\ (Headed(r) <=> Headed(q)) /\ ~Final(r) /\ r # <<>>
            /\ Chunks(r) = Chunks(q) + 1 /\ Chunks(q) \in Nat
            /\ q # <<>> => Head(r) = Head(q)
        BY <3>1, <3>2, AppendShape, AppendFacts, ChunksNat
      <3>4. q = <<>> => Begun(x) /\ ~Headed(q)
        BY <3>1, EmptyShape DEF Answered
      <3> HIDE DEF q, r
      <3>5. toServer'[x] = r /\ (Begun(x)' <=> Begun(x)) /\ BodyBound(x)' = BodyBound(x)
        BY <1>2, <1>7, <2>4 DEF Begun, BodyBound
      <3>6. Headed(r) <=> ~Begun(x)
        BY <3>1, <3>3, <3>4 DEF Continues
      <3>7. Continues(toServer[x], Begun(x))'
        BY <3>3, <3>5, <3>6 DEF Continues
      <3>8. StatusOf(x)' = StatusOf(x) /\ Answered(x)'
        BY <1>2, <3>3, <3>4, <3>5 DEF StatusOf, Begun, Answered, q
      <3>9. BodyOf(x)' = tgt[x].sent + 1
        <4>1. BodyOf(x) = pub[x].body + Chunks(q) /\ BodyOf(x)' = pub[x].body + Chunks(r)
          BY <1>2, <3>5 DEF BodyOf, q
        <4>2. QED BY <3>1, <3>3, <4>1
      <3>10. BodyOf(x)' <= BodyBound(x)' /\ BodyOf(x)' = t.sent
        BY <1>2, <1>4, <1>5, <3>5, <3>9
      <3>11. ~Final(toServer[x])'
        BY <3>3, <3>5
      <3>12. /\ pub[x].res = "none" => pub[x].status = "none" /\ pub[x].body = 0
        BY <1>2 DEF Stream, Answer
      <3>13. QED BY <1>2, <1>3, <1>5, <1>8, <2>1, <2>2, <2>4, <3>1, <3>5, <3>7, <3>8, <3>10,
                    <3>11, <3>12 DEF Answer
    <2>5. QED BY <2>3, <2>4
  <1>11. stopped' \subseteq stopped \cup {x} /\ mux' = mux \cup {x}
         /\ toClient' \in [Streams -> Seq(DownFrames)] /\ toClient' = toClient
    BY <1>1, <1>2
  <1>12. QED BY <1>1, <1>2, <1>3, <1>5, <1>6, <1>7, <1>9, <1>10, <1>11, GoOnInv

(* A frame reaches the proxy: the first opens the stream, the last ends    *)
(* the request at the target.                                              *)
LEMMA ClientReceivesInv ==
  ASSUME HttpInv, NEW x \in Streams, ClientReceives(x)
  PROVE  HttpInv'
  <1> DEFINE q == toClient[x]
             taken == [toClient EXCEPT ![x] = Tail(@)]
  <1>1. /\ clientUp /\ q # <<>> /\ UNCHANGED <<session, serverVars, toServer>>
        /\ UNCHANGED <<pub, srv>>
    BY DEF ClientReceives, serverVars
  <1>2. /\ Stream(x) /\ cli[x] \in ProxyState /\ tgt[x] \in TargetState
        /\ cli \in [Streams -> ProxyState] /\ tgt \in [Streams -> TargetState]
        /\ toClient \in [Streams -> Seq(DownFrames)] /\ q \in Seq(DownFrames)
        /\ toServer \in [Streams -> Seq(UpFrames)] /\ pub[x].sent \in Nat
    BY Parts DEF HttpInv, TypeOK, ProxyState, TargetState, DownFrames, UpFrames, PublicState
  <1>3. /\ Carried(x) /\ srv[x] # "idle" /\ cli[x].phase \in {"none", "active"}
    BY <1>1, <1>2 DEF Stream, Ends, Carried, ClientListens, ProxyState
  <1>4. /\ Continues(q, Opened(x)) /\ tgt[x].got + Chunks(q) = pub[x].sent
        /\ Final(q) => pub[x].req = "ended"
        /\ tgt[x].req # "ended"
    BY <1>1, <1>2, <1>3 DEF Stream, Upload
  <1>5. /\ Headed(q) <=> IsHead(Head(q))
        /\ WellFormed(Tail(q)) /\ ~Headed(Tail(q))
        /\ Head(q) = "FIN" => Tail(q) = <<>> /\ Final(q)
        /\ Head(q) # "FIN" => (Final(Tail(q)) <=> Final(q))
        /\ Chunks(q) = Chunks(Tail(q)) + (IF Head(q) = "DATA" THEN 1 ELSE 0)
        /\ Chunks(Tail(q)) \in Nat
        /\ Head(q) \in DownFrames /\ Tail(q) \in Seq(DownFrames)
    BY <1>1, <1>2, <1>4, TailShape, TailFacts DEF Continues
  <1>6. Opened(x) <=> ~IsHead(Head(q))
    BY <1>1, <1>4, <1>5 DEF Continues
  <1>7. /\ toServer' \in [Streams -> Seq(UpFrames)]
        /\ \A y \in Streams \ {x} : toServer'[y] = toServer[y]
        /\ taken \in [Streams -> Seq(DownFrames)] /\ taken[x] = Tail(q)
        /\ \A y \in Streams \ {x} : taken[y] = toClient[y]
    BY <1>1, <1>2, <1>5
  <1>8. CASE AbortAll
    BY <1>1, <1>8, AbortAllInv
  <1>9. ASSUME NEW c \in ProxyState, NEW t \in TargetState,
               c.phase = "active", c.timer => ~c.responding,
               cli' = [cli EXCEPT ![x] = c], tgt' = [tgt EXCEPT ![x] = t],
               mux' = mux \cup {x}, stopped' \subseteq stopped \cup {x},
               UNCHANGED <<clientUp, errors>>, toClient' = taken, Answer(x)',
               t.got + Chunks(Tail(q)) = pub[x].sent,
               t.req = "ended" => Tail(q) = <<>> /\ pub[x].req = "ended",
               Final(Tail(q)) => pub[x].req = "ended"
        PROVE  HttpInv'
    <2>1. cli'[x] = c /\ tgt'[x] = t /\ toClient'[x] = Tail(q)
      BY <1>2, <1>7, <1>9
    <2>2. Continues(toClient[x], Opened(x))'
      BY <1>5, <1>9, <2>1 DEF Continues, Opened
    <2>3. t.req = "ended" => t.got = pub[x].sent
      <3>1. ASSUME t.req = "ended" PROVE Chunks(Tail(q)) = 0
        BY <1>9, <3>1, EmptyShape
      <3>2. t.got \in Nat
        BY DEF TargetState
      <3>3. QED BY <1>9, <3>1, <3>2
    <2>4. Upload(x)'
      BY <1>1, <1>9, <2>1, <2>2, <2>3 DEF Upload
    <2> HIDE DEF q, taken
    <2>5. /\ toClient' \in [Streams -> Seq(DownFrames)]
          /\ \A y \in Streams \ {x} : toClient'[y] = toClient[y] /\ toServer'[y] = toServer[y]
      BY <1>7, <1>9
    <2>6. UNCHANGED <<session, serverVars, clientUp, errors>>
      BY <1>1, <1>9
    <2>7. QED BY <1>1, <1>3, <1>7, <1>9, <2>4, <2>5, <2>6, GoOnInv
  <1>10. CASE ~AbortAll /\ Head(q) = "HEADERS"
    <2> DEFINE c == [cli[x] EXCEPT !.phase = "active"]
               t == [tgt[x] EXCEPT !.req = "open"]
    <2>1. /\ cli' = [cli EXCEPT ![x].phase = "active"] /\ mux' = mux \cup {x}
          /\ tgt' = [tgt EXCEPT ![x].req = "open"] /\ toClient' = taken
          /\ UNCHANGED <<clientUp, stopped, errors>>
      BY <1>10 DEF ClientReceives
    <2>2. cli[x] = NewProxy /\ tgt[x] = NewTarget /\ cli[x].phase = "none"
      BY <1>2, <1>3, <1>6, <1>10 DEF Opened, IsHead, Stream, Ends
    <2>3. /\ c \in ProxyState /\ c.phase = "active" /\ ~c.timer /\ ~c.responding
          /\ t \in TargetState /\ t.req = "open" /\ t.got = tgt[x].got /\ t.sent = 0
          /\ t.res = "none"
      <3>1. /\ ~cli[x].timer /\ ~cli[x].responding
            /\ tgt[x].sent = 0 /\ tgt[x].res = "none"
        BY <2>2 DEF NewProxy, NewTarget
      <3>2. /\ c \in ProxyState /\ c.phase = "active"
            /\ c.timer = cli[x].timer /\ c.responding = cli[x].responding
        BY <1>2 DEF ProxyState
      <3>3. /\ t \in TargetState /\ t.req = "open" /\ t.got = tgt[x].got
            /\ t.sent = tgt[x].sent /\ t.res = tgt[x].res
        BY <1>2 DEF TargetState
      <3> HIDE DEF c, t
      <3>4. QED BY <3>1, <3>2, <3>3
    <2>4. cli' = [cli EXCEPT ![x] = c] /\ tgt' = [tgt EXCEPT ![x] = t]
      BY <1>2, <2>1
    <2> HIDE DEF c, t
    <2>5. cli'[x] = c /\ tgt'[x] = t
      BY <1>2, <2>3, <2>4
    <2>6. Answer(x)'
      <3>1. 0 <= MaxChunks[x]
        BY Parts DEF HttpInv
      <3>2. ~Final(toServer[x])
        BY <1>2, <2>2 DEF Stream, Answer, Final
      <3>3. /\ BodyBound(x)' = BodyBound(x) /\ BodyOf(x)' = BodyOf(x)
            /\ (Begun(x)' <=> Begun(x)) /\ (Answered(x)' <=> Answered(x))
            /\ toServer'[x] = toServer[x]
        BY <1>1 DEF BodyBound, BodyOf, Begun, Answered
      <3>4. Continues(toServer[x], Begun(x))' <=> Continues(toServer[x], Begun(x))
        BY <3>3 DEF Continues
      <3>5. Answer(x) /\ tgt[x].res # "ended"
        BY <1>2, <2>2 DEF Stream, NewTarget
      <3>6. QED BY <1>1, <2>2, <2>3, <2>5, <3>1, <3>2, <3>3, <3>4, <3>5 DEF Answer
    <2>7. t.got + Chunks(Tail(q)) = pub[x].sent
      <3>1. Chunks(q) = Chunks(Tail(q))
        <4>1. Head(q) # "DATA"
          BY <1>10
        <4>2. Chunks(q) = Chunks(Tail(q)) + 0
          BY <1>5, <4>1
        <4>3. QED BY <1>5, <4>2
      <3>2. QED BY <1>4, <2>3, <3>1
    <2>8. Final(Tail(q)) => pub[x].req = "ended"
      BY <1>4, <1>5, <1>10
    <2>9. stopped' \subseteq stopped \cup {x}
      BY <2>1
    <2> HIDE DEF q, taken
    <2>10. QED BY <1>9, <2>1, <2>3, <2>4, <2>6, <2>7, <2>8, <2>9
  <1>11. ASSUME Opened(x) PROVE cli[x].phase = "active" /\ x \in Active /\ mux \cup {x} = mux
    <2>1. cli[x].phase = "active" /\ x \in Active
      BY <1>3, <1>11 DEF Opened, Active
    <2>2. QED BY <2>1, ActiveFacts
  <1>12. CASE ~AbortAll /\ Head(q) = "DATA"
    <2> DEFINE t == [tgt[x] EXCEPT !.got = @ + 1]
    <2>1. /\ tgt' = [tgt EXCEPT ![x].got = @ + 1] /\ toClient' = taken
          /\ UNCHANGED <<clientUp, mux, errors>>
      BY <1>12 DEF ClientReceives
    <2>2. Opened(x)
      BY <1>6, <1>12 DEF IsHead
    <2>3. PICK c : /\ c \in ProxyState /\ cli' = [cli EXCEPT ![x] = c]
                   /\ c.phase = "active" /\ c.responding = cli[x].responding
                   /\ c.timer = cli[x].timer /\ stopped' \subseteq stopped \cup {x}
      <3>1. PICK full \in {cli[x].full, TRUE} :
              /\ cli' = [cli EXCEPT ![x].full = full]
              /\ stopped' = IF full /\ ~cli[x].full THEN stopped \cup {x} ELSE stopped
        BY <1>12 DEF ClientReceives
      <3> DEFINE c == [cli[x] EXCEPT !.full = full]
      <3>2. full \in BOOLEAN
        BY <1>2, <3>1 DEF ProxyState
      <3>3. /\ c \in ProxyState /\ c.phase = "active" /\ c.responding = cli[x].responding
            /\ c.timer = cli[x].timer
        BY <1>2, <1>11, <2>2, <3>2 DEF ProxyState
      <3>4. cli' = [cli EXCEPT ![x] = c]
        BY <1>2, <3>1
      <3>5. stopped' \subseteq stopped \cup {x}
        BY <3>1
      <3> HIDE DEF c
      <3>6. QED BY <3>3, <3>4, <3>5
    <2>4. tgt[x].got \in Nat /\ tgt[x].got + 1 \in Nat
      BY <1>2 DEF TargetState
    <2>5. /\ t \in TargetState /\ t.got = tgt[x].got + 1 /\ t.req = tgt[x].req
          /\ t.res = tgt[x].res /\ t.sent = tgt[x].sent /\ t.status = tgt[x].status
      BY <1>2, <2>4 DEF TargetState
    <2>6. tgt' = [tgt EXCEPT ![x] = t]
      BY <1>2, <2>1
    <2> HIDE DEF t
    <2>7. cli'[x] = c /\ tgt'[x] = t
      BY <1>2, <2>3, <2>5, <2>6
    <2>8. Answer(x)'
      BY <1>1, <1>11, <2>2, <2>3, <2>5, <2>7, AnswerKept
    <2>9. c.timer => ~c.responding
      BY <1>2, <2>3 DEF Stream, Ends
    <2>10. t.got + Chunks(Tail(q)) = pub[x].sent
      <3>1. Chunks(q) = Chunks(Tail(q)) + 1
        BY <1>5, <1>12
      <3>2. QED BY <1>4, <1>5, <2>4, <2>5, <3>1
    <2>11. Final(Tail(q)) => pub[x].req = "ended"
      BY <1>4, <1>5, <1>12
    <2>12. mux' = mux \cup {x} /\ t.req # "ended"
      BY <1>4, <1>11, <2>1, <2>2, <2>5
    <2> HIDE DEF q, taken
    <2>13. QED BY <1>9, <2>1, <2>3, <2>5, <2>6, <2>8, <2>9, <2>10, <2>11, <2>12
  <1>13. CASE ~AbortAll /\ Head(q) = "FIN"
    <2> DEFINE c == [cli[x] EXCEPT !.requestEnded = TRUE, !.timer = ~cli[x].responding]
               t == [tgt[x] EXCEPT !.req = "ended"]
    <2>1. /\ cli' = [cli EXCEPT ![x].requestEnded = TRUE, ![x].timer = ~cli[x].responding]
          /\ tgt' = [tgt EXCEPT ![x].req = "ended"] /\ toClient' = taken
          /\ UNCHANGED <<clientUp, mux, stopped, errors>>
      BY <1>13 DEF ClientReceives
    <2>2. Opened(x)
      BY <1>6, <1>13 DEF IsHead
    <2>3. /\ c \in ProxyState /\ c.phase = "active" /\ c.responding = cli[x].responding
          /\ c.timer => ~c.responding
      BY <1>2, <1>11, <2>2 DEF ProxyState
    <2>4. /\ t \in TargetState /\ t.got = tgt[x].got /\ t.req = "ended"
          /\ t.res = tgt[x].res /\ t.sent = tgt[x].sent /\ t.status = tgt[x].status
      BY <1>2 DEF TargetState
    <2>5. cli' = [cli EXCEPT ![x] = c] /\ tgt' = [tgt EXCEPT ![x] = t]
      BY <1>2, <2>1
    <2> HIDE DEF c, t
    <2>6. cli'[x] = c /\ tgt'[x] = t
      BY <1>2, <2>3, <2>4, <2>5
    <2>7. Answer(x)'
      BY <1>1, <1>11, <2>2, <2>3, <2>4, <2>6, AnswerKept
    <2>8. Tail(q) = <<>> /\ pub[x].req = "ended"
      BY <1>4, <1>5, <1>13
    <2>9. t.got + Chunks(Tail(q)) = pub[x].sent
      <3>1. Head(q) # "DATA"
        BY <1>13
      <3>2. Chunks(q) = Chunks(Tail(q)) + 0
        BY <1>5, <3>1
      <3>3. QED BY <1>4, <1>5, <2>4, <3>2
    <2>10. mux' = mux \cup {x} /\ stopped' \subseteq stopped \cup {x}
      BY <1>11, <2>1, <2>2
    <2> HIDE DEF q, taken
    <2>11. QED BY <1>9, <2>1, <2>3, <2>4, <2>5, <2>7, <2>8, <2>9, <2>10
  <1>14. Head(q) \in {"HEADERS", "DATA", "FIN"}
    BY <1>5 DEF DownFrames
  <1>15. QED BY <1>8, <1>10, <1>12, <1>13, <1>14

-----------------------------------------------------------------------------
(* The tunnel. *)

(* The next session begins with nothing open and nothing in flight.        *)
LEMMA ReconnectInv ==
  ASSUME HttpInv, Reconnect
  PROVE  HttpInv'
  <1>1. /\ ~serverUp /\ ~clientUp /\ session < MaxSessions /\ session' = session + 1
        /\ serverUp' = TRUE /\ clientUp' = TRUE
        /\ UNCHANGED <<pub, srv, slots, held, cli, mux, stopped, tgt, wires>>
    BY DEF Reconnect
  <1>2. session' \in 1 .. MaxSessions
    BY <1>1, HttpAssumption DEF HttpInv, TypeOK
  <1>3. TypeOK'
    BY <1>1, <1>2 DEF HttpInv, TypeOK, wires, BodyBound
  <1>4. SlotsMatch'
    BY <1>1 DEF HttpInv, SlotsMatch, Open, Active
  <1>5. ASSUME NEW y \in Streams PROVE Stream(y)'
    <2>1. Stream(y) /\ UNCHANGED <<toClient, toServer>>
      BY <1>1 DEF HttpInv, wires
    <2>2. toClient[y] = <<>> /\ srv[y] # "open"
      BY <1>1, <2>1 DEF Stream, Ends, ClientListens
    <2>3. Ends(y)'
      BY <1>1, <2>1, <2>2 DEF Stream, Ends, Opened, Carried, Open
    <2>4. Upload(y)'
      BY <1>1, <2>1 DEF Stream, Upload, Opened, Carried
    <2>5. Answer(y)'
      BY <1>1, <2>1, <2>2 DEF Stream, Answer
    <2>6. QED BY <2>3, <2>4, <2>5 DEF Stream
  <1>6. QED BY <1>3, <1>4, <1>5 DEF HttpInv

(* The invariant holds at first.                                           *)
LEMMA InitInv ==
  Init => HttpInv
  <1> SUFFICES ASSUME Init PROVE HttpInv
    OBVIOUS
  <1>1. /\ NewPublic \in PublicState /\ NewProxy \in ProxyState /\ NewTarget \in TargetState
    BY DEF NewPublic, NewProxy, NewTarget, PublicState, ProxyState, TargetState, Request,
       Response
  <1>2. \A x \in Streams : pub[x].body <= BodyBound(x)
    BY HttpAssumption DEF Init, BodyBound, NewPublic
  <1>3. TypeOK
    BY <1>1, <1>2, HttpAssumption
       DEF Init, TypeOK, PublicState, ProxyState, TargetState
  <1>4. SlotsMatch
    BY DEF Init, SlotsMatch, Open, Active, NewProxy
  <1>5. ASSUME NEW x \in Streams PROVE Stream(x)
    <2>1. /\ pub[x] = NewPublic /\ srv[x] = "idle" /\ toClient[x] = <<>>
          /\ toServer[x] = <<>> /\ cli[x] = NewProxy /\ tgt[x] = NewTarget
      BY DEF Init
    <2>2. Ends(x)
      BY <2>1 DEF Ends, Opened, Carried, Open, NewProxy
    <2>3. Upload(x)
      BY <2>1 DEF Upload, Carried, NewProxy, NewTarget
    <2>4. Answer(x)
      BY <2>1, HttpAssumption DEF Answer, NewPublic, NewProxy, NewTarget
    <2>5. QED BY <2>2, <2>3, <2>4 DEF Stream
  <1>6. QED BY <1>3, <1>4, <1>5 DEF HttpInv

(* Every step of the exchange keeps the invariant.                         *)
LEMMA StepInv ==
  ASSUME HttpInv, [Next]_vars
  PROVE  HttpInv'
  <1>1. ASSUME NEW x \in Streams, RouterStep(x) PROVE HttpInv'
    BY <1>1, RefuseInv, AcceptInv, PublicDataInv, PublicEndInv, RequestDrainInv,
       PublicDisconnectInv, StreamTimeoutInv, ServerReceivesInv, ResponseDrainInv,
       ServerCancelledInv DEF RouterStep
  <1>2. ASSUME NEW x \in Streams, ProxyStep(x) PROVE HttpInv'
    BY <1>2, ClientReceivesInv, ClientCancelledInv, TargetDrainInv, TargetRespondsInv,
       TargetDataInv, LaneDrainInv, TargetEndsInv, TargetBreaksInv, TargetTimeoutInv
       DEF ProxyStep
  <1>3. CASE UNCHANGED vars
    <2>1. UNCHANGED <<session, serverVars, clientVars, toClient, toServer, errors>>
      BY <1>3 DEF vars, wires
    <2>2. /\ UNCHANGED <<session, serverUp, clientUp, pub, srv, slots, held, cli, mux>>
          /\ UNCHANGED <<stopped, tgt, toClient, toServer, errors>>
      BY <2>1 DEF serverVars, clientVars
    <2>3. TypeOK' /\ SlotsMatch'
      BY <2>2 DEF HttpInv, TypeOK, BodyBound, SlotsMatch, Open, Active
    <2>4. ASSUME NEW y \in Streams PROVE Stream(y)'
      BY <2>2, Elsewhere DEF HttpInv, Untouched
    <2>5. QED BY <2>3, <2>4 DEF HttpInv
  <1>4. QED BY <1>1, <1>2, <1>3, ServerFailsInv, ClientFailsInv, ReconnectInv DEF Next

-----------------------------------------------------------------------------
(* The theorems. *)

(* HttpInv holds in every state of the exchange.                           *)
THEOREM HttpInvariant == Spec => []HttpInv
  <1>1. Init => HttpInv
    BY InitInv
  <1>2. HttpInv /\ [Next]_vars => HttpInv'
    BY StepInv
  <1>3. QED BY <1>1, <1>2, PTL DEF Spec

(* Type correctness: in particular no public client is ever sent a body    *)
(* longer than the target's, or than the one piece the proxy makes up.     *)
THEOREM HttpTypes == Spec => []TypeOK
  <1>1. HttpInv => TypeOK
    BY DEF HttpInv
  <1>2. QED BY <1>1, HttpInvariant, PTL

(* The four tables of the router that hold a stream, and the client's two, *)
(* always agree with the streams that are open: cleanup() of either end    *)
(* leaves no slot behind, whichever way a request ends.                    *)
THEOREM SlotsReleased == Spec => []SlotsMatch
  <1>1. HttpInv => SlotsMatch
    BY DEF HttpInv
  <1>2. QED BY <1>1, HttpInvariant, PTL

(* A request the target has seen to its end is the public client's whole   *)
(* request, over any number of sessions, timeouts and cancellations.       *)
THEOREM UploadsWhole == Spec => []UploadIntegrity
  <1>1. HttpInv => UploadIntegrity
    BY DEF HttpInv, Stream, Upload, UploadIntegrity
  <1>2. QED BY <1>1, HttpInvariant, PTL

(* An answer of the target that looks complete to the public client is the *)
(* target's whole answer.                                                  *)
THEOREM AnswersWhole == Spec => []ResponseIntegrity
  <1>1. HttpInv => ResponseIntegrity
    BY DEF HttpInv, Stream, Answer, ResponseIntegrity
  <1>2. QED BY <1>1, HttpInvariant, PTL

(* What one step does to the response of one request.                      *)
AnsweredOnce(x) ==
  /\ pub[x].res \in {"ended", "destroyed"} =>
       pub'[x].res = pub[x].res /\ pub'[x].body = pub[x].body
  /\ pub[x].status # "none" => pub'[x].status = pub[x].status

(* The router changes the response of an open or a new request only, and   *)
(* the status of one that has none.                                        *)
LEMMA ResponseChange ==
  ASSUME HttpInv, NEW x \in Streams,
         \/ pub'[x] = pub[x]
         \/ srv[x] = "idle"
         \/ srv[x] = "open" /\ (pub[x].status # "none" => pub'[x].status = pub[x].status)
  PROVE  AnsweredOnce(x)
  <1>1. Stream(x)
    BY DEF HttpInv
  <1>2. CASE srv[x] = "idle"
    BY <1>1, <1>2 DEF Stream, Ends, NewPublic, AnsweredOnce
  <1>3. CASE srv[x] = "open"
    BY <1>1, <1>3 DEF Stream, Answer, AnsweredOnce
  <1>4. QED BY <1>2, <1>3 DEF AnsweredOnce

(* An open response that is given up keeps its status.                     *)
LEMMA GiveUpStatus ==
  ASSUME HttpInv, NEW x \in Open
  PROVE  pub[x].status # "none" => FailResponse(pub[x]).status = pub[x].status
  <1>1. x \in Streams /\ srv[x] = "open" /\ Stream(x)
    BY DEF HttpInv, Open
  <1>2. pub[x].res \in {"none", "open"} /\ (pub[x].res = "none" => pub[x].status = "none")
    BY <1>1 DEF Stream, Answer
  <1>3. pub[x] \in PublicState
    BY <1>1, Parts DEF HttpInv
  <1>4. QED BY <1>2, <1>3, FailResponseFacts

(* A step of the router neither reopens a response nor changes a status    *)
(* that went out.                                                          *)
LEMMA RouterAnswersOnce ==
  ASSUME HttpInv, NEW x \in Streams, NEW y \in Streams, RouterStep(x)
  PROVE  AnsweredOnce(y)
  <1>1. pub \in [Streams -> PublicState] /\ pub[x] \in PublicState
    BY Parts DEF HttpInv, TypeOK, PublicState
  <1>2. ASSUME NEW after, Abort(x, after), srv[x] = "open" PROVE AnsweredOnce(y)
    <2>1. pub' = [pub EXCEPT ![x] = [FailResponse(@) EXCEPT !.paused = FALSE, !.req = after]]
      BY <1>2 DEF Abort
    <2>2. FailResponse(pub[x]) \in PublicState
      BY <1>1, FailResponseFacts
    <2>3. y # x => pub'[y] = pub[y]
      BY <1>1, <2>1
    <2>4. pub'[x].status = FailResponse(pub[x]).status
      BY <1>1, <2>1, <2>2 DEF PublicState
    <2>5. QED BY <1>2, <2>3, <2>4, GiveUpStatus, ResponseChange DEF Open
  <1>3. CASE Refuse(x) \/ Accept(x)
    <2>1. srv[x] = "idle" /\ (y # x => pub'[y] = pub[y])
      BY <1>1, <1>3 DEF Refuse, Accept
    <2>2. QED BY <2>1, ResponseChange
  <1>4. CASE PublicData(x)
    <2>1. srv[x] = "open" /\ x \in Open
      BY <1>4 DEF PublicData, Open
    <2>2. CASE Abort(x, "aborted")
      BY <1>2, <2>1, <2>2
    <2>3. CASE \E writable \in BOOLEAN :
                 pub' = [pub EXCEPT ![x].sent = @ + 1, ![x].paused = ~writable]
      <3>1. (y # x => pub'[y] = pub[y]) /\ pub'[x].status = pub[x].status
        BY <1>1, <2>3 DEF PublicState
      <3>2. QED BY <2>1, <3>1, ResponseChange
    <2>4. CASE pub' = [AfterEviction EXCEPT ![x].sent = @ + 1, ![x].paused = TRUE]
      <3>1. AfterEviction \in [Streams -> PublicState]
        BY EvictionFacts
      <3>2. pub'[y].status = AfterEviction[y].status /\ (y # x => pub'[y] = AfterEviction[y])
        BY <2>4, <3>1 DEF PublicState
      <3>3. CASE y \in Open
        <4>1. AfterEviction[y].status = FailResponse(pub[y]).status
          <5>1. FailResponse(pub[y]) \in PublicState
            BY FailResponseFacts, Parts DEF HttpInv
          <5>2. QED BY <3>3, <5>1 DEF AfterEviction, PublicState
        <4>2. QED BY <3>2, <3>3, <4>1, GiveUpStatus, ResponseChange DEF Open
      <3>4. CASE y \notin Open
        BY <2>1, <3>2, <3>4, EvictionFacts, ResponseChange
      <3>5. QED BY <3>3, <3>4
    <2>5. QED BY <1>4, <2>2, <2>3, <2>4 DEF PublicData
  <1>5. CASE PublicEnd(x) \/ RequestDrain(x)
    <2>1. pub'[y].res = pub[y].res /\ pub'[y].body = pub[y].body /\ pub'[y].status = pub[y].status
      BY <1>1, <1>5 DEF PublicEnd, RequestDrain, PublicState
    <2>2. QED BY <2>1 DEF AnsweredOnce
  <1>6. CASE PublicDisconnect(x)
    <2>1. srv[x] = "open" /\ (y # x => pub'[y] = pub[y]) /\ pub'[x].status = pub[x].status
      BY <1>1, <1>6 DEF PublicDisconnect, PublicState
    <2>2. QED BY <2>1, ResponseChange
  <1>7. CASE StreamTimeout(x)
    <2>1. srv[x] = "open"
      BY <1>7 DEF StreamTimeout, HttpInv, SlotsMatch, Slots, Open
    <2>2. QED BY <1>2, <1>7, <2>1 DEF StreamTimeout
  <1>8. CASE ServerReceives(x)
    <2>1. srv[x] = "open" /\ Stream(x) /\ toServer[x] # <<>>
      BY <1>8 DEF ServerReceives, HttpInv, SlotsMatch, Slots, Open
    <2>2. y # x => pub'[y] = pub[y]
      BY <1>1, <1>8 DEF ServerReceives
    <2>3. CASE Head(toServer[x]) \in {"DATA", "FIN"}
      <3>1. CASE Head(toServer[x]) = "DATA"
        <4>1. pub' = [pub EXCEPT ![x].body = @ + 1]
          BY <1>8, <3>1 DEF ServerReceives
        <4>2. pub'[x].status = pub[x].status
          BY <1>1, <4>1 DEF PublicState
        <4>3. QED BY <2>1, <2>2, <4>2, ResponseChange
      <3>2. CASE Head(toServer[x]) = "FIN"
        <4>1. pub' = [pub EXCEPT ![x].res = "ended", ![x].paused = FALSE]
          BY <1>8, <3>2 DEF ServerReceives
        <4>2. pub'[x].status = pub[x].status
          BY <1>1, <4>1 DEF PublicState
        <4>3. QED BY <2>1, <2>2, <4>2, ResponseChange
      <3>3. QED BY <2>3, <3>1, <3>2
    <2>4. CASE Head(toServer[x]) \notin {"DATA", "FIN"}
      <3>1. IsHead(toServer[x][1]) /\ Headed(toServer[x])
        <4>1. Head(toServer[x]) = toServer[x][1]
          BY <2>1, TailFacts, Parts DEF HttpInv
        <4>2. QED BY <2>1, <2>4, <4>1 DEF IsHead, Headed
      <3>2. ~Begun(x) /\ pub[x].status = "none"
        BY <2>1, <3>1 DEF Stream, Answer, Continues, Begun
      <3>3. QED BY <2>1, <2>2, <3>2, ResponseChange
    <2>5. QED BY <2>3, <2>4
  <1>9. CASE ResponseDrain(x)
    BY <1>9 DEF ResponseDrain, AnsweredOnce
  <1>10. CASE ServerCancelled(x)
    <2>1. /\ srv[x] = "open" /\ x \in Open
          /\ pub' = [pub EXCEPT ![x] = [FailResponse(@) EXCEPT !.paused = FALSE]]
      BY <1>10 DEF ServerCancelled, HttpInv, SlotsMatch, Slots, Open
    <2>2. FailResponse(pub[x]) \in PublicState
      BY <1>1, FailResponseFacts
    <2>3. (y # x => pub'[y] = pub[y]) /\ pub'[x].status = FailResponse(pub[x]).status
      BY <1>1, <2>1, <2>2 DEF PublicState
    <2>4. QED BY <2>1, <2>3, GiveUpStatus, ResponseChange
  <1>11. QED BY <1>3, <1>4, <1>5, <1>6, <1>7, <1>8, <1>9, <1>10 DEF RouterStep

(* Nor does the failure of the session.                                    *)
LEMMA EvictionAnswersOnce ==
  ASSUME HttpInv, ServerFails, NEW y \in Streams
  PROVE  AnsweredOnce(y)
  <1>1. pub' = AfterEviction
    BY DEF ServerFails
  <1>2. CASE y \in Open
    <2>1. FailResponse(pub[y]) \in PublicState
      BY FailResponseFacts, Parts DEF HttpInv
    <2>2. pub'[y].status = FailResponse(pub[y]).status
      BY <1>1, <1>2, <2>1 DEF AfterEviction, PublicState
    <2>3. QED BY <1>2, <2>2, GiveUpStatus, ResponseChange DEF Open
  <1>3. CASE y \notin Open
    BY <1>1, <1>3, EvictionFacts, ResponseChange
  <1>4. QED BY <1>2, <1>3

(* The public client gets one answer: what has ended stays as it is, and a *)
(* status that went out is never changed.                                  *)
THEOREM OneAnswerCorrect == Spec => OneAnswer
  <1>1. ASSUME HttpInv, [Next]_vars, NEW y \in Streams PROVE AnsweredOnce(y)
    <2>1. ASSUME NEW x \in Streams, RouterStep(x) PROVE AnsweredOnce(y)
      BY <1>1, <2>1, RouterAnswersOnce
    <2>2. CASE pub' = pub
      BY <2>2 DEF AnsweredOnce
    <2>3. ASSUME NEW x \in Streams, ProxyStep(x) PROVE pub' = pub
      BY <2>3 DEF ProxyStep, ClientReceives, ClientCancelled, TargetDrain, TargetResponds,
         TargetData, LaneDrain, TargetEnds, TargetBreaks, TargetTimeout, serverVars
    <2>4. CASE ServerFails
      BY <1>1, <2>4, EvictionAnswersOnce
    <2>5. CASE ClientFails \/ Reconnect \/ UNCHANGED vars
      <3>1. pub' = pub
        BY <2>5 DEF ClientFails, Reconnect, vars, serverVars
      <3>2. QED BY <2>2, <3>1
    <2>6. QED BY <1>1, <2>1, <2>2, <2>3, <2>4, <2>5 DEF Next
  <1>2. HttpInv /\ [Next]_vars =>
          [\A x \in Streams :
             /\ pub[x].res \in {"ended", "destroyed"} =>
                  /\ pub'[x].res = pub[x].res /\ pub'[x].body = pub[x].body
             /\ pub[x].status # "none" => pub'[x].status = pub[x].status]_vars
    BY <1>1 DEF AnsweredOnce
  <1>3. QED BY <1>2, HttpInvariant, PTL DEF Spec, OneAnswer
=============================================================================
