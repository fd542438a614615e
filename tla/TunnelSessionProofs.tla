------------------------ MODULE TunnelSessionProofs ------------------------
(***************************************************************************)
(* No frame crosses sessions, for any number of lanes, connections, faults *)
(* and messages: TunnelSession satisfies TypeOK and Isolation.             *)
(*                                                                         *)
(* Isolation speaks of epochs, which the code does not have.  TunnelInv    *)
(* says why nonces are enough: every connection carries the frames of one  *)
(* pairing only, that of the client session that said hello on it with the *)
(* server session it was bound to (LaneInv); a socket that is still open   *)
(* is in its slot, so failing the session reaches it (SlotsInv); and the   *)
(* members of the pool are those of its present pairing (MembersInv).      *)
(***************************************************************************)
EXTENDS TunnelSession, SequenceTheorems, TLAPS

Hello(nonce) == [kind |-> "INIT", nonce |-> nonce, epoch |-> nonce]
Frame(k) == [kind |-> "DATA", session |-> <<k.hello, k.bound>>]

LaneInv(k) ==
  /\ k.hello = k.epoch
  /\ k.client \in {"free", "connecting"} => k.bound = None /\ k.server = "none"
  /\ k.server = "pending" => k.bound = None
  /\ k.client = "ready" => k.bound # None /\ k.peer = k.bound
  /\ k.bound = None =>
       /\ k.toClient = <<>>
       /\ Len(k.toServer) <= 1
       /\ \A n \in 1..Len(k.toServer) : k.toServer[n] = Hello(k.hello)
  /\ k.bound # None => \A n \in 1..Len(k.toServer) : k.toServer[n] = Frame(k)
  /\ k.client = "ready" => \A n \in 1..Len(k.toClient) : k.toClient[n] = Frame(k)
  /\ k.client = "hello" /\ k.bound # None =>
       /\ k.toClient # <<>>
       /\ \A n \in 1..Len(k.toClient) :
            k.toClient[n] = IF n = 1 THEN Hello(k.bound) ELSE Frame(k)

ClientPaired ==
  /\ cNonce = cEpoch /\ cWith = cPeer /\ (cPeer = None => cTaken = {})
  /\ cTaken \subseteq {<<cEpoch, cWith>>}

ServerPaired ==
  /\ sNonce = sEpoch /\ sWith = sPeer /\ (sPeer = None => sTaken = {})
  /\ sTaken \subseteq {<<sWith, sEpoch>>}

SlotsInv ==
  /\ \A l \in Lanes : slot[l] # None =>
       /\ conn[slot[l]].lane = l
       /\ conn[slot[l]].client \notin {"free", "gone"}
  /\ \A c \in Conns : ClientOpen(conn[c]) => slot[conn[c].lane] = c

MembersInv ==
  \A c \in members :
    /\ conn[c].bound = sNonce
    /\ conn[c].hello = sPeer
    /\ conn[c].server \in {"ready", "destroyed"}

TunnelInv ==
  /\ TypeOK
  /\ ClientPaired /\ ServerPaired
  /\ \A c \in Conns : LaneInv(conn[c])
  /\ SlotsInv
  /\ MembersInv

----------------------------------------------------------------------------
(* What happens to one connection.                                         *)

AnyLane == CHOOSE l \in Lanes : TRUE

(* Some lane exists.                                                       *)
LEMMA AnyLaneType == AnyLane \in Lanes
  BY TunnelAssumption DEF AnyLane

(* A fresh connection carries nothing.                                     *)
LEMMA FreeLane ==
  ASSUME NEW l \in Lanes
  PROVE  FreeConnection(l) \in Connection /\ LaneInv(FreeConnection(l))
  <1>1. FreeConnection(l) \in Connection
    BY DEF FreeConnection, Connection, Epochs
  <1>2. Len(<<>>) = 0
    OBVIOUS
  <1>3. LaneInv(FreeConnection(l))
    BY <1>2, TunnelAssumption DEF FreeConnection, LaneInv
  <1>4. QED BY <1>1, <1>3

(* destroy() changes an end's status and nothing else.                     *)
LEMMA DestroyedLane ==
  ASSUME NEW k \in Connection
  PROVE  /\ ClientDestroyed(k) \in Connection
         /\ ServerDestroyed(k) \in Connection
         /\ ClientDestroyed(k).client = IF ClientOpen(k) THEN "destroyed" ELSE k.client
         /\ ServerDestroyed(k).client = k.client
         /\ ClientDestroyed(k).server = k.server
         /\ ServerDestroyed(k).server = IF ServerOpen(k) THEN "destroyed" ELSE k.server
         /\ \A d \in {ClientDestroyed(k), ServerDestroyed(k)} :
              /\ d.lane = k.lane /\ d.hello = k.hello /\ d.epoch = k.epoch
              /\ d.peer = k.peer /\ d.bound = k.bound
              /\ d.toServer = k.toServer /\ d.toClient = k.toClient
  BY DEF ClientDestroyed, ServerDestroyed, Connection

(* destroy() leaves what is in flight.                                     *)
LEMMA DestroyedLaneInv ==
  ASSUME NEW k \in Connection, LaneInv(k)
  PROVE  LaneInv(ClientDestroyed(k)) /\ LaneInv(ServerDestroyed(k))
  <1>1. LaneInv(ClientDestroyed(k))
    BY DestroyedLane DEF LaneInv, Frame, ClientOpen
  <1>2. LaneInv(ServerDestroyed(k))
    BY DestroyedLane DEF LaneInv, Frame, ServerOpen
  <1>3. QED BY <1>1, <1>2

(* A connection both ends have closed is as good as a fresh one.           *)
LEMMA RecycledLane ==
  ASSUME NEW k \in Connection, LaneInv(k)
  PROVE  Recycled(k) \in Connection /\ LaneInv(Recycled(k))
  BY FreeLane, AnyLaneType DEF Recycled, AnyLane

(* A message is read, in either direction.                                 *)
LEMMA ServerReadsLane ==
  ASSUME NEW k \in Connection, LaneInv(k), k.toServer # <<>>
  PROVE  LET r == [k EXCEPT !.toServer = Tail(@)]
         IN  r \in Connection /\ LaneInv(r) /\ (k.bound = None => r.toServer = <<>>)
  <1> DEFINE r == [k EXCEPT !.toServer = Tail(@)]
             q == k.toServer
  <1>1. q \in Seq(Messages)
    BY DEF Connection
  <1>2. /\ Tail(q) \in Seq(Messages) /\ Len(Tail(q)) = Len(q) - 1
        /\ \A n \in 1..(Len(q) - 1) : Tail(q)[n] = q[n + 1]
        /\ Len(q) \in Nat \ {0}
    BY <1>1, HeadTailProperties, EmptySeq, LenProperties
  <1>3. /\ r.client = k.client /\ r.server = k.server /\ r.lane = k.lane
        /\ r.hello = k.hello /\ r.epoch = k.epoch /\ r.peer = k.peer
        /\ r.bound = k.bound /\ r.toClient = k.toClient /\ r.toServer = Tail(q)
    BY DEF Connection
  <1>4. r \in Connection
    BY <1>2 DEF Connection
  <1>5. \A n \in 1..Len(Tail(q)) : n + 1 \in 1..Len(q) /\ Tail(q)[n] = q[n + 1]
    BY <1>2
  <1>6. Len(q) <= 1 => Len(Tail(q)) <= 1 /\ Tail(q) = <<>>
    <2>1. PICK m \in Nat \ {0} : m = Len(q) /\ Len(Tail(q)) = m - 1
      BY <1>2
    <2>2. m <= 1 => m - 1 = 0 /\ m - 1 <= 1
      OBVIOUS
    <2>3. QED BY <1>2, <2>1, <2>2, EmptySeq
  <1> HIDE DEF r
  <1>7. LaneInv(r)
    BY <1>3, <1>5, <1>6 DEF LaneInv, Frame
  <1>8. k.bound = None => r.toServer = <<>>
    BY <1>3, <1>6 DEF LaneInv
  <1>9. QED BY <1>4, <1>7, <1>8 DEF r

(* An initialized lane reads only frames of its pairing.                   *)
LEMMA ClientReadsLane ==
  ASSUME NEW k \in Connection, LaneInv(k), k.client = "ready", k.toClient # <<>>
  PROVE  LET r == [k EXCEPT !.toClient = Tail(@)]
         IN  /\ r \in Connection /\ LaneInv(r)
             /\ Head(k.toClient) = Frame(k)
  <1> DEFINE r == [k EXCEPT !.toClient = Tail(@)]
             q == k.toClient
  <1>1. q \in Seq(Messages)
    BY DEF Connection
  <1>2. /\ Tail(q) \in Seq(Messages) /\ Len(Tail(q)) = Len(q) - 1
        /\ \A n \in 1..(Len(q) - 1) : Tail(q)[n] = q[n + 1]
        /\ Len(q) \in Nat \ {0} /\ Head(q) = q[1]
    BY <1>1, HeadTailProperties, EmptySeq, LenProperties
  <1>3. /\ r.client = k.client /\ r.server = k.server /\ r.lane = k.lane
        /\ r.hello = k.hello /\ r.epoch = k.epoch /\ r.peer = k.peer
        /\ r.bound = k.bound /\ r.toClient = Tail(q) /\ r.toServer = k.toServer
    BY DEF Connection
  <1>4. r \in Connection
    BY <1>2 DEF Connection
  <1>5. \A n \in 1..Len(Tail(q)) : n + 1 \in 1..Len(q) /\ Tail(q)[n] = q[n + 1]
    BY <1>2
  <1>6. 1 \in 1..Len(q)
    BY <1>2
  <1>7. Head(q) = Frame(k)
    BY <1>2, <1>6 DEF LaneInv
  <1> HIDE DEF r
  <1>8. LaneInv(r)
    BY <1>3, <1>5 DEF LaneInv, Frame
  <1>9. QED BY <1>4, <1>7, <1>8 DEF r

(* The first message a client reads is the ACK of the server session the   *)
(* connection is bound to; from then on it reads frames of the pairing.    *)
LEMMA AckLane ==
  ASSUME NEW k \in Connection, LaneInv(k), k.client = "hello", k.toClient # <<>>
  PROVE  LET r == [k EXCEPT !.toClient = Tail(@)]
             ack == Head(k.toClient)
             up == [r EXCEPT !.client = "ready", !.peer = ack.nonce,
                             !.established = TRUE]
         IN  /\ ack = Hello(k.bound) /\ k.bound \in Nat
             /\ r \in Connection
             /\ LaneInv(ClientDestroyed(r))
             /\ up \in Connection /\ LaneInv(up)
  <1> DEFINE r == [k EXCEPT !.toClient = Tail(@)]
             q == k.toClient
             ack == Head(q)
             up == [r EXCEPT !.client = "ready", !.peer = ack.nonce,
                             !.established = TRUE]
             d == ClientDestroyed(r)
  <1>1. q \in Seq(Messages)
    BY DEF Connection
  <1>2. /\ Tail(q) \in Seq(Messages) /\ Len(Tail(q)) = Len(q) - 1
        /\ \A n \in 1..(Len(q) - 1) : Tail(q)[n] = q[n + 1]
        /\ Len(q) \in Nat \ {0} /\ Head(q) = q[1]
    BY <1>1, HeadTailProperties, EmptySeq, LenProperties
  <1>3. k.bound # None /\ k.bound \in Nat
    BY DEF LaneInv, Connection
  <1>4. 1 \in 1..Len(q)
    BY <1>2
  <1>5. ack = Hello(k.bound) /\ ack.nonce = k.bound
    BY <1>2, <1>3, <1>4 DEF LaneInv, Hello
  <1>6. \A n \in 1..Len(Tail(q)) : Tail(q)[n] = Frame(k)
    <2>1. \A n \in 1..Len(Tail(q)) : n + 1 \in 1..Len(q) /\ n + 1 # 1
                                     /\ Tail(q)[n] = q[n + 1]
      BY <1>2
    <2>2. QED BY <1>3, <2>1 DEF LaneInv
  <1>7. /\ r.client = "hello" /\ r.server = k.server /\ r.lane = k.lane
        /\ r.hello = k.hello /\ r.epoch = k.epoch /\ r.peer = k.peer
        /\ r.bound = k.bound /\ r.toClient = Tail(q) /\ r.toServer = k.toServer
        /\ r \in Connection
    BY <1>2 DEF Connection
  <1> HIDE DEF r, ack
  <1>8. /\ up.client = "ready" /\ up.server = k.server /\ up.lane = k.lane
        /\ up.hello = k.hello /\ up.epoch = k.epoch /\ up.peer = k.bound
        /\ up.bound = k.bound /\ up.toClient = Tail(q) /\ up.toServer = k.toServer
    BY <1>5, <1>7 DEF Connection
  <1>9. up \in Connection
    BY <1>3, <1>5, <1>7 DEF Connection
  <1>10. /\ d.client = "destroyed" /\ d.server = k.server
         /\ d.hello = k.hello /\ d.epoch = k.epoch
         /\ d.bound = k.bound /\ d.toServer = k.toServer
    BY <1>7, DestroyedLane DEF ClientOpen
  <1> HIDE DEF up, d
  <1>11. LaneInv(up)
    BY <1>3, <1>6, <1>8 DEF LaneInv, Frame
  <1>12. LaneInv(d)
    BY <1>3, <1>10 DEF LaneInv, Frame
  <1>13. QED BY <1>3, <1>5, <1>7, <1>9, <1>11, <1>12 DEF r, ack, up, d

(* A frame of its pairing is written to a connection.                      *)
LEMMA ServerWritesLane ==
  ASSUME NEW k \in Connection, LaneInv(k), k.bound # None
  PROVE  LET r == [k EXCEPT !.toClient = Append(@, Frame(k))]
         IN  r \in Connection /\ LaneInv(r)
  <1> DEFINE r == [k EXCEPT !.toClient = Append(@, Frame(k))]
             q == k.toClient
             p == Append(q, Frame(k))
  <1>1. q \in Seq(Messages) /\ Frame(k) \in Messages
    BY DEF Connection, Frame, Messages, Data, Epochs
  <1>2. /\ p \in Seq(Messages) /\ Len(p) = Len(q) + 1 /\ p # <<>>
        /\ p[Len(q) + 1] = Frame(k) /\ \A n \in 1..Len(q) : p[n] = q[n]
        /\ Len(q) \in Nat /\ (q # <<>> => Len(q) # 0)
    BY <1>1, EmptySeq
  <1>3. /\ r.client = k.client /\ r.server = k.server
        /\ r.hello = k.hello /\ r.epoch = k.epoch /\ r.peer = k.peer
        /\ r.bound = k.bound /\ r.toClient = p /\ r.toServer = k.toServer
    BY DEF Connection
  <1>4. r \in Connection
    BY <1>2 DEF Connection
  <1>5. \A n \in 1..Len(p) : n \in 1..Len(q) \/ n = Len(q) + 1
    BY <1>2
  <1>6. q # <<>> => Len(q) + 1 # 1
    BY <1>2
  <1> HIDE DEF r, p, q
  <1>7. \A n \in 1..Len(p) : p[n] = q[n] \/ (p[n] = Frame(k) /\ (q # <<>> => n # 1))
    BY <1>2, <1>5, <1>6
  <1>8. k.client = "ready" => \A n \in 1..Len(p) : p[n] = Frame(k)
    BY <1>2, <1>5 DEF LaneInv, q
  <1>9. k.client = "hello" => \A n \in 1..Len(p) :
          p[n] = IF n = 1 THEN Hello(k.bound) ELSE Frame(k)
    BY <1>2, <1>5, <1>6 DEF LaneInv, q
  <1>10. LaneInv(r)
    BY <1>2, <1>3, <1>8, <1>9 DEF LaneInv, Frame
  <1>11. QED BY <1>4, <1>10 DEF r

(* The same from the client.                                               *)
LEMMA ClientWritesLane ==
  ASSUME NEW k \in Connection, LaneInv(k), k.client = "ready"
  PROVE  LET r == [k EXCEPT !.toServer = Append(@, Frame(k))]
         IN  r \in Connection /\ LaneInv(r)
  <1> DEFINE r == [k EXCEPT !.toServer = Append(@, Frame(k))]
             q == k.toServer
             p == Append(q, Frame(k))
  <1>1. q \in Seq(Messages) /\ Frame(k) \in Messages /\ k.bound # None
    BY DEF Connection, Frame, Messages, Data, Epochs, LaneInv
  <1>2. /\ p \in Seq(Messages) /\ Len(p) = Len(q) + 1
        /\ p[Len(q) + 1] = Frame(k) /\ \A n \in 1..Len(q) : p[n] = q[n]
        /\ Len(q) \in Nat
    BY <1>1
  <1>3. /\ r.client = k.client /\ r.server = k.server
        /\ r.hello = k.hello /\ r.epoch = k.epoch /\ r.peer = k.peer
        /\ r.bound = k.bound /\ r.toClient = k.toClient /\ r.toServer = p
    BY DEF Connection
  <1>4. r \in Connection
    BY <1>2 DEF Connection
  <1>5. \A n \in 1..Len(p) : n \in 1..Len(q) \/ n = Len(q) + 1
    BY <1>2
  <1>6. \A n \in 1..Len(p) : p[n] = Frame(k)
    BY <1>1, <1>2, <1>5 DEF LaneInv
  <1> HIDE DEF r, p, q
  <1>7. LaneInv(r)
    BY <1>1, <1>3, <1>6 DEF LaneInv, Frame
  <1>8. QED BY <1>4, <1>7 DEF r

(* The handshake and the close events.                                     *)
LEMMA HelloLane ==
  ASSUME NEW k \in Connection, LaneInv(k), k.client = "connecting"
  PROVE  LET r == [k EXCEPT !.client = "hello", !.server = "pending",
                            !.toServer = <<Hello(k.hello)>>]
         IN  r \in Connection /\ LaneInv(r)
  <1> DEFINE r == [k EXCEPT !.client = "hello", !.server = "pending",
                            !.toServer = <<Hello(k.hello)>>]
             q == <<Hello(k.hello)>>
  <1>1. Hello(k.hello) \in Messages
    BY DEF Hello, Messages, InitMessage, Connection, Epochs
  <1>2. q \in Seq(Messages) /\ Len(q) = 1 /\ q[1] = Hello(k.hello)
    BY <1>1
  <1>3. /\ r.client = "hello" /\ r.server = "pending"
        /\ r.hello = k.hello /\ r.epoch = k.epoch
        /\ r.bound = k.bound /\ r.toClient = k.toClient /\ r.toServer = q
    BY DEF Connection
  <1>4. r \in Connection
    BY <1>2 DEF Connection
  <1>5. \A n \in 1..Len(q) : q[n] = Hello(k.hello)
    BY <1>2
  <1>6. k.bound = None /\ k.toClient = <<>> /\ k.hello = k.epoch /\ Len(q) <= 1
    BY <1>2 DEF LaneInv
  <1> HIDE DEF r, q
  <1>7. LaneInv(r)
    BY <1>3, <1>5, <1>6 DEF LaneInv
  <1>8. QED BY <1>4, <1>7 DEF r

(* The server answers INIT: the connection is bound to its session.        *)
LEMMA BoundLane ==
  ASSUME NEW k \in Connection, LaneInv(k), k.server = "pending", k.toServer # <<>>,
         NEW nonce \in Nat
  PROVE  LET r == [k EXCEPT !.toServer = Tail(@)]
             up == [r EXCEPT !.server = "ready", !.bound = nonce,
                             !.toClient = Append(@, Hello(nonce))]
         IN  /\ Head(k.toServer) = Hello(k.hello)
             /\ up \in Connection /\ LaneInv(up)
  <1> DEFINE r == [k EXCEPT !.toServer = Tail(@)]
             up == [r EXCEPT !.server = "ready", !.bound = nonce,
                             !.toClient = Append(@, Hello(nonce))]
             p == Append(<<>>, Hello(nonce))
  <1>1. k.bound = None /\ k.toClient = <<>>
    BY DEF LaneInv
  <1>2. r \in Connection /\ LaneInv(r) /\ r.toServer = <<>>
    BY <1>1, ServerReadsLane
  <1>3. Head(k.toServer) = Hello(k.hello)
    <2>1. k.toServer \in Seq(Messages)
      BY DEF Connection
    <2>2. Len(k.toServer) \in Nat \ {0}
      BY <2>1, EmptySeq
    <2>3. 1 \in 1..Len(k.toServer)
      BY <2>2
    <2>4. QED BY <1>1, <2>1, <2>3 DEF LaneInv
  <1>4. r.client = k.client /\ r.hello = k.hello /\ r.epoch = k.epoch
        /\ r.toClient = <<>> /\ r.bound = None
    BY <1>1 DEF Connection
  <1>5. Hello(nonce) \in Messages
    BY DEF Hello, Messages, InitMessage, Epochs
  <1>6. p \in Seq(Messages) /\ Len(p) = 1 /\ p[1] = Hello(nonce) /\ p # <<>>
    BY <1>5
  <1> HIDE DEF r
  <1>7. /\ up.client = k.client /\ up.server = "ready" /\ up.bound = nonce
        /\ up.hello = k.hello /\ up.epoch = k.epoch
        /\ up.toClient = p /\ up.toServer = <<>>
    BY <1>2, <1>4 DEF Connection
  <1>8. up \in Connection
    BY <1>2, <1>4, <1>6 DEF Connection
  <1>9. \A n \in 1..Len(p) : n = 1 /\ p[n] = Hello(nonce)
    BY <1>6
  <1>10. k.client \notin {"free", "connecting", "ready"}
    BY <1>1 DEF LaneInv
  <1>11. Len(<<>>) = 0 /\ 1..0 = {}
    OBVIOUS
  <1>12. nonce # None
    BY TunnelAssumption
  <1>13. k.hello = k.epoch
    BY DEF LaneInv
  <1> HIDE DEF up, p
  <1>14. LaneInv(up)
    BY <1>6, <1>7, <1>9, <1>10, <1>11, <1>12, <1>13 DEF LaneInv
  <1>15. QED BY <1>3, <1>8, <1>14 DEF r, up

(* The close event at either end drops what that end had yet to read.      *)
LEMMA ClosedLane ==
  ASSUME NEW k \in Connection, LaneInv(k)
  PROVE  LET c == [k EXCEPT !.client = "gone", !.toClient = <<>>, !.established = FALSE]
             s == [k EXCEPT !.server = "gone", !.toServer = <<>>]
         IN  /\ c \in Connection /\ LaneInv(c)
             /\ k.client \notin {"free", "connecting"} => s \in Connection /\ LaneInv(s)
  <1> DEFINE c == [k EXCEPT !.client = "gone", !.toClient = <<>>, !.established = FALSE]
             s == [k EXCEPT !.server = "gone", !.toServer = <<>>]
  <1>1. /\ c.client = "gone" /\ c.server = k.server /\ c.toClient = <<>>
        /\ c.hello = k.hello /\ c.epoch = k.epoch /\ c.bound = k.bound
        /\ c.toServer = k.toServer
        /\ s.client = k.client /\ s.server = "gone" /\ s.toClient = k.toClient
        /\ s.hello = k.hello /\ s.epoch = k.epoch /\ s.bound = k.bound
        /\ s.toServer = <<>> /\ s.peer = k.peer
    BY DEF Connection
  <1>2. c \in Connection /\ s \in Connection
    <2>1. <<>> \in Seq(Messages)
      BY EmptySeq
    <2>2. c \in Connection
      BY <2>1 DEF Connection
    <2>3. s \in Connection
      BY <2>1 DEF Connection
    <2>4. QED BY <2>2, <2>3
  <1>3. Len(<<>>) = 0 /\ 1..0 = {}
    OBVIOUS
  <1> HIDE DEF c, s
  <1>4. LaneInv(c)
    BY <1>1 DEF LaneInv, Frame
  <1>5. k.client \notin {"free", "connecting"} => LaneInv(s)
    BY <1>1, <1>3 DEF LaneInv, Frame
  <1>6. QED BY <1>2, <1>4, <1>5 DEF c, s

----------------------------------------------------------------------------
(* What a step may do to a connection without disturbing slots or members. *)

SlotStep(k, n) ==
  \/ k.client \in {"free", "gone"} /\ n.client \in {"free", "gone"}
  \/ /\ k.client \notin {"free", "gone"} /\ n.client \notin {"free", "gone"}
     /\ n.lane = k.lane
     /\ ClientOpen(n) => ClientOpen(k)

MemberStep(k, n) ==
  /\ n.bound = k.bound /\ n.hello = k.hello
  /\ n.server \in {"ready", "destroyed"}

(* destroy() is always such a step.                                        *)
LEMMA DestroyedSteps ==
  ASSUME NEW k \in Connection, NEW n \in Connection,
         NEW d \in {n, ClientDestroyed(n), ServerDestroyed(n)}
  PROVE  /\ SlotStep(k, n) => SlotStep(k, d)
         /\ MemberStep(k, n) => MemberStep(k, d)
         /\ ~ClientOpen(n) => ~ClientOpen(d)
  <1>1. /\ d.lane = n.lane /\ d.hello = n.hello /\ d.bound = n.bound
        /\ d.client = n.client \/ (ClientOpen(n) /\ d.client = "destroyed")
        /\ d.server = n.server \/ d.server = "destroyed"
    BY DestroyedLane
  <1>2. QED BY <1>1 DEF SlotStep, MemberStep, ClientOpen

(* Such steps keep every open socket in its slot.                          *)
LEMMA SlotsKept ==
  ASSUME TypeOK, SlotsInv, slot' = slot,
         \A d \in Conns : SlotStep(conn[d], conn'[d])
  PROVE  SlotsInv'
  <1>1. ASSUME NEW l \in Lanes, slot[l] # None
        PROVE  conn'[slot[l]].lane = l /\ conn'[slot[l]].client \notin {"free", "gone"}
    <2>1. slot[l] \in Conns
      BY <1>1 DEF TypeOK
    <2>2. SlotStep(conn[slot[l]], conn'[slot[l]])
      BY <2>1
    <2>3. QED BY <1>1, <2>2 DEF SlotsInv, SlotStep
  <1>2. ASSUME NEW d \in Conns, ClientOpen(conn'[d])
        PROVE  slot[conn'[d].lane] = d
    BY <1>2 DEF SlotsInv, SlotStep, ClientOpen
  <1>3. QED BY <1>1, <1>2 DEF SlotsInv, ClientOpen

(* So does freeing the slot of a socket that is no longer open.            *)
LEMMA SlotsCleared ==
  ASSUME TypeOK, SlotsInv, NEW c \in Conns,
         slot' = [l \in Lanes |-> IF slot[l] = c THEN None ELSE slot[l]],
         conn' \in [Conns -> Connection],
         ~ClientOpen(conn'[c]),
         \A d \in Conns \ {c} : SlotStep(conn[d], conn'[d])
  PROVE  SlotsInv'
  <1>1. ASSUME NEW l \in Lanes, slot'[l] # None
        PROVE  /\ conn'[slot'[l]].lane = l
               /\ conn'[slot'[l]].client \notin {"free", "gone"}
    <2>1. slot'[l] = slot[l] /\ slot[l] # c /\ slot[l] \in Conns
      BY <1>1 DEF TypeOK
    <2>2. SlotStep(conn[slot[l]], conn'[slot[l]])
      BY <2>1
    <2>3. QED BY <1>1, <2>1, <2>2 DEF SlotsInv, SlotStep
  <1>2. ASSUME NEW d \in Conns, ClientOpen(conn'[d])
        PROVE  slot'[conn'[d].lane] = d
    <2>1. d # c /\ SlotStep(conn[d], conn'[d])
      BY <1>2
    <2>2. slot[conn'[d].lane] = d /\ conn'[d].lane \in Lanes
      <3>1. conn'[d].lane \in Lanes
        BY DEF Connection
      <3>2. slot[conn'[d].lane] = d
        BY <1>2, <2>1 DEF SlotsInv, SlotStep, ClientOpen
      <3>3. QED BY <3>1, <3>2
    <2>3. QED BY <2>1, <2>2
  <1>3. QED BY <1>1, <1>2 DEF SlotsInv, ClientOpen

(* Such steps keep the members what they are.                              *)
LEMMA MembersKept ==
  ASSUME TypeOK, MembersInv, members' \subseteq members,
         sNonce' = sNonce, sPeer' = sPeer,
         \A d \in members : MemberStep(conn[d], conn'[d])
  PROVE  MembersInv'
  BY DEF MembersInv, MemberStep

(* Not moving is such a step.                                              *)
LEMMA Unmoved ==
  ASSUME TypeOK, MembersInv, NEW d \in Conns
  PROVE  SlotStep(conn[d], conn[d]) /\ (d \in members => MemberStep(conn[d], conn[d]))
  <1>1. SlotStep(conn[d], conn[d])
    BY DEF SlotStep
  <1>2. d \in members => MemberStep(conn[d], conn[d])
    BY DEF MembersInv, MemberStep
  <1>3. QED BY <1>1, <1>2

(* The parts of TunnelInv by whose variables they are.                     *)
LanesOK ==
  /\ conn \in [Conns -> Connection]
  /\ slot \in [Lanes -> Conns \cup {None}]
  /\ \A c \in Conns : LaneInv(conn[c])
ClientOK ==
  /\ ClientPaired
  /\ cNonce \in Nat /\ cEpoch \in Nat
  /\ cPeer \in Nat \cup {None} /\ cWith \in Nat \cup {None}
ServerOK ==
  /\ ServerPaired
  /\ members \in SUBSET Conns
  /\ sNonce \in Nat /\ sEpoch \in Nat
  /\ sPeer \in Nat \cup {None} /\ sWith \in Nat \cup {None}
FaultsOK == faults \in 0..MaxFaults

(* TunnelInv is the conjunction of its parts.                              *)
LEMMA Parts ==
  TunnelInv <=> LanesOK /\ ClientOK /\ ServerOK /\ FaultsOK /\ SlotsInv /\ MembersInv
  BY DEF TunnelInv, TypeOK, LanesOK, ClientOK, ServerOK, FaultsOK

(* So it is in the next state.                                             *)
LEMMA PartsNext ==
  TunnelInv' <=>
    LanesOK' /\ ClientOK' /\ ServerOK' /\ FaultsOK' /\ SlotsInv' /\ MembersInv'
  BY Parts, PTL

(* What a step leaves alone keeps its part.                                *)
LEMMA Idle ==
  ASSUME TunnelInv
  PROVE  /\ UNCHANGED clientVars => ClientOK'
         /\ UNCHANGED serverVars => ServerOK' /\ UNCHANGED <<members, sNonce, sPeer>>
         /\ UNCHANGED faults \/ Fault => FaultsOK'
  <1>1. UNCHANGED clientVars => ClientOK'
    BY Parts DEF clientVars, ClientOK, ClientPaired
  <1>2. UNCHANGED serverVars => ServerOK' /\ UNCHANGED <<members, sNonce, sPeer>>
    BY Parts DEF serverVars, ServerOK, ServerPaired
  <1>3. UNCHANGED faults \/ Fault => FaultsOK'
    BY Parts, TunnelAssumption DEF Fault, FaultsOK
  <1>4. QED BY <1>1, <1>2, <1>3

(* A step of one connection that leaves slots and pool membership alone.   *)
LEMMA OneLane ==
  ASSUME TunnelInv, NEW c \in Conns, NEW k \in Connection, LaneInv(k),
         conn' = [conn EXCEPT ![c] = k], slot' = slot,
         SlotStep(conn[c], k), c \in members => MemberStep(conn[c], k)
  PROVE  /\ LanesOK'
         /\ SlotsInv'
         /\ UNCHANGED <<members, sNonce, sPeer>> => MembersInv'
  <1>1. conn \in [Conns -> Connection] /\ members \in SUBSET Conns
    BY DEF TunnelInv, TypeOK
  <1>2. conn' \in [Conns -> Connection]
    BY <1>1
  <1>3. \A d \in Conns : conn'[d] = IF d = c THEN k ELSE conn[d]
    BY <1>1
  <1>4. \A d \in Conns : LaneInv(conn'[d])
    BY <1>3 DEF TunnelInv
  <1>5. \A d \in Conns : SlotStep(conn[d], conn'[d])
    BY <1>3, Unmoved DEF TunnelInv
  <1>6. \A d \in members : MemberStep(conn[d], conn'[d])
    BY <1>1, <1>3, Unmoved DEF TunnelInv
  <1>7. SlotsInv'
    BY <1>5, SlotsKept DEF TunnelInv
  <1>8. UNCHANGED <<members, sNonce, sPeer>> => MembersInv'
    BY <1>6, MembersKept DEF TunnelInv
  <1>9. slot' \in [Lanes -> Conns \cup {None}]
    BY DEF TunnelInv, TypeOK
  <1>10. QED BY <1>2, <1>4, <1>7, <1>8, <1>9 DEF LanesOK

(* The same for a step of several connections.                             *)
LEMMA ManyLanes ==
  ASSUME TunnelInv, slot' = slot, conn' \in [Conns -> Connection],
         \A d \in Conns : /\ LaneInv(conn'[d])
                          /\ SlotStep(conn[d], conn'[d])
                          /\ d \in members => MemberStep(conn[d], conn'[d])
  PROVE  /\ LanesOK'
         /\ SlotsInv'
         /\ UNCHANGED <<members, sNonce, sPeer>> => MembersInv'
  <1>1. LanesOK'
    BY DEF LanesOK, TunnelInv, TypeOK
  <1>2. SlotsInv'
    BY SlotsKept DEF TunnelInv
  <1>3. UNCHANGED <<members, sNonce, sPeer>> => MembersInv'
    BY MembersKept DEF TunnelInv, TypeOK
  <1>4. QED BY <1>1, <1>2, <1>3

(* Failing the session starts a fresh one and only destroys sockets.       *)
LEMMA SessionFails ==
  ASSUME TunnelInv, NEW ks \in [Conns -> Connection], FailSession(ks),
         \A d \in Conns : LaneInv(ks[d]) \/ (InSlot(d) /\ LaneInv(ClientDestroyed(ks[d])))
  PROVE  /\ conn' \in [Conns -> Connection]
         /\ \A d \in Conns : LaneInv(conn'[d])
         /\ \A d \in Conns : conn'[d] \in {ks[d], ClientDestroyed(ks[d])}
         /\ ClientOK'
  <1>1. \A d \in Conns : conn'[d] = IF InSlot(d) THEN ClientDestroyed(ks[d]) ELSE ks[d]
    BY DEF FailSession
  <1>2. \A d \in Conns : conn'[d] \in {ks[d], ClientDestroyed(ks[d])}
    BY <1>1
  <1>3. \A d \in Conns : ks[d] \in Connection /\ ClientDestroyed(ks[d]) \in Connection
    BY DestroyedLane
  <1>4. conn' \in [Conns -> Connection]
    BY <1>3 DEF FailSession
  <1>5. \A d \in Conns : LaneInv(conn'[d])
    BY <1>1, DestroyedLaneInv
  <1>6. ClientPaired' /\ cNonce' \in Nat /\ cEpoch' \in Nat /\ cPeer' = None /\ cWith' = None
    BY DEF FailSession, ClientPaired, TunnelInv, TypeOK
  <1>7. ClientOK'
    BY <1>6 DEF ClientOK
  <1>8. QED BY <1>2, <1>4, <1>5, <1>7

(* Evicting the pool starts a fresh session without members.               *)
LEMMA PoolEvicted ==
  ASSUME TunnelInv, NEW ks \in [Conns -> Connection], EvictAll(ks),
         \A d \in Conns : LaneInv(ks[d])
  PROVE  /\ conn' \in [Conns -> Connection]
         /\ \A d \in Conns : LaneInv(conn'[d])
         /\ \A d \in Conns : conn'[d] \in {ks[d], ServerDestroyed(ks[d])}
         /\ ServerOK' /\ MembersInv'
  <1>1. \A d \in Conns : conn'[d] = IF d \in members THEN ServerDestroyed(ks[d]) ELSE ks[d]
    BY DEF EvictAll
  <1>2. \A d \in Conns : conn'[d] \in {ks[d], ServerDestroyed(ks[d])}
    BY <1>1
  <1>3. \A d \in Conns : ks[d] \in Connection /\ ServerDestroyed(ks[d]) \in Connection
    BY DestroyedLane
  <1>4. conn' \in [Conns -> Connection]
    BY <1>3 DEF EvictAll
  <1>5. \A d \in Conns : LaneInv(conn'[d])
    BY <1>1, DestroyedLaneInv
  <1>6. ServerPaired' /\ sNonce' \in Nat /\ sEpoch' \in Nat /\ sPeer' = None /\ sWith' = None
    BY DEF EvictAll, ServerPaired, TunnelInv, TypeOK
  <1>7. MembersInv' /\ members' \in SUBSET Conns
    BY DEF EvictAll, MembersInv
  <1>8. ServerOK'
    BY <1>6, <1>7 DEF ServerOK
  <1>9. QED BY <1>2, <1>4, <1>5, <1>7, <1>8

----------------------------------------------------------------------------
(* The actions.                                                            *)

(* _connect: a new socket takes a slot that was empty.                     *)
LEMMA ConnectKeeps ==
  ASSUME TunnelInv, NEW l \in Lanes, Connect(l)
  PROVE  TunnelInv'
  <1> DEFINE fresh == [FreeConnection(l) EXCEPT !.client = "connecting",
                                                !.hello = cNonce, !.epoch = cEpoch]
  <1>1. PICK c \in Conns : /\ conn[c].client = "free"
                           /\ conn' = [conn EXCEPT ![c] = fresh]
                           /\ slot' = [slot EXCEPT ![l] = c]
    BY DEF Connect
  <1>2. /\ slot[l] = None /\ UNCHANGED <<clientVars, serverVars, faults>>
        /\ TypeOK /\ SlotsInv /\ MembersInv /\ cNonce = cEpoch /\ LaneInv(conn[c])
    BY DEF Connect, TunnelInv, ClientPaired
  <1>3. /\ fresh.client = "connecting" /\ fresh.server = "none" /\ fresh.lane = l
        /\ fresh.hello = cNonce /\ fresh.epoch = cEpoch /\ fresh.bound = None
        /\ fresh.toClient = <<>> /\ fresh.toServer = <<>>
    BY DEF FreeConnection
  <1>4. fresh \in Connection
    BY <1>2, FreeLane DEF FreeConnection, Connection, Epochs, TypeOK
  <1> HIDE DEF fresh
  <1>5. Len(<<>>) = 0 /\ 1..0 = {}
    OBVIOUS
  <1>6. LaneInv(fresh)
    BY <1>2, <1>3, <1>5, TunnelAssumption DEF LaneInv
  <1>7. /\ \A d \in Conns : conn'[d] = IF d = c THEN fresh ELSE conn[d]
        /\ \A m \in Lanes : slot'[m] = IF m = l THEN c ELSE slot[m]
        /\ conn' \in [Conns -> Connection] /\ slot' \in [Lanes -> Conns \cup {None}]
    BY <1>1, <1>2, <1>4 DEF TypeOK
  <1>8. LanesOK'
    BY <1>6, <1>7 DEF LanesOK, TunnelInv
  <1>9. SlotsInv'
    <2>1. ASSUME NEW m \in Lanes, slot'[m] # None
          PROVE  /\ conn'[slot'[m]].lane = m
                 /\ conn'[slot'[m]].client \notin {"free", "gone"}
      <3>1. CASE m = l
        BY <1>3, <1>7, <3>1
      <3>2. CASE m # l
        BY <1>1, <1>2, <1>7, <2>1, <3>2 DEF SlotsInv, TypeOK
      <3>3. QED BY <3>1, <3>2
    <2>2. ASSUME NEW d \in Conns, ClientOpen(conn'[d])
          PROVE  slot'[conn'[d].lane] = d
      <3>1. CASE d = c
        BY <1>3, <1>7, <3>1
      <3>2. CASE d # c
        <4>1. conn'[d] = conn[d] /\ slot[conn[d].lane] = d /\ conn[d].lane \in Lanes
          BY <1>2, <1>7, <2>2, <3>2 DEF SlotsInv, TypeOK, Connection
        <4>2. conn[d].lane # l
          BY <1>2, <4>1, TunnelAssumption
        <4>3. QED BY <1>7, <4>1, <4>2
      <3>3. QED BY <3>1, <3>2
    <2>3. QED BY <2>1, <2>2 DEF SlotsInv, ClientOpen
  <1>10. MembersInv'
    <2>1. c \notin members
      BY <1>1, <1>2 DEF MembersInv, LaneInv
    <2>2. \A d \in members : conn'[d] = conn[d]
      BY <1>2, <1>7, <2>1 DEF TypeOK
    <2>3. QED BY <1>2, <2>2 DEF MembersInv, serverVars
  <1>11. QED BY <1>2, <1>8, <1>9, <1>10, Idle, PartsNext

(* The handshake: INIT is the first message of the lane.                   *)
LEMMA SecureConnectKeeps ==
  ASSUME TunnelInv, NEW c \in Conns, SecureConnect(c)
  PROVE  TunnelInv'
  <1> DEFINE k == conn[c]
             r == [k EXCEPT !.client = "hello", !.server = "pending",
                            !.toServer = <<Hello(k.hello)>>]
  <1>1. /\ k \in Connection /\ LaneInv(k) /\ k.client = "connecting"
        /\ conn \in [Conns -> Connection]
    BY DEF SecureConnect, TunnelInv, TypeOK
  <1>2. k.hello = k.epoch /\ k.server = "none"
    BY <1>1 DEF LaneInv
  <1>3. conn' = [conn EXCEPT ![c] = r]
    BY <1>1, <1>2 DEF SecureConnect, Hello
  <1>4. r \in Connection /\ LaneInv(r)
    BY <1>1, HelloLane
  <1>5. SlotStep(k, r)
    BY <1>1 DEF SlotStep, Connection, ClientOpen
  <1>6. c \notin members
    BY <1>2 DEF TunnelInv, MembersInv
  <1> HIDE DEF r
  <1>7. UNCHANGED <<slot, clientVars, serverVars, faults>>
    BY DEF SecureConnect
  <1>8. QED BY <1>3, <1>4, <1>5, <1>6, <1>7, OneLane, Idle, PartsNext

(* The ACK: refused, failing the session, or pairing it.                   *)
LEMMA ReceiveAckKeeps ==
  ASSUME TunnelInv, NEW c \in Conns, ReceiveAck(c)
  PROVE  TunnelInv'
  <1> DEFINE k == [conn[c] EXCEPT !.toClient = Tail(@)]
             ack == Head(conn[c].toClient)
             up == [k EXCEPT !.client = "ready", !.peer = ack.nonce,
                             !.established = TRUE]
  <1>1. /\ conn[c] \in Connection /\ LaneInv(conn[c]) /\ conn[c].client = "hello"
        /\ conn[c].toClient # <<>> /\ conn \in [Conns -> Connection]
        /\ UNCHANGED <<slot, serverVars, faults>>
    BY DEF ReceiveAck, TunnelInv, TypeOK
  <1>2. /\ ack = Hello(conn[c].bound) /\ conn[c].bound \in Nat
        /\ k \in Connection /\ LaneInv(ClientDestroyed(k))
        /\ up \in Connection /\ LaneInv(up)
    BY <1>1, AckLane
  <1>3. /\ k.client = "hello" /\ k.lane = conn[c].lane /\ k.server = conn[c].server
        /\ k.bound = conn[c].bound /\ k.hello = conn[c].hello
        /\ up.client = "ready" /\ up.lane = conn[c].lane /\ up.server = conn[c].server
        /\ up.bound = conn[c].bound /\ up.hello = conn[c].hello
    BY <1>1 DEF Connection
  <1>4. ack.nonce = conn[c].bound /\ ack.epoch = conn[c].bound
    BY <1>2 DEF Hello
  <1>5. /\ SlotStep(conn[c], k) /\ SlotStep(conn[c], up)
        /\ c \in members => MemberStep(conn[c], k) /\ MemberStep(conn[c], up)
    BY <1>1, <1>3 DEF SlotStep, MemberStep, ClientOpen, TunnelInv, MembersInv
  <1>6. \/ conn' = [conn EXCEPT ![c] = ClientDestroyed(k)] /\ UNCHANGED clientVars
        \/ FailSession([conn EXCEPT ![c] = k])
        \/ /\ cPeer \in {None, ack.nonce} /\ cPeer' = ack.nonce
           /\ cWith' = IF cPeer = None THEN ack.epoch ELSE cWith
           /\ conn' = [conn EXCEPT ![c] = up]
           /\ UNCHANGED <<cNonce, cEpoch, cTaken>>
    BY DEF ReceiveAck
  <1> HIDE DEF k, ack, up
  <1>7. CASE conn' = [conn EXCEPT ![c] = ClientDestroyed(k)] /\ UNCHANGED clientVars
    <2>1. ClientDestroyed(k) \in Connection
      BY <1>2, DestroyedLane
    <2>2. /\ SlotStep(conn[c], ClientDestroyed(k))
          /\ c \in members => MemberStep(conn[c], ClientDestroyed(k))
      BY <1>1, <1>2, <1>5, DestroyedSteps
    <2>3. QED BY <1>1, <1>2, <1>7, <2>1, <2>2, OneLane, Idle, PartsNext
  <1>8. CASE FailSession([conn EXCEPT ![c] = k])
    <2> DEFINE ks == [conn EXCEPT ![c] = k]
    <2>1. ks \in [Conns -> Connection] /\ \A d \in Conns : ks[d] = IF d = c THEN k ELSE conn[d]
      BY <1>1, <1>2
    <2>2. InSlot(c)
      <3>1. ClientOpen(conn[c]) /\ conn[c].lane \in Lanes
        BY <1>1 DEF ClientOpen, Connection
      <3>2. QED BY <3>1 DEF TunnelInv, SlotsInv, InSlot
    <2>3. \A d \in Conns : LaneInv(ks[d]) \/ (InSlot(d) /\ LaneInv(ClientDestroyed(ks[d])))
      BY <1>2, <2>1, <2>2 DEF TunnelInv
    <2>4. /\ conn' \in [Conns -> Connection] /\ \A d \in Conns : LaneInv(conn'[d])
          /\ \A d \in Conns : conn'[d] \in {ks[d], ClientDestroyed(ks[d])}
          /\ ClientOK'
      <3> HIDE DEF ks
      <3>1. FailSession(ks)
        BY <1>8 DEF ks
      <3>2. QED BY <2>1, <2>3, <3>1, SessionFails
    <2>5. \A d \in Conns : /\ SlotStep(conn[d], ks[d])
                           /\ d \in members => MemberStep(conn[d], ks[d])
      BY <1>5, <2>1, Unmoved DEF TunnelInv
    <2> HIDE DEF ks
    <2>6. \A d \in Conns : /\ SlotStep(conn[d], conn'[d])
                           /\ d \in members => MemberStep(conn[d], conn'[d])
      <3>1. TAKE d \in Conns
      <3>2. conn[d] \in Connection /\ ks[d] \in Connection
        BY <1>1, <2>1
      <3>3. conn'[d] \in {ks[d], ClientDestroyed(ks[d]), ServerDestroyed(ks[d])}
        BY <2>4
      <3>4. QED BY <2>5, <3>2, <3>3, DestroyedSteps
    <2>7. SlotsInv'
      BY <1>1, <2>6, SlotsKept DEF TunnelInv
    <2>8. MembersInv'
      BY <1>1, <2>6, MembersKept, Idle DEF TunnelInv, TypeOK
    <2>9. LanesOK'
      BY <1>1, <2>4 DEF LanesOK, TunnelInv, TypeOK
    <2>10. QED BY <1>1, <2>4, <2>7, <2>8, <2>9, Idle, PartsNext
  <1>9. CASE /\ cPeer \in {None, ack.nonce} /\ cPeer' = ack.nonce
             /\ cWith' = IF cPeer = None THEN ack.epoch ELSE cWith
             /\ conn' = [conn EXCEPT ![c] = up]
             /\ UNCHANGED <<cNonce, cEpoch, cTaken>>
    <2>1. ClientOK'
      BY <1>2, <1>4, <1>9, Parts, TunnelAssumption DEF ClientOK, ClientPaired
    <2>2. QED BY <1>1, <1>2, <1>5, <1>9, <2>1, OneLane, Idle, PartsNext
  <1>10. QED BY <1>6, <1>7, <1>8, <1>9

(* _onFrame: what the transport is given is of its own pairing.            *)
LEMMA ClientReceiveKeeps ==
  ASSUME TunnelInv, NEW c \in Conns, ClientReceive(c)
  PROVE  TunnelInv'
  <1> DEFINE k == conn[c]
             r == [k EXCEPT !.toClient = Tail(@)]
  <1>1. /\ k \in Connection /\ LaneInv(k) /\ k.client = "ready" /\ k.toClient # <<>>
        /\ UNCHANGED <<slot, cNonce, cPeer, cEpoch, cWith, serverVars, faults>>
        /\ conn \in [Conns -> Connection] /\ conn' = [conn EXCEPT ![c] = r]
    BY DEF ClientReceive, TunnelInv, TypeOK
  <1>2. r \in Connection /\ LaneInv(r) /\ Head(k.toClient) = Frame(k)
    BY <1>1, ClientReadsLane
  <1>3. SlotStep(k, r) /\ (c \in members => MemberStep(k, r))
    BY <1>1 DEF SlotStep, MemberStep, ClientOpen, Connection, TunnelInv, MembersInv
  <1>4. ClientOK'
    <2>1. CASE Usable(c)
      <3>1. k.hello = cNonce /\ k.peer = cPeer /\ k.peer = k.bound /\ k.bound # None
        BY <1>1, <2>1 DEF Usable, LaneInv
      <3>2. Frame(k).session = <<cEpoch, cWith>> /\ cPeer # None
        BY <3>1 DEF Frame, TunnelInv, ClientPaired
      <3>3. cTaken' = cTaken \cup {Frame(k).session}
        BY <1>2, <2>1 DEF ClientReceive
      <3>4. QED BY <1>1, <3>2, <3>3, Parts DEF ClientOK, ClientPaired
    <2>2. CASE ~Usable(c)
      BY <1>1, <2>2, Parts DEF ClientReceive, ClientOK, ClientPaired
    <2>3. QED BY <2>1, <2>2
  <1> HIDE DEF r
  <1>5. LanesOK' /\ SlotsInv' /\ (UNCHANGED <<members, sNonce, sPeer>> => MembersInv')
    BY <1>1, <1>2, <1>3, OneLane
  <1>6. QED BY <1>1, <1>4, <1>5, Idle, PartsNext

(* When the session fails with the connections as they are, only sockets   *)
(* in their slots are destroyed.                                           *)
LEMMA FailKeeps ==
  ASSUME TunnelInv, FailSession(conn), UNCHANGED <<slot, serverVars>>, FaultsOK'
  PROVE  TunnelInv'
  <1>1. conn \in [Conns -> Connection] /\ \A d \in Conns : LaneInv(conn[d])
    BY DEF TunnelInv, TypeOK
  <1>2. /\ conn' \in [Conns -> Connection] /\ \A d \in Conns : LaneInv(conn'[d])
        /\ \A d \in Conns : conn'[d] \in {conn[d], ClientDestroyed(conn[d])}
        /\ ClientOK'
    BY <1>1, SessionFails
  <1>3. \A d \in Conns : /\ SlotStep(conn[d], conn'[d])
                         /\ d \in members => MemberStep(conn[d], conn'[d])
    <2>1. TAKE d \in Conns
    <2>2. /\ conn[d] \in Connection
          /\ conn'[d] \in {conn[d], ClientDestroyed(conn[d]), ServerDestroyed(conn[d])}
      BY <1>1, <1>2
    <2>3. SlotStep(conn[d], conn[d]) /\ (d \in members => MemberStep(conn[d], conn[d]))
      BY Unmoved DEF TunnelInv
    <2>4. QED BY <2>2, <2>3, DestroyedSteps
  <1>4. QED BY <1>2, <1>3, ManyLanes, Idle, PartsNext

(* write: a frame goes out on lanes of its own pairing only.               *)
LEMMA ClientSendKeeps ==
  ASSUME TunnelInv, ClientSend
  PROVE  TunnelInv'
  <1> DEFINE usable == {c \in Conns : Usable(c)}
             m == [kind |-> "DATA", session |-> <<cEpoch, cWith>>]
  <1>1. UNCHANGED <<slot, serverVars, faults>>
    BY DEF ClientSend
  <1>2. ASSUME FailSession(conn)
        PROVE  TunnelInv'
    BY <1>1, <1>2, FailKeeps, Idle
  <1>3. ASSUME NEW targets \in {usable} \cup {{c} : c \in usable},
               conn' = [c \in Conns |->
                   IF c \in targets
                   THEN [conn[c] EXCEPT !.toServer = Append(@, m)] ELSE conn[c]],
               UNCHANGED clientVars
        PROVE  TunnelInv'
    <2>1. \A d \in Conns : /\ conn'[d] \in Connection /\ LaneInv(conn'[d])
                           /\ SlotStep(conn[d], conn'[d])
                           /\ d \in members => MemberStep(conn[d], conn'[d])
      <3>1. TAKE d \in Conns
      <3>2. conn[d] \in Connection /\ LaneInv(conn[d])
        BY DEF TunnelInv, TypeOK
      <3>3. CASE d \in targets
        <4> DEFINE r == [conn[d] EXCEPT !.toServer = Append(@, Frame(conn[d]))]
        <4>1. Usable(d)
          BY <1>3, <3>3
        <4>2. conn[d].client = "ready" /\ conn[d].hello = cNonce /\ conn[d].peer = cPeer
              /\ conn[d].peer = conn[d].bound
          BY <3>2, <4>1 DEF Usable, LaneInv
        <4>3. m = Frame(conn[d])
          BY <4>2 DEF Frame, TunnelInv, ClientPaired
        <4>4. conn'[d] = r
          BY <1>3, <3>3, <4>3
        <4>5. r \in Connection /\ LaneInv(r)
          BY <3>2, <4>2, ClientWritesLane
        <4>6. /\ r.client = conn[d].client /\ r.server = conn[d].server
              /\ r.lane = conn[d].lane /\ r.bound = conn[d].bound
              /\ r.hello = conn[d].hello
          BY <3>2 DEF Connection
        <4> HIDE DEF r
        <4>7. SlotStep(conn[d], r) /\ (d \in members => MemberStep(conn[d], r))
          BY <4>2, <4>6 DEF SlotStep, MemberStep, ClientOpen, TunnelInv, MembersInv
        <4>8. QED BY <4>4, <4>5, <4>7
      <3>4. CASE d \notin targets
        BY <1>3, <3>2, <3>4, Unmoved DEF TunnelInv
      <3>5. QED BY <3>3, <3>4
    <2>2. conn' \in [Conns -> Connection]
      BY <1>3, <2>1
    <2>3. QED BY <1>1, <1>3, <2>1, <2>2, ManyLanes, Idle, PartsNext
  <1>4. QED BY <1>2, <1>3 DEF ClientSend

(* A socket is destroyed under either end.                                 *)
LEMMA BreakKeeps ==
  ASSUME TunnelInv, NEW c \in Conns, ClientBreak(c) \/ ServerBreak(c)
  PROVE  TunnelInv'
  <1>1. conn[c] \in Connection /\ LaneInv(conn[c]) /\ conn \in [Conns -> Connection]
    BY DEF TunnelInv, TypeOK
  <1>2. PICK k \in {ClientDestroyed(conn[c]), ServerDestroyed(conn[c])} :
          conn' = [conn EXCEPT ![c] = k]
    BY <1>1 DEF ClientBreak, ServerBreak
  <1>3. k \in Connection /\ LaneInv(k)
    BY <1>1, DestroyedLane, DestroyedLaneInv
  <1>4. SlotStep(conn[c], k) /\ (c \in members => MemberStep(conn[c], k))
    <2>1. SlotStep(conn[c], conn[c]) /\ (c \in members => MemberStep(conn[c], conn[c]))
      BY Unmoved DEF TunnelInv
    <2>2. k \in {conn[c], ClientDestroyed(conn[c]), ServerDestroyed(conn[c])}
      OBVIOUS
    <2>3. QED BY <1>1, <2>1, <2>2, DestroyedSteps
  <1>5. UNCHANGED <<slot, clientVars, serverVars>> /\ FaultsOK'
    BY Idle DEF ClientBreak, ServerBreak
  <1>6. QED BY <1>2, <1>3, <1>4, <1>5, OneLane, Idle, PartsNext

(* The transport fails the session.                                        *)
LEMMA ClientTransportFailsKeeps ==
  ASSUME TunnelInv, ClientTransportFails
  PROVE  TunnelInv'
  BY FailKeeps, Idle DEF ClientTransportFails

(* A close event at the client: a lane that leaves its slot is closed, and *)
(* the others are at most destroyed.                                       *)
LEMMA ClientCloseKeeps ==
  ASSUME TunnelInv, NEW c \in Conns, ClientClose(c)
  PROVE  TunnelInv'
  <1> DEFINE k == [conn[c] EXCEPT !.client = "gone", !.toClient = <<>>,
                                  !.established = FALSE]
             n == Recycled(k)
             closed == [conn EXCEPT ![c] = n]
  <1>1. /\ conn[c] \in Connection /\ LaneInv(conn[c]) /\ conn \in [Conns -> Connection]
        /\ TypeOK /\ SlotsInv /\ MembersInv
        /\ UNCHANGED <<serverVars, faults>>
        /\ slot' = [l \in Lanes |-> IF slot[l] = c THEN None ELSE slot[l]]
    BY DEF ClientClose, TunnelInv, TypeOK
  <1>2. k \in Connection /\ LaneInv(k)
    BY <1>1, ClosedLane
  <1>3. n \in Connection /\ LaneInv(n)
    BY <1>2, RecycledLane
  <1>4. k.client = "gone" /\ k.server = conn[c].server
        /\ k.bound = conn[c].bound /\ k.hello = conn[c].hello
    BY <1>1 DEF Connection
  <1>5. ~ClientOpen(n)
    BY <1>4 DEF Recycled, FreeConnection, ClientOpen
  <1>6. c \in members => MemberStep(conn[c], n)
    <2>1. c \in members => n = k
      BY <1>1, <1>4 DEF MembersInv, Recycled
    <2>2. QED BY <1>1, <1>4, <2>1 DEF MembersInv, MemberStep
  <1> HIDE DEF k, n
  <1>7. /\ closed \in [Conns -> Connection]
        /\ \A d \in Conns : closed[d] = IF d = c THEN n ELSE conn[d]
    BY <1>1, <1>3
  <1>8. \A d \in Conns : LaneInv(closed[d])
    BY <1>3, <1>7 DEF TunnelInv
  <1>9. FailSession(closed) \/ (conn' = closed /\ UNCHANGED clientVars)
    BY DEF ClientClose, k, n
  <1> HIDE DEF closed
  <1>10. /\ conn' \in [Conns -> Connection] /\ \A d \in Conns : LaneInv(conn'[d])
         /\ \A d \in Conns : conn'[d] \in {closed[d], ClientDestroyed(closed[d])}
         /\ ClientOK'
    <2>1. CASE FailSession(closed)
      BY <1>7, <1>8, <2>1, SessionFails
    <2>2. CASE conn' = closed /\ UNCHANGED clientVars
      BY <1>7, <1>8, <2>2, Idle
    <2>3. QED BY <1>9, <2>1, <2>2
  <1>11. \A d \in Conns : /\ d # c => SlotStep(conn[d], conn'[d])
                          /\ d \in members => MemberStep(conn[d], conn'[d])
                          /\ d = c => ~ClientOpen(conn'[d])
    <2>1. TAKE d \in Conns
    <2>2. /\ conn[d] \in Connection /\ closed[d] \in Connection
          /\ conn'[d] \in {closed[d], ClientDestroyed(closed[d]), ServerDestroyed(closed[d])}
      BY <1>1, <1>7, <1>10
    <2>3. /\ d # c => SlotStep(conn[d], closed[d])
          /\ d \in members => MemberStep(conn[d], closed[d])
          /\ d = c => ~ClientOpen(closed[d])
      BY <1>1, <1>5, <1>6, <1>7, Unmoved
    <2>4. QED BY <2>2, <2>3, DestroyedSteps
  <1>12. SlotsInv'
    BY <1>1, <1>10, <1>11, SlotsCleared
  <1>13. MembersInv'
    <2>1. UNCHANGED <<members, sNonce, sPeer>> /\ members \subseteq Conns
      BY <1>1, Idle DEF TypeOK
    <2>2. QED BY <1>1, <1>11, <2>1, MembersKept
  <1>14. LanesOK'
    BY <1>1, <1>10 DEF LanesOK, TypeOK
  <1>15. QED BY <1>1, <1>10, <1>12, <1>13, <1>14, Idle, PartsNext

(* _removeRealSocket frees the slot of a destroyed socket.                 *)
LEMMA RetireLaneKeeps ==
  ASSUME TunnelInv, NEW l \in Lanes, RetireLane(l)
  PROVE  TunnelInv'
  <1> DEFINE c == slot[l]
             k == ClientDestroyed(conn[c])
             retired == [conn EXCEPT ![c] = k]
  <1>1. /\ c \in Conns /\ c # None
        /\ TypeOK /\ SlotsInv /\ MembersInv
        /\ UNCHANGED serverVars /\ Fault
        /\ slot' = [slot EXCEPT ![l] = None]
        /\ FailSession(retired) \/ (conn' = retired /\ UNCHANGED clientVars)
    BY DEF RetireLane, TunnelInv, TypeOK
  <1> HIDE DEF c
  <1>2. conn[c] \in Connection /\ LaneInv(conn[c]) /\ conn \in [Conns -> Connection]
    BY <1>1 DEF TunnelInv, TypeOK
  <1>3. k \in Connection /\ LaneInv(k) /\ ~ClientOpen(k)
    BY <1>2, DestroyedLane, DestroyedLaneInv DEF ClientOpen
  <1>4. c \in members => MemberStep(conn[c], k)
    BY <1>1, <1>2, Unmoved, DestroyedSteps
  <1> HIDE DEF k
  <1>5. /\ retired \in [Conns -> Connection]
        /\ \A d \in Conns : retired[d] = IF d = c THEN k ELSE conn[d]
    BY <1>2, <1>3
  <1>6. \A d \in Conns : LaneInv(retired[d])
    BY <1>3, <1>5 DEF TunnelInv
  <1> HIDE DEF retired
  <1>7. slot' = [m \in Lanes |-> IF slot[m] = c THEN None ELSE slot[m]]
    <2>1. \A m \in Lanes : slot[m] = c => m = l
      BY <1>1, TunnelAssumption DEF SlotsInv, c
    <2>2. slot[l] = c /\ slot \in [Lanes -> Conns \cup {None}]
      BY <1>1 DEF c, TypeOK
    <2>3. QED BY <1>1, <2>1, <2>2
  <1>8. /\ conn' \in [Conns -> Connection] /\ \A d \in Conns : LaneInv(conn'[d])
        /\ \A d \in Conns : conn'[d] \in {retired[d], ClientDestroyed(retired[d])}
        /\ ClientOK'
    <2>1. CASE FailSession(retired)
      BY <1>5, <1>6, <2>1, SessionFails
    <2>2. CASE conn' = retired /\ UNCHANGED clientVars
      BY <1>5, <1>6, <2>2, Idle
    <2>3. QED BY <1>1, <2>1, <2>2
  <1>9. \A d \in Conns : /\ d # c => SlotStep(conn[d], conn'[d])
                         /\ d \in members => MemberStep(conn[d], conn'[d])
                         /\ d = c => ~ClientOpen(conn'[d])
    <2>1. TAKE d \in Conns
    <2>2. /\ conn[d] \in Connection /\ retired[d] \in Connection
          /\ conn'[d] \in {retired[d], ClientDestroyed(retired[d]), ServerDestroyed(retired[d])}
      BY <1>2, <1>5, <1>8
    <2>3. /\ d # c => SlotStep(conn[d], retired[d])
          /\ d \in members => MemberStep(conn[d], retired[d])
          /\ d = c => ~ClientOpen(retired[d])
      BY <1>1, <1>3, <1>4, <1>5, Unmoved
    <2>4. QED BY <2>2, <2>3, DestroyedSteps
  <1>10. SlotsInv'
    BY <1>1, <1>7, <1>8, <1>9, SlotsCleared
  <1>11. MembersInv'
    <2>1. UNCHANGED <<members, sNonce, sPeer>> /\ members \subseteq Conns
      BY <1>1, Idle DEF TypeOK
    <2>2. QED BY <1>1, <1>9, <2>1, MembersKept
  <1>12. LanesOK'
    BY <1>1, <1>8 DEF LanesOK, TypeOK
  <1>13. QED BY <1>1, <1>8, <1>10, <1>11, <1>12, Idle, PartsNext

(* Evicting keeps TunnelInv, whatever close event led to it.               *)
LEMMA EvictKeeps ==
  ASSUME TunnelInv, NEW ks \in [Conns -> Connection], EvictAll(ks),
         \A d \in Conns : LaneInv(ks[d]) /\ SlotStep(conn[d], ks[d]),
         UNCHANGED <<slot, clientVars>>, FaultsOK'
  PROVE  TunnelInv'
  <1>1. /\ conn' \in [Conns -> Connection] /\ \A d \in Conns : LaneInv(conn'[d])
        /\ \A d \in Conns : conn'[d] \in {ks[d], ServerDestroyed(ks[d])}
        /\ ServerOK' /\ MembersInv'
    BY PoolEvicted
  <1>2. \A d \in Conns : SlotStep(conn[d], conn'[d])
    <2>1. TAKE d \in Conns
    <2>2. /\ conn[d] \in Connection /\ ks[d] \in Connection
          /\ conn'[d] \in {ks[d], ClientDestroyed(ks[d]), ServerDestroyed(ks[d])}
      BY <1>1 DEF TunnelInv, TypeOK
    <2>3. QED BY <2>2, DestroyedSteps
  <1>3. SlotsInv'
    BY <1>2, SlotsKept DEF TunnelInv
  <1>4. LanesOK'
    BY <1>1 DEF LanesOK, TunnelInv, TypeOK
  <1>5. QED BY <1>1, <1>3, <1>4, Idle, PartsNext

(* The transport of the pool fails, or the certificate is revoked.         *)
LEMMA EvictActionKeeps ==
  ASSUME TunnelInv, Evict
  PROVE  TunnelInv'
  <1>1. conn \in [Conns -> Connection] /\ \A d \in Conns : conn[d] \in Connection
    BY DEF TunnelInv, TypeOK
  <1>2. \A d \in Conns : LaneInv(conn[d]) /\ SlotStep(conn[d], conn[d])
    BY Unmoved DEF TunnelInv
  <1>3. /\ EvictAll(conn) \/ EvictAll(PendingDestroyed)
        /\ UNCHANGED <<slot, clientVars>> /\ FaultsOK'
    BY Idle DEF Evict
  <1>4. PICK ks \in {conn, PendingDestroyed} : EvictAll(ks)
    BY <1>3
  <1>5. \A d \in Conns : ks[d] \in {conn[d], ClientDestroyed(conn[d]), ServerDestroyed(conn[d])}
    BY <1>4 DEF PendingDestroyed
  <1>6. ks \in [Conns -> Connection]
    BY <1>1, <1>4, DestroyedLane DEF PendingDestroyed
  <1>7. \A d \in Conns : LaneInv(ks[d]) /\ SlotStep(conn[d], ks[d])
    <2>1. TAKE d \in Conns
    <2>2. LaneInv(ks[d])
      BY <1>1, <1>2, <1>5, DestroyedLaneInv
    <2>3. SlotStep(conn[d], ks[d])
      BY <1>1, <1>2, <1>5, DestroyedSteps
    <2>4. QED BY <2>2, <2>3
  <1>8. QED BY <1>3, <1>4, <1>6, <1>7, EvictKeeps

(* The INIT of a lane: a new member belongs to the session whose nonce the *)
(* pool has or takes, and no member of another session is left in it.      *)
LEMMA ReceiveInitKeeps ==
  ASSUME TunnelInv, NEW c \in Conns, ReceiveInit(c)
  PROVE  TunnelInv'
  <1> DEFINE o == conn[c]
             k == [o EXCEPT !.toServer = Tail(@)]
             init == Head(o.toServer)
             up == [k EXCEPT !.server = "ready", !.bound = sNonce,
                             !.toClient = Append(@, Hello(sNonce))]
  <1>1. /\ o \in Connection /\ LaneInv(o) /\ o.server = "pending" /\ o.toServer # <<>>
        /\ conn \in [Conns -> Connection] /\ sNonce \in Nat /\ sNonce = sEpoch
        /\ TypeOK /\ MembersInv
        /\ UNCHANGED <<slot, clientVars, faults>>
    BY DEF ReceiveInit, TunnelInv, TypeOK, ServerPaired
  <1>2. k \in Connection /\ LaneInv(k)
    BY <1>1, ServerReadsLane
  <1>3. init = Hello(o.hello) /\ up \in Connection /\ LaneInv(up)
    BY <1>1, BoundLane
  <1>4. init.nonce = o.hello /\ init.epoch = o.hello /\ o.hello \in Nat
    BY <1>1, <1>3 DEF Hello, Connection
  <1>5. /\ k.client = o.client /\ k.lane = o.lane
        /\ up.client = o.client /\ up.lane = o.lane
        /\ up.bound = sNonce /\ up.hello = o.hello /\ up.server = "ready"
    BY <1>1 DEF Connection
  <1>6. c \notin members
    BY <1>1 DEF MembersInv
  <1>7. \/ /\ Admits(c, init.nonce) /\ members' = members \cup {c}
           /\ sPeer' = init.nonce
           /\ sWith' = IF sPeer = None THEN init.epoch ELSE sWith
           /\ conn' = [conn EXCEPT ![c] = up]
           /\ UNCHANGED <<sNonce, sEpoch, sTaken>>
        \/ conn' = [conn EXCEPT ![c] = ServerDestroyed(k)] /\ UNCHANGED serverVars
    BY <1>1 DEF ReceiveInit, Hello
  <1> HIDE DEF k, init, up
  <1>8. SlotStep(o, k) /\ SlotStep(o, up)
    BY <1>5 DEF SlotStep, ClientOpen
  <1>9. CASE /\ Admits(c, init.nonce) /\ members' = members \cup {c}
             /\ sPeer' = init.nonce
             /\ sWith' = IF sPeer = None THEN init.epoch ELSE sWith
             /\ conn' = [conn EXCEPT ![c] = up]
             /\ UNCHANGED <<sNonce, sEpoch, sTaken>>
    <2>1. LanesOK' /\ SlotsInv'
      BY <1>1, <1>3, <1>6, <1>8, <1>9, OneLane
    <2>2. sPeer = None => members = {}
      BY <1>1, TunnelAssumption DEF MembersInv, TypeOK, Connection
    <2>3. ServerOK'
      BY <1>4, <1>9, Parts, TunnelAssumption DEF ServerOK, ServerPaired, Admits
    <2>4. \A d \in members' :
            /\ conn'[d].bound = sNonce' /\ conn'[d].hello = sPeer'
            /\ conn'[d].server \in {"ready", "destroyed"}
      <3>1. TAKE d \in members'
      <3>2. CASE d = c
        BY <1>1, <1>4, <1>5, <1>9, <3>2
      <3>3. CASE d # c
        <4>1. d \in members /\ conn'[d] = conn[d] /\ sPeer = init.nonce
          BY <1>1, <1>9, <2>2, <3>3 DEF Admits, TypeOK
        <4>2. QED BY <1>1, <1>9, <4>1 DEF MembersInv
      <3>4. QED BY <3>2, <3>3
    <2>5. MembersInv'
      BY <2>4 DEF MembersInv
    <2>6. QED BY <1>1, <2>1, <2>3, <2>5, Idle, PartsNext
  <1>10. CASE conn' = [conn EXCEPT ![c] = ServerDestroyed(k)] /\ UNCHANGED serverVars
    <2>1. ServerDestroyed(k) \in Connection /\ LaneInv(ServerDestroyed(k))
      BY <1>2, DestroyedLane, DestroyedLaneInv
    <2>2. SlotStep(o, ServerDestroyed(k))
      BY <1>1, <1>2, <1>8, DestroyedSteps
    <2>3. QED BY <1>1, <1>6, <1>10, <2>1, <2>2, OneLane, Idle, PartsNext
  <1>11. QED BY <1>7, <1>9, <1>10

(* The decoder asks owns() before the transport sees a frame.              *)
LEMMA ServerReceiveKeeps ==
  ASSUME TunnelInv, NEW c \in Conns, ServerReceive(c)
  PROVE  TunnelInv'
  <1> DEFINE o == conn[c]
             k == [o EXCEPT !.toServer = Tail(@)]
             m == Head(o.toServer)
  <1>1. /\ o \in Connection /\ LaneInv(o) /\ o.server = "ready" /\ o.toServer # <<>>
        /\ conn \in [Conns -> Connection] /\ TypeOK /\ MembersInv
        /\ UNCHANGED <<slot, clientVars, members, sNonce, sPeer, sEpoch, sWith, faults>>
        /\ \/ Owns(c) /\ conn' = [conn EXCEPT ![c] = k] /\ sTaken' = sTaken \cup {m.session}
           \/ conn' = [conn EXCEPT ![c] = ServerDestroyed(k)] /\ UNCHANGED sTaken
    BY DEF ServerReceive, TunnelInv, TypeOK
  <1>2. k \in Connection /\ LaneInv(k)
    BY <1>1, ServerReadsLane
  <1>3. /\ k.client = o.client /\ k.lane = o.lane /\ k.bound = o.bound
        /\ k.hello = o.hello /\ k.server = o.server
    BY <1>1 DEF Connection
  <1>4. Owns(c) => m.session = <<sWith, sEpoch>> /\ sPeer # None
    <2>1. SUFFICES ASSUME Owns(c)
                   PROVE  m.session = <<sWith, sEpoch>> /\ sPeer # None
      OBVIOUS
    <2>2. /\ o.bound = sNonce /\ o.hello = sPeer /\ sNonce \in Nat /\ o.hello \in Nat
          /\ sNonce = sEpoch /\ sWith = sPeer
      BY <1>1, <2>1 DEF Owns, MembersInv, TypeOK, Connection, TunnelInv, ServerPaired
    <2>3. o.toServer \in Seq(Messages) /\ Len(o.toServer) \in Nat \ {0}
      BY <1>1, EmptySeq DEF Connection
    <2>4. 1 \in 1..Len(o.toServer)
      BY <2>3
    <2>5. m = Frame(o)
      BY <1>1, <2>2, <2>3, <2>4, TunnelAssumption DEF LaneInv
    <2>6. QED BY <2>2, <2>5, TunnelAssumption DEF Frame
  <1> HIDE DEF k, m
  <1>5. SlotStep(o, k) /\ (c \in members => MemberStep(o, k))
    BY <1>1, <1>3 DEF SlotStep, MemberStep, ClientOpen, MembersInv
  <1>6. PICK n \in {k, ClientDestroyed(k), ServerDestroyed(k)} : conn' = [conn EXCEPT ![c] = n]
    BY <1>1
  <1>7. n \in Connection /\ LaneInv(n)
    BY <1>2, DestroyedLane, DestroyedLaneInv
  <1>8. SlotStep(o, n) /\ (c \in members => MemberStep(o, n))
    BY <1>1, <1>2, <1>5, DestroyedSteps
  <1>9. LanesOK' /\ SlotsInv' /\ MembersInv'
    BY <1>1, <1>6, <1>7, <1>8, OneLane
  <1>10. ServerOK'
    <2>1. sTaken' = sTaken \/ (sTaken' = sTaken \cup {<<sWith, sEpoch>>} /\ sPeer # None)
      BY <1>1, <1>4
    <2>2. QED BY <1>1, <2>1, Parts DEF ServerOK, ServerPaired
  <1>11. QED BY <1>1, <1>9, <1>10, Idle, PartsNext

(* send: a frame goes out to members of its own pairing only.              *)
LEMMA ServerSendKeeps ==
  ASSUME TunnelInv, ServerSend
  PROVE  TunnelInv'
  <1> DEFINE live == {c \in members : conn[c].server = "ready"}
             m == [kind |-> "DATA", session |-> <<sWith, sEpoch>>]
  <1>1. UNCHANGED <<slot, clientVars, faults>>
    BY DEF ServerSend
  <1>2. ASSUME EvictAll(conn)
        PROVE  TunnelInv'
    <2>1. conn \in [Conns -> Connection]
      BY DEF TunnelInv, TypeOK
    <2>2. \A d \in Conns : LaneInv(conn[d]) /\ SlotStep(conn[d], conn[d])
      BY Unmoved DEF TunnelInv
    <2>3. QED BY <1>1, <1>2, <2>1, <2>2, EvictKeeps, Idle
  <1>3. ASSUME NEW targets \in {live} \cup {{c} : c \in live},
               conn' = [c \in Conns |->
                   IF c \in targets
                   THEN [conn[c] EXCEPT !.toClient = Append(@, m)] ELSE conn[c]],
               UNCHANGED serverVars
        PROVE  TunnelInv'
    <2>1. \A d \in Conns : /\ conn'[d] \in Connection /\ LaneInv(conn'[d])
                           /\ SlotStep(conn[d], conn'[d])
                           /\ d \in members => MemberStep(conn[d], conn'[d])
      <3>1. TAKE d \in Conns
      <3>2. conn[d] \in Connection /\ LaneInv(conn[d])
        BY DEF TunnelInv, TypeOK
      <3>3. CASE d \in targets
        <4> DEFINE r == [conn[d] EXCEPT !.toClient = Append(@, Frame(conn[d]))]
        <4>1. d \in members /\ conn[d].server = "ready"
          BY <1>3, <3>3
        <4>2. conn[d].bound = sNonce /\ conn[d].hello = sPeer /\ sNonce \in Nat
          BY <4>1 DEF TunnelInv, TypeOK, MembersInv
        <4>3. m = Frame(conn[d]) /\ conn[d].bound # None
          BY <4>2, TunnelAssumption DEF Frame, TunnelInv, ServerPaired
        <4>4. conn'[d] = r
          BY <1>3, <3>3, <4>3
        <4>5. r \in Connection /\ LaneInv(r)
          BY <3>2, <4>3, ServerWritesLane
        <4>6. /\ r.client = conn[d].client /\ r.server = conn[d].server
              /\ r.lane = conn[d].lane /\ r.bound = conn[d].bound
              /\ r.hello = conn[d].hello
          BY <3>2 DEF Connection
        <4> HIDE DEF r
        <4>7. SlotStep(conn[d], r) /\ (d \in members => MemberStep(conn[d], r))
          BY <4>1, <4>6 DEF SlotStep, MemberStep, ClientOpen
        <4>8. QED BY <4>4, <4>5, <4>7
      <3>4. CASE d \notin targets
        BY <1>3, <3>2, <3>4, Unmoved DEF TunnelInv
      <3>5. QED BY <3>3, <3>4
    <2>2. conn' \in [Conns -> Connection]
      BY <1>3, <2>1
    <2>3. QED BY <1>1, <1>3, <2>1, <2>2, ManyLanes, Idle, PartsNext
  <1>4. QED BY <1>2, <1>3 DEF ServerSend

(* A close event at the server evicts the session of a member.             *)
LEMMA ServerCloseKeeps ==
  ASSUME TunnelInv, NEW c \in Conns, ServerClose(c)
  PROVE  TunnelInv'
  <1> DEFINE o == conn[c]
             k == [o EXCEPT !.server = "gone", !.toServer = <<>>]
             n == Recycled(k)
             closed == [conn EXCEPT ![c] = n]
  <1>1. /\ o \in Connection /\ LaneInv(o) /\ conn \in [Conns -> Connection]
        /\ UNCHANGED <<slot, clientVars, faults>>
        /\ IF c \in members THEN EvictAll(closed)
           ELSE conn' = closed /\ UNCHANGED serverVars
    BY DEF ServerClose, TunnelInv, TypeOK
  <1>2. o.server \in {"destroyed", "pending", "ready"}
    BY DEF ServerClose, ServerOpen
  <1>3. o.client \notin {"free", "connecting"}
    BY <1>1, <1>2 DEF LaneInv
  <1>4. k \in Connection /\ LaneInv(k)
    BY <1>1, <1>3, ClosedLane
  <1>5. n \in Connection /\ LaneInv(n)
    BY <1>4, RecycledLane
  <1>6. k.client = o.client /\ k.lane = o.lane
    BY <1>1 DEF Connection
  <1>7. SlotStep(o, n)
    <2>1. n = k \/ (k.client = "gone" /\ n.client = "free")
      BY DEF Recycled, FreeConnection
    <2> HIDE DEF n, k
    <2>2. QED BY <1>6, <2>1 DEF SlotStep, ClientOpen
  <1> HIDE DEF n
  <1>8. CASE c \in members
    <2>1. closed \in [Conns -> Connection]
      BY <1>1, <1>5
    <2>2. \A d \in Conns : closed[d] = IF d = c THEN n ELSE conn[d]
      BY <1>1
    <2>3. \A d \in Conns : LaneInv(closed[d]) /\ SlotStep(conn[d], closed[d])
      BY <1>5, <1>7, <2>2, Unmoved DEF TunnelInv
    <2>4. EvictAll(closed) /\ FaultsOK'
      BY <1>1, <1>8, Idle
    <2> HIDE DEF closed
    <2>5. QED BY <1>1, <2>1, <2>3, <2>4, EvictKeeps
  <1>9. CASE c \notin members
    <2>1. conn' = [conn EXCEPT ![c] = n] /\ UNCHANGED serverVars
      BY <1>1, <1>9
    <2>2. QED BY <1>1, <1>5, <1>7, <1>9, <2>1, OneLane, Idle, PartsNext
  <1>10. QED BY <1>8, <1>9

----------------------------------------------------------------------------
(* The theorems.                                                           *)

(* TunnelInv holds at the start.                                           *)
LEMMA InitKeeps == Init => TunnelInv
  <1> SUFFICES ASSUME Init PROVE TunnelInv
    OBVIOUS
  <1>1. FreeConnection(AnyLane) \in Connection /\ LaneInv(FreeConnection(AnyLane))
    BY FreeLane, AnyLaneType
  <1>2. conn \in [Conns -> {FreeConnection(AnyLane)}]
    <2>1. {FreeConnection(l) : l \in {AnyLane}} = {FreeConnection(AnyLane)}
      OBVIOUS
    <2>2. QED BY <2>1 DEF Init, AnyLane
  <1>3. \A d \in Conns : conn[d] = FreeConnection(AnyLane)
    BY <1>2
  <1>4. LanesOK
    BY <1>1, <1>2, <1>3 DEF Init, LanesOK
  <1>5. SlotsInv
    BY <1>3 DEF Init, SlotsInv, ClientOpen, FreeConnection
  <1>6. ClientOK /\ ServerOK /\ MembersInv /\ FaultsOK
    BY TunnelAssumption DEF Init, ClientOK, ClientPaired, ServerOK, ServerPaired,
                            MembersInv, FaultsOK
  <1>7. QED BY <1>4, <1>5, <1>6, Parts

(* Every step keeps TunnelInv.                                             *)
LEMMA NextKeeps == TunnelInv /\ [Next]_vars => TunnelInv'
  <1> SUFFICES ASSUME TunnelInv, [Next]_vars PROVE TunnelInv'
    OBVIOUS
  <1>1. CASE UNCHANGED vars
    <2>1. /\ UNCHANGED <<conn, slot, clientVars, serverVars, faults>>
      BY <1>1 DEF vars
    <2>2. LanesOK' /\ SlotsInv' /\ MembersInv'
      BY <2>1, Parts DEF LanesOK, SlotsInv, MembersInv, serverVars
    <2>3. QED BY <2>1, <2>2, Idle, PartsNext
  <1>2. ASSUME NEW c \in Conns, Handshakes(c)
        PROVE  TunnelInv'
    BY <1>2, SecureConnectKeeps, ReceiveInitKeeps, ReceiveAckKeeps DEF Handshakes
  <1>3. ASSUME NEW c \in Conns, Deliveries(c)
        PROVE  TunnelInv'
    BY <1>3, ClientReceiveKeeps, ServerReceiveKeeps DEF Deliveries
  <1>4. ASSUME NEW c \in Conns, Closes(c)
        PROVE  TunnelInv'
    BY <1>4, ClientCloseKeeps, ServerCloseKeeps DEF Closes
  <1>5. CASE Traffic
    BY <1>5, ClientSendKeeps, ServerSendKeeps DEF Traffic
  <1>6. CASE Faults
    BY <1>6, BreakKeeps, RetireLaneKeeps, ClientTransportFailsKeeps, EvictActionKeeps
       DEF Faults
  <1>7. ASSUME NEW l \in Lanes, Connect(l)
        PROVE  TunnelInv'
    BY <1>7, ConnectKeeps
  <1>8. QED BY <1>1, <1>2, <1>3, <1>4, <1>5, <1>6, <1>7 DEF Next

(* So it always holds.                                                     *)
LEMMA TunnelInvHolds == Spec => []TunnelInv
  BY InitKeeps, NextKeeps, PTL DEF Spec

(* Every reachable state of the client, the pool and their connections has *)
(* its type.                                                               *)
THEOREM TunnelTypeCorrect == Spec => []TypeOK
  <1>1. TunnelInv => TypeOK
    BY DEF TunnelInv
  <1>2. QED BY <1>1, TunnelInvHolds, PTL

(* _onFrame at the client and the decoder of the tls-server hand a frame   *)
(* to a transport only if it was sent by the session this very session is  *)
(* paired with, however many lanes, closes and retries are under way.      *)
THEOREM IsolationCorrect == Spec => []Isolation
  <1>1. TunnelInv => Isolation
    BY DEF TunnelInv, ClientPaired, ServerPaired, Isolation
  <1>2. QED BY <1>1, TunnelInvHolds, PTL
=============================================================================
