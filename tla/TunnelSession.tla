--------------------------- MODULE TunnelSession ---------------------------
(***************************************************************************)
(* How TLS lanes become, are and stop being one session: the client's      *)
(* RealSocket and VirtualSocket (apps/client/lib), the server's tls-server *)
(* connection handler and ConnectionPool (apps/server/lib), for one client *)
(* certificate.                                                            *)
(*                                                                         *)
(* A lane is a named RealSocket slot of the client ("default#1").  A       *)
(* connection is one TLS socket, seen from both ends:                      *)
(*   client  "free", "connecting", "hello" (INIT sent), "ready"            *)
(*           (initialized), "destroyed" (destroy() called, its close event *)
(*           still to come) or "gone"                                      *)
(*   server  "none", "pending" (awaits INIT), "ready", "destroyed", "gone" *)
(* destroy() and the close event are separate moments on each end, and the *)
(* other end learns of either later: every check of the code that fences   *)
(* stale callbacks is about what happens in between.                       *)
(*                                                                         *)
(* A nonce is what an end says its session is; an epoch is which session   *)
(* it really is.  Epochs exist only here: the code has nothing but nonces. *)
(***************************************************************************)
EXTENDS Integers, Sequences, FiniteSets

CONSTANTS Lanes,        \* lane names of the client
          Conns,        \* identities for connections, reused when over
          MaxFaults,    \* bound: breaks, evictions and retirements
          MaxInFlight,  \* bound: messages in one direction of a connection
          None

ASSUME TunnelAssumption == /\ Lanes # {}
                           /\ None \notin Conns \cup Nat
                           /\ MaxFaults \in Nat
                           /\ MaxInFlight \in Nat \ {0}

VARIABLES conn,      \* the connections
          slot,      \* lane -> its RealSocket's connection, None between two
          cNonce,    \* VirtualSocket.clientSession
          cPeer,     \* VirtualSocket.serverSession
          cEpoch, cWith,   \* epoch of the client's session and of its peer's
          cTaken,    \* epochs of the frames this session's transport was given
          members,   \* values of ConnectionPool.connections
          sNonce,    \* ConnectionPool.sessionId
          sPeer,     \* ConnectionPool.clientSession
          sEpoch, sWith, sTaken,
          faults

clientVars == <<cNonce, cPeer, cEpoch, cWith, cTaken>>
serverVars == <<members, sNonce, sPeer, sEpoch, sWith, sTaken>>
vars == <<conn, slot, clientVars, serverVars, faults>>

Epochs == Nat

InitMessage == [kind : {"INIT"}, nonce : Nat, epoch : Epochs]
Data == [kind : {"DATA"}, session : (Epochs \cup {None}) \X (Epochs \cup {None})]
Messages == InitMessage \cup Data

Connection ==
  [ client : {"free", "connecting", "hello", "ready", "destroyed", "gone"},
    server : {"none", "pending", "ready", "destroyed", "gone"},
    lane   : Lanes,
    hello  : Nat,                \* the nonce captured by _connect
    epoch  : Epochs,             \* the session it was captured from
    peer   : Nat \cup {None},    \* RealSocket.serverSession
    established : BOOLEAN,       \* RealSocket.initialized until the close event
    bound  : Nat \cup {None},    \* socket._okproxyTransportSession
    toServer : Seq(Messages),
    toClient : Seq(Messages) ]

FreeConnection(l) ==
  [ client |-> "free", server |-> "none", lane |-> l, hello |-> 0, epoch |-> 0,
    peer |-> None, established |-> FALSE, bound |-> None,
    toServer |-> <<>>, toClient |-> <<>> ]

Init ==
  /\ conn \in [Conns -> {FreeConnection(l) : l \in {CHOOSE l \in Lanes : TRUE}}]
  /\ slot = [l \in Lanes |-> None]
  /\ cNonce = 0 /\ cPeer = None /\ cEpoch = 0 /\ cWith = None /\ cTaken = {}
  /\ members = {}
  /\ sNonce = 0 /\ sPeer = None /\ sEpoch = 0 /\ sWith = None /\ sTaken = {}
  /\ faults = 0

Fault == faults < MaxFaults /\ faults' = faults + 1

----------------------------------------------------------------------------
(* Connections.                                                            *)

ClientOpen(k) == k.client \in {"connecting", "hello", "ready"}
ServerOpen(k) == k.server \in {"pending", "ready"}

ClientDestroyed(k) == IF ClientOpen(k) THEN [k EXCEPT !.client = "destroyed"] ELSE k
ServerDestroyed(k) == IF ServerOpen(k) THEN [k EXCEPT !.server = "destroyed"] ELSE k

(* A connection both ends have closed can be reused for another.           *)
Recycled(k) ==
  IF k.client = "gone" /\ k.server \in {"none", "gone"}
  THEN FreeConnection(CHOOSE l \in Lanes : TRUE) ELSE k

----------------------------------------------------------------------------
(* The client.                                                             *)

InSlot(c) == \E l \in Lanes : slot[l] = c

(* Mutant: the next session goes by the same nonce.                        *)
FailSessionSameNonce(ks) ==
  /\ cEpoch' = cEpoch + 1
  /\ cPeer' = None
  /\ cWith' = None
  /\ cTaken' = {}
  /\ conn' = [c \in Conns |-> IF InSlot(c) THEN ClientDestroyed(ks[c]) ELSE ks[c]]
  /\ UNCHANGED cNonce

(* _failSession(reason) applied to connections ks: forget the session and  *)
(* destroy the socket of every lane.                                       *)
FailSession(ks) ==
  /\ cEpoch' = cEpoch + 1
  /\ cNonce' = cEpoch'
  /\ cPeer' = None
  /\ cWith' = None
  /\ cTaken' = {}
  /\ conn' = [c \in Conns |-> IF InSlot(c) THEN ClientDestroyed(ks[c]) ELSE ks[c]]

(* _allConnectedRealSockets().                                             *)
Usable(c) ==
  /\ InSlot(c)
  /\ conn[c].client = "ready"
  /\ conn[c].hello = cNonce
  /\ conn[c].peer = cPeer

(* _connect(), at start and when the reconnect timer fires.                *)
Connect(l) ==
  /\ slot[l] = None
  /\ \E c \in Conns :
       /\ conn[c].client = "free"
       /\ conn' = [conn EXCEPT ![c] =
            [FreeConnection(l) EXCEPT !.client = "connecting",
                                      !.hello = cNonce, !.epoch = cEpoch]]
       /\ slot' = [slot EXCEPT ![l] = c]
  /\ UNCHANGED <<clientVars, serverVars, faults>>

(* The TLS handshake completes: secureConnect sends INIT on the client,    *)
(* the connection handler starts to wait for it on the server.             *)
SecureConnect(c) ==
  /\ conn[c].client = "connecting"
  /\ conn' = [conn EXCEPT ![c].client = "hello", ![c].server = "pending",
       ![c].toServer = <<[kind |-> "INIT", nonce |-> conn[c].hello,
                          epoch |-> conn[c].epoch]>>]
  /\ UNCHANGED <<slot, clientVars, serverVars, faults>>

(* The decoder on INIT: _acceptSession refuses a lane of another client    *)
(* session and fails the session on another server session.                *)
ReceiveAck(c) ==
  LET k == [conn[c] EXCEPT !.toClient = Tail(@)]
      ack == Head(conn[c].toClient)
  IN  /\ conn[c].client = "hello"
      /\ conn[c].toClient # <<>>
      /\ \/ /\ k.hello # cNonce
            /\ conn' = [conn EXCEPT ![c] = ClientDestroyed(k)]
            /\ UNCHANGED clientVars
         \/ /\ k.hello = cNonce
            /\ cPeer \notin {None, ack.nonce}
            /\ FailSession([conn EXCEPT ![c] = k])
         \/ /\ k.hello = cNonce
            /\ cPeer \in {None, ack.nonce}
            /\ cPeer' = ack.nonce
            /\ cWith' = IF cPeer = None THEN ack.epoch ELSE cWith
            /\ conn' = [conn EXCEPT ![c] =
                 [k EXCEPT !.client = "ready", !.peer = ack.nonce,
                           !.established = TRUE]]
            /\ UNCHANGED <<cNonce, cEpoch, cTaken>>
      /\ UNCHANGED <<slot, serverVars, faults>>

(* A frame on an initialized lane: _onFrame asks whether the lane belongs  *)
(* to the current session before the transport sees the frame.             *)
ClientReceive(c) ==
  LET m == Head(conn[c].toClient)
  IN  /\ conn[c].client = "ready"
      /\ conn[c].toClient # <<>>
      /\ conn' = [conn EXCEPT ![c].toClient = Tail(@)]
      /\ cTaken' = IF Usable(c) THEN cTaken \cup {m.session} ELSE cTaken
      /\ UNCHANGED <<slot, cNonce, cPeer, cEpoch, cWith, serverVars, faults>>

(* write(buf): a broadcast stream uses every lane of the session, a pinned *)
(* stream one of them; without a lane the session fails.                   *)
ClientSend ==
  LET usable == {c \in Conns : Usable(c)}
      m == [kind |-> "DATA", session |-> <<cEpoch, cWith>>]
  IN  /\ cPeer # None
      /\ \/ \E targets \in {usable} \cup {{c} : c \in usable} :
              /\ targets # {}
              /\ \A c \in targets : Len(conn[c].toServer) < MaxInFlight
              /\ conn' = [c \in Conns |->
                   IF c \in targets
                   THEN [conn[c] EXCEPT !.toServer = Append(@, m)] ELSE conn[c]]
              /\ UNCHANGED clientVars
         \/ usable = {} /\ FailSession(conn)
      /\ UNCHANGED <<slot, serverVars, faults>>

(* The close event of the lane's socket: the loss of an established lane   *)
(* of the current session fails the session; then the lane reconnects.     *)
ClientClose(c) ==
  LET k == [conn[c] EXCEPT !.client = "gone", !.toClient = <<>>,
                           !.established = FALSE]
      closed == [conn EXCEPT ![c] = Recycled(k)]
  IN  /\ \/ conn[c].client = "destroyed"
         \/ ClientOpen(conn[c]) /\ conn[c].server \in {"destroyed", "gone"}
      /\ IF InSlot(c) /\ conn[c].established /\ conn[c].hello = cNonce
         THEN FailSession(closed)
         ELSE conn' = closed /\ UNCHANGED clientVars
      /\ slot' = [l \in Lanes |-> IF slot[l] = c THEN None ELSE slot[l]]
      /\ UNCHANGED <<serverVars, faults>>

(* The lane's socket is destroyed under it: an error, a timeout of the     *)
(* connection, INIT, keepalive or watchdog timer, or a network change.     *)
ClientBreak(c) ==
  /\ ClientOpen(conn[c])
  /\ Fault
  /\ conn' = [conn EXCEPT ![c] = ClientDestroyed(@)]
  /\ UNCHANGED <<slot, clientVars, serverVars>>

(* The transport fails the session: a gap, a limit, a flow-control timeout.*)
ClientTransportFails ==
  /\ cPeer # None
  /\ Fault
  /\ FailSession(conn)
  /\ UNCHANGED <<slot, serverVars>>

(* _removeRealSocket: the interface is gone or has another address.  The   *)
(* slot is free at once for a new RealSocket of the same name.             *)
RetireLane(l) ==
  LET c == slot[l]
      retired == [conn EXCEPT ![c] = ClientDestroyed(@)]
  IN  /\ c # None
      /\ Fault
      /\ IF conn[c].established /\ conn[c].hello = cNonce
         THEN FailSession(retired)
         ELSE conn' = retired /\ UNCHANGED clientVars
      /\ slot' = [slot EXCEPT ![l] = None]
      /\ UNCHANGED serverVars

----------------------------------------------------------------------------
(* The server.                                                             *)

(* owns(socket).                                                           *)
Owns(c) ==
  /\ c \in members
  /\ conn[c].server = "ready"
  /\ conn[c].bound = sNonce

(* Mutants: the client session of the evicted pool is remembered; the      *)
(* session id is cleared but not replaced.                                 *)
EvictAllRemembering(ks) ==
  /\ members' = {}
  /\ sEpoch' = sEpoch + 1
  /\ sNonce' = sEpoch'
  /\ sTaken' = {}
  /\ UNCHANGED <<sPeer, sWith>>
  /\ conn' = [c \in Conns |->
       IF c \in members THEN ServerDestroyed(ks[c]) ELSE ks[c]]

EvictAllUnnamed(ks) ==
  /\ members' = {}
  /\ sEpoch' = sEpoch + 1
  /\ sNonce' = None
  /\ sPeer' = None
  /\ sWith' = None
  /\ sTaken' = {}
  /\ conn' = [c \in Conns |->
       IF c \in members THEN ServerDestroyed(ks[c]) ELSE ks[c]]

(* _evictAll(reason) applied to connections ks: fence the members, forget  *)
(* the session, destroy their sockets.                                     *)
EvictAll(ks) ==
  /\ members' = {}
  /\ sEpoch' = sEpoch + 1
  /\ sNonce' = sEpoch'
  /\ sPeer' = None
  /\ sWith' = None
  /\ sTaken' = {}
  /\ conn' = [c \in Conns |->
       IF c \in members THEN ServerDestroyed(ks[c]) ELSE ks[c]]

(* add(serial, interfaceName, socket): one client session at a time, and   *)
(* a live lane of the same name is never replaced.                         *)
Admits(c, nonce) ==
  /\ sPeer \in {None, nonce}
  /\ \A d \in members : conn[d].lane # conn[c].lane

(* The decoder on INIT; the ACK leaves in the same handler.                *)
ReceiveInit(c) ==
  LET k == [conn[c] EXCEPT !.toServer = Tail(@)]
      init == Head(conn[c].toServer)
      ack == [kind |-> "INIT", nonce |-> sNonce, epoch |-> sEpoch]
  IN  /\ conn[c].server = "pending"
      /\ conn[c].toServer # <<>>
      /\ \/ /\ Admits(c, init.nonce)
            /\ members' = members \cup {c}
            /\ sPeer' = init.nonce
            /\ sWith' = IF sPeer = None THEN init.epoch ELSE sWith
            /\ conn' = [conn EXCEPT ![c] =
                 [k EXCEPT !.server = "ready", !.bound = sNonce,
                           !.toClient = Append(@, ack)]]
            /\ UNCHANGED <<sNonce, sEpoch, sTaken>>
         \/ /\ ~Admits(c, init.nonce)
            /\ conn' = [conn EXCEPT ![c] = ServerDestroyed(k)]
            /\ UNCHANGED serverVars
      /\ UNCHANGED <<slot, clientVars, faults>>

(* A frame on an initialized socket; a socket the pool does not own any    *)
(* more is destroyed.                                                      *)
ServerReceive(c) ==
  LET k == [conn[c] EXCEPT !.toServer = Tail(@)]
      m == Head(conn[c].toServer)
  IN  /\ conn[c].server = "ready"
      /\ conn[c].toServer # <<>>
      /\ \/ /\ Owns(c)
            /\ conn' = [conn EXCEPT ![c] = k]
            /\ sTaken' = sTaken \cup {m.session}
         \/ /\ ~Owns(c)
            /\ conn' = [conn EXCEPT ![c] = ServerDestroyed(k)]
            /\ UNCHANGED sTaken
      /\ UNCHANGED <<slot, clientVars, members, sNonce, sPeer, sEpoch, sWith, faults>>

(* send(buf) to every live member, or to the one a stream is pinned to.    *)
ServerSend ==
  LET live == {c \in members : conn[c].server = "ready"}
      m == [kind |-> "DATA", session |-> <<sWith, sEpoch>>]
  IN  /\ members # {}
      /\ \/ \E targets \in {live} \cup {{c} : c \in live} :
              /\ targets # {}
              /\ \A c \in targets : Len(conn[c].toClient) < MaxInFlight
              /\ conn' = [c \in Conns |->
                   IF c \in targets
                   THEN [conn[c] EXCEPT !.toClient = Append(@, m)] ELSE conn[c]]
              /\ UNCHANGED serverVars
         \/ live = {} /\ EvictAll(conn)
      /\ UNCHANGED <<slot, clientVars, faults>>

(* The close event: pool.remove evicts the session of a member.            *)
ServerClose(c) ==
  LET k == [conn[c] EXCEPT !.server = "gone", !.toServer = <<>>]
      closed == [conn EXCEPT ![c] = Recycled(k)]
  IN  /\ \/ conn[c].server = "destroyed"
         \/ ServerOpen(conn[c]) /\ conn[c].client \in {"destroyed", "gone"}
      /\ IF c \in members
         THEN EvictAll(closed)
         ELSE conn' = closed /\ UNCHANGED serverVars
      /\ UNCHANGED <<slot, clientVars, faults>>

(* An error, or the INIT or keepalive timer of the server.                 *)
ServerBreak(c) ==
  /\ ServerOpen(conn[c])
  /\ Fault
  /\ conn' = [conn EXCEPT ![c] = ServerDestroyed(@)]
  /\ UNCHANGED <<slot, clientVars, serverVars>>

(* The pool's transport fails, or the certificate is revoked (evictSerial),*)
(* which destroys the sockets that still wait for their INIT as well.      *)
PendingDestroyed ==
  [c \in Conns |-> IF conn[c].server = "pending" THEN ServerDestroyed(conn[c])
                                                 ELSE conn[c]]

Evict ==
  /\ members # {}
  /\ Fault
  /\ EvictAll(conn) \/ EvictAll(PendingDestroyed)
  /\ UNCHANGED <<slot, clientVars>>

----------------------------------------------------------------------------
Handshakes(c) == SecureConnect(c) \/ ReceiveInit(c) \/ ReceiveAck(c)
Traffic == ClientSend \/ ServerSend
Deliveries(c) == ClientReceive(c) \/ ServerReceive(c)
Closes(c) == ClientClose(c) \/ ServerClose(c)
Faults ==
  \/ \E c \in Conns : ClientBreak(c) \/ ServerBreak(c)
  \/ \E l \in Lanes : RetireLane(l)
  \/ ClientTransportFails
  \/ Evict

Next ==
  \/ \E l \in Lanes : Connect(l)
  \/ \E c \in Conns : Handshakes(c) \/ Deliveries(c) \/ Closes(c)
  \/ Traffic
  \/ Faults

Spec == Init /\ [][Next]_vars

(* TCP delivers what was sent or closes; a close reaches the other end     *)
(* (FIN, RST, or the keepalive timers of both ends); destroy() is followed *)
(* by its close event; the reconnect timer fires.  Traffic is not fair.    *)
Fairness ==
  /\ \A l \in Lanes : WF_vars(Connect(l))
  /\ \A c \in Conns :
       /\ WF_vars(SecureConnect(c))
       /\ WF_vars(ReceiveInit(c))
       /\ WF_vars(ReceiveAck(c))
       /\ WF_vars(ClientReceive(c))
       /\ WF_vars(ServerReceive(c))
       /\ WF_vars(ClientClose(c))
       /\ WF_vars(ServerClose(c))

FairSpec == Spec /\ Fairness

----------------------------------------------------------------------------
(* Properties.                                                             *)

TypeOK ==
  /\ conn \in [Conns -> Connection]
  /\ slot \in [Lanes -> Conns \cup {None}]
  /\ cNonce \in Nat /\ cEpoch \in Nat
  /\ cPeer \in Nat \cup {None} /\ cWith \in Nat \cup {None}
  /\ members \in SUBSET Conns
  /\ sNonce \in Nat /\ sEpoch \in Nat
  /\ sPeer \in Nat \cup {None} /\ sWith \in Nat \cup {None}
  /\ faults \in 0..MaxFaults

(* No frame of one session reaches the transport of another: everything a  *)
(* transport was given was sent by the peer session this very session was  *)
(* paired with, even while closes of older lanes are still unobserved.     *)
Isolation ==
  /\ cTaken \subseteq {<<cEpoch, cWith>>}
  /\ sTaken \subseteq {<<sWith, sEpoch>>}

(* Once nothing breaks any more, the lanes find each other again: all of   *)
(* them end up initialized at both ends in one session, and stay there.    *)
LaneUp(l) ==
  LET c == slot[l]
  IN  c # None /\ Usable(c) /\ Owns(c) /\ conn[c].peer = sNonce /\ sPeer = cNonce
Recovers == <>[](\A l \in Lanes : LaneUp(l))
============================================================================
