--------------------------- MODULE ClientRouting ---------------------------
(***************************************************************************)
(* Which tunnel client serves which domain: MultiClientManager and         *)
(* ClientSession of apps/server/lib/multi-client-manager.js, with the      *)
(* connections of apps/server/lib/tls-server.js that come and go below     *)
(* them and the revocation list that is written beside them.               *)
(*                                                                         *)
(* A session is an object that outlives its place in the maps: connections *)
(* and routes refer to it by its number.  The inside of a session (frames, *)
(* streams) is the matter of the other modules; here its pool is a set of  *)
(* lanes which is cleared as a whole (ConnectionPool._evictAll) and may    *)
(* refuse a lane while it has others (another client session, a name in    *)
(* use, the limit of lanes).                                               *)
(*                                                                         *)
(* destroy() of a socket and its 'close' event are apart: in between the   *)
(* connection is "dead".  The revocation list is assumed readable, and its *)
(* time of modification to change whenever it is written.                  *)
(***************************************************************************)
EXTENDS Integers, FiniteSets

CONSTANTS Serials,      \* certificates
          Domains,
          CertDomains,  \* per certificate: the domains it names
          Conns,        \* TLS connections
          MaxSessions   \* sessions ever made (a bound)

ASSUME RoutingAssumption ==
  /\ CertDomains \in [Serials -> SUBSET Domains]
  /\ Serials # {}
  /\ MaxSessions \in Nat

VARIABLES
  made,      \* sessions made so far
  session,   \* per number: serial, domains, lanes of the pool
  bySerial,  \* sessionsBySerial: the number of a serial's session, or 0
  route,     \* activeRoutesByDomain: the number of a domain's session, or 0
  conn,      \* per connection: state, serial, session, domains granted
  crl        \* serials in the revocation list

vars == <<made, session, bySerial, route, conn, crl>>

FreeConn == [state |-> "free", serial |-> CHOOSE s \in Serials : TRUE,
             session |-> 0, granted |-> {}]

TypeOK ==
  /\ made \in 0 .. MaxSessions
  /\ session \in [1 .. made -> [serial : Serials, domains : SUBSET Domains,
                                lanes : SUBSET Conns]]
  /\ bySerial \in [Serials -> 0 .. made]
  /\ route \in [Domains -> 0 .. made]
  /\ conn \in [Conns -> [state : {"free", "tracked", "lane", "dead"},
                         serial : Serials, session : 0 .. made,
                         granted : SUBSET Domains]]
  /\ crl \subseteq Serials

Init ==
  /\ made = 0
  /\ session = <<>>
  /\ bySerial = [s \in Serials |-> 0]
  /\ route = [d \in Domains |-> 0]
  /\ conn = [c \in Conns |-> FreeConn]
  /\ crl = {}

-----------------------------------------------------------------------------
(* _evictAll of the pools of the sessions O: the lanes are forgotten and   *)
(* their sockets destroyed; so are the sockets of C.                       *)
LanesOf(O) == UNION {session[o].lanes : o \in O}

PoolsCleared(O) ==
  [o \in 1 .. made |-> IF o \in O THEN [session[o] EXCEPT !.lanes = {}] ELSE session[o]]

Destroyed(C) ==
  [c \in Conns |-> IF c \in C THEN [conn[c] EXCEPT !.state = "dead"] ELSE conn[c]]

(* The sessions O leave both maps.                                         *)
(* Mutant: their routes stay.                                              *)
ForgetLeavingRoutes(O) ==
  /\ bySerial' = [s \in Serials |-> IF bySerial[s] \in O THEN 0 ELSE bySerial[s]]
  /\ route' = route

Forget(O) ==
  /\ bySerial' = [s \in Serials |-> IF bySerial[s] \in O THEN 0 ELSE bySerial[s]]
  /\ route' = [d \in Domains |->
                 IF route[d] \in O /\ d \in session[route[d]].domains THEN 0 ELSE route[d]]

(* The TLS handshake.                                                      *)
TlsConnect(c, s) ==
  /\ conn[c].state = "free" /\ s \notin crl
  /\ conn' = [conn EXCEPT ![c].state = "tracked", ![c].serial = s]
  /\ UNCHANGED <<made, session, bySerial, route, crl>>

(* addTunnelConnection: the domains asked for, all of the certificate's    *)
(* when none are, unless another certificate's session serves one of them. *)
Wanted(s, requested) == IF requested = {} THEN CertDomains[s] ELSE requested

Yields(o, s) == o.serial = s \/ o.lanes = {}

(* Mutant: the check at the handshake is relied upon.                      *)
AcceptableOnceChecked(s, requested) ==
  /\ CertDomains[s] # {} /\ requested \subseteq CertDomains[s]
  /\ \A d \in Wanted(s, requested) : route[d] # 0 => Yields(session[route[d]], s)

Acceptable(s, requested) ==
  /\ s \notin crl
  /\ CertDomains[s] # {} /\ requested \subseteq CertDomains[s]
  /\ \A d \in Wanted(s, requested) : route[d] # 0 => Yields(session[route[d]], s)

(* Mutant: the list is added to the set, not its members.                  *)
WidenedByList(o, D) == [session EXCEPT ![o].domains = @ \cup {D}]
Widened(o, D) == [session EXCEPT ![o].domains = @ \cup D]

(* The session the connection goes to: the serial's, or a new one.         *)
(* Mutant: a session is made for every connection.                         *)
TargetNew(s) == made + 1
Target(s) == IF bySerial[s] # 0 THEN bySerial[s] ELSE made + 1

Admit(c, requested) ==
  LET s == conn[c].serial
      o == Target(s)
      D == Wanted(s, requested)
  IN  /\ conn[c].state = "tracked" /\ Acceptable(s, requested)
      /\ o <= MaxSessions
      /\ made' = IF o > made THEN o ELSE made
      /\ session' = IF o > made
                    THEN [n \in 1 .. o |-> IF n < o THEN session[n]
                            ELSE [serial |-> s, domains |-> D, lanes |-> {c}]]
                    ELSE [Widened(o, D) EXCEPT ![o].lanes = @ \cup {c}]
      /\ bySerial' = [bySerial EXCEPT ![s] = o]
      /\ route' = [d \in Domains |-> IF d \in D THEN o ELSE route[d]]
      /\ conn' = [conn EXCEPT ![c].state = "lane", ![c].session = o, ![c].granted = D]
      /\ UNCHANGED crl

Refuse(c, requested) ==
  /\ conn[c].state = "tracked" /\ ~Acceptable(conn[c].serial, requested)
  /\ conn' = Destroyed({c})
  /\ UNCHANGED <<made, session, bySerial, route, crl>>

(* The pool refuses the lane, when the session has the domains already.    *)
RefuseLane(c, requested) ==
  LET s == conn[c].serial
  IN  /\ conn[c].state = "tracked" /\ Acceptable(s, requested)
      /\ bySerial[s] # 0 /\ session[bySerial[s]].lanes # {}
      /\ session' = Widened(bySerial[s], Wanted(s, requested))
      /\ conn' = Destroyed({c})
      /\ UNCHANGED <<made, bySerial, route, crl>>

(* A socket is destroyed for any reason of its own.                        *)
Break(c) ==
  /\ conn[c].state \in {"tracked", "lane"}
  /\ conn' = Destroyed({c})
  /\ UNCHANGED <<made, session, bySerial, route, crl>>

(* 'close': removeTunnelConnection.  The loss of one lane clears the pool, *)
(* and the session leaves the maps; but not one whose pool has cleared     *)
(* itself before: it has no lane to lose.                                  *)
Close(c) ==
  LET O == {o \in 1 .. made : c \in session[o].lanes /\ bySerial[session[o].serial] = o}
  IN  /\ conn[c].state = "dead"
      /\ session' = PoolsCleared(O)
      /\ conn' = [Destroyed(LanesOf(O)) EXCEPT ![c] = FreeConn]
      /\ Forget(O)
      /\ UNCHANGED <<made, crl>>

(* The pool clears itself: its transport has failed, or a lane is full.    *)
PoolFails(o) ==
  /\ session[o].lanes # {}
  /\ session' = PoolsCleared({o})
  /\ conn' = Destroyed(session[o].lanes)
  /\ UNCHANGED <<made, bySerial, route, crl>>

(* evictSerial of the TLS server.                                          *)
EvictSerial(s) ==
  LET C == {c \in Conns : conn[c].serial = s /\ conn[c].state # "free"}
      O == {o \in 1 .. made : session[o].serial = s /\ \E c \in C : conn[c].session = o}
  IN  /\ C # {}
      /\ session' = PoolsCleared(O)
      /\ conn' = Destroyed(C \cup LanesOf(O))
      /\ UNCHANGED <<made, bySerial, route, crl>>

(* _evictSession of the sessions O.                                        *)
EvictSessions(O) ==
  /\ session' = PoolsCleared(O)
  /\ conn' = Destroyed(LanesOf(O))
  /\ Forget(O)

(* Revocation by another process is only seen in the list; by this one, it *)
(* is also an event.  The watch reads the list again and again.            *)
RevokeOutside(s) ==
  /\ crl' = crl \cup {s}
  /\ UNCHANGED <<made, session, bySerial, route, conn>>

RevokeInside(s) ==
  /\ crl' = crl \cup {s}
  /\ EvictSessions({bySerial[s]} \ {0})
  /\ UNCHANGED made

(* Mutant: the watch closes the lanes it finds in the list only once.      *)
RevokedSessionsAtFirst == IF Cardinality(crl) = 1 THEN {bySerial[s] : s \in crl} \ {0} ELSE {}
RevokedSessions == {bySerial[s] : s \in crl} \ {0}

Watch ==
  /\ RevokedSessions # {}
  /\ EvictSessions(RevokedSessions)
  /\ UNCHANGED <<made, crl>>

Next ==
  \/ \E c \in Conns, s \in Serials : TlsConnect(c, s)
  \/ \E c \in Conns, D \in SUBSET Domains : Admit(c, D) \/ Refuse(c, D) \/ RefuseLane(c, D)
  \/ \E c \in Conns : Break(c) \/ Close(c)
  \/ \E o \in 1 .. made : PoolFails(o)
  \/ \E s \in Serials : EvictSerial(s) \/ RevokeOutside(s) \/ RevokeInside(s)
  \/ Watch

(* The watch is a periodic timer.                                          *)
Spec == Init /\ [][Next]_vars /\ WF_vars(Watch)

-----------------------------------------------------------------------------
(* Where resolveByHost and the router send a domain's traffic, or 0.       *)
Server(d) == IF route[d] # 0 /\ session[route[d]].lanes # {} THEN route[d] ELSE 0

(* What a lane was told in its INIT answer holds as long as the pool has   *)
(* it: its session serves those domains, alone.  A domain is not taken     *)
(* over while the certificate that serves it is connected.                 *)
GrantsHonoured ==
  \A o \in 1 .. made : \A c \in session[o].lanes : \A d \in conn[c].granted :
    conn[c].session = o /\ Server(d) = o

(* A session that has left the maps, evicted or disconnected, has no lanes *)
(* and no routes, although its sockets may close much later; and a route   *)
(* always leads to a session whose certificate names the domain.           *)
NoGhosts ==
  /\ \A o \in 1 .. made : bySerial[session[o].serial] # o =>
       session[o].lanes = {} /\ \A d \in Domains : route[d] # o
  /\ \A d \in Domains : route[d] # 0 =>
       d \in session[route[d]].domains \cap CertDomains[session[route[d]].serial]

(* No lane joins with a certificate that is in the revocation list at that *)
(* moment, whenever its handshake was.                                     *)
LanesWith(s) == LanesOf({o \in 1 .. made : session[o].serial = s})
NoRevokedJoin ==
  [][\A s \in crl \cap crl' : LanesWith(s)' \subseteq LanesWith(s)]_vars

(* The lanes of a revoked certificate leave for good.                      *)
RevokedLeave == \A s \in Serials : s \in crl ~> [](LanesWith(s) = {})
=============================================================================
