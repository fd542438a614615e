------------------------ MODULE ClientRoutingProofs ------------------------
(***************************************************************************)
(* A lane's domains are its session's alone, and sessions that have left   *)
(* the maps leave nothing behind, for any certificates, domains,           *)
(* connections and number of sessions.                                     *)
(***************************************************************************)
EXTENDS ClientRouting, TLAPS

SessionType == [serial : Serials, domains : SUBSET Domains, lanes : SUBSET Conns]

(* A lane is a connection that was let in, or whose end is still to be     *)
(* told; it leads to the session that has it, and so do its domains.       *)
LaneInv ==
  \A o \in 1 .. made : \A c \in session[o].lanes :
    /\ conn[c].state \in {"lane", "dead"}
    /\ conn[c].session = o
    /\ \A d \in conn[c].granted : route[d] = o

(* A serial leads to a session of its own.                                 *)
SerialInv == \A s \in Serials : bySerial[s] # 0 => session[bySerial[s]].serial = s

RoutingInv == TypeOK /\ LaneInv /\ NoGhosts /\ SerialInv

(* The routing invariant holds at the start. *)
LEMMA RoutingInit == Init => RoutingInv
<1> SUFFICES ASSUME Init PROVE RoutingInv OBVIOUS
<1>1. TypeOK
  <2>1. session \in [1 .. made -> SessionType] BY DEF Init
  <2>2. conn \in [Conns -> [state : {"free", "tracked", "lane", "dead"},
                            serial : Serials, session : 0 .. made,
                            granted : SUBSET Domains]]
    BY RoutingAssumption DEF Init, FreeConn
  <2> QED BY <2>1, <2>2, RoutingAssumption DEF Init, TypeOK, SessionType
<1>2. LaneInv /\ NoGhosts /\ SerialInv
  BY DEF Init, LaneInv, NoGhosts, SerialInv
<1> QED BY <1>1, <1>2 DEF RoutingInv

-----------------------------------------------------------------------------
(* Pools are cleared and sockets destroyed, and the maps stay.             *)
LEMMA Clearing ==
  ASSUME RoutingInv, NEW O \in SUBSET (1 .. made), NEW C \in SUBSET Conns,
         session' = PoolsCleared(O), conn' = Destroyed(C),
         UNCHANGED <<made, bySerial, route, crl>>
  PROVE  RoutingInv'
<1>1. \A o \in 1 .. made : /\ session'[o].serial = session[o].serial
                           /\ session'[o].domains = session[o].domains
                           /\ session'[o].lanes \subseteq session[o].lanes
  BY DEF PoolsCleared, RoutingInv, TypeOK
<1>2. \A c \in Conns : /\ conn'[c].session = conn[c].session
                       /\ conn'[c].granted = conn[c].granted
                       /\ conn'[c].state \in {conn[c].state, "dead"}
  BY DEF Destroyed, RoutingInv, TypeOK
<1>3. TypeOK'
  <2>1. session' \in [1 .. made -> SessionType]
    <3>1. session \in [1 .. made -> SessionType] BY DEF RoutingInv, TypeOK, SessionType
    <3>2. \A o \in 1 .. made : [session[o] EXCEPT !.lanes = {}] \in SessionType
      BY <3>1 DEF SessionType
    <3> QED BY <3>1, <3>2 DEF PoolsCleared
  <2>2. conn' \in [Conns -> [state : {"free", "tracked", "lane", "dead"},
                             serial : Serials, session : 0 .. made,
                             granted : SUBSET Domains]]
    BY DEF Destroyed, RoutingInv, TypeOK
  <2> QED BY <2>1, <2>2 DEF RoutingInv, TypeOK, SessionType
<1>4. \A o \in 1 .. made : session[o].lanes \subseteq Conns BY DEF RoutingInv, TypeOK
<1>5. LaneInv'
  <2> SUFFICES ASSUME NEW o \in 1 .. made, NEW c \in session'[o].lanes
               PROVE  /\ conn'[c].state \in {"lane", "dead"}
                      /\ conn'[c].session = o
                      /\ \A d \in conn'[c].granted : route'[d] = o
    BY DEF LaneInv
  <2>1. c \in session[o].lanes /\ c \in Conns BY <1>1, <1>4
  <2> QED BY <1>2, <2>1 DEF RoutingInv, LaneInv
<1>6. NoGhosts'
  <2>1. \A d \in Domains : route[d] # 0 => route[d] \in 1 .. made BY DEF RoutingInv, TypeOK
  <2> QED BY <1>1, <2>1 DEF RoutingInv, NoGhosts
<1>7. SerialInv'
  <2>1. \A s \in Serials : bySerial[s] # 0 => bySerial[s] \in 1 .. made
    BY DEF RoutingInv, TypeOK
  <2> QED BY <1>1, <2>1 DEF RoutingInv, SerialInv
<1> QED BY <1>3, <1>5, <1>6, <1>7 DEF RoutingInv

(* Sessions leave the maps with their pools; connections that are lanes of *)
(* others keep what the lanes rest on.                                     *)
LEMMA Leaving ==
  ASSUME RoutingInv, NEW O \in SUBSET (1 .. made),
         session' = PoolsCleared(O), Forget(O), UNCHANGED made, crl' \subseteq Serials,
         conn' \in [Conns -> [state : {"free", "tracked", "lane", "dead"},
                              serial : Serials, session : 0 .. made,
                              granted : SUBSET Domains]],
         \A o \in (1 .. made) \ O : \A c \in session[o].lanes :
           /\ conn'[c].session = conn[c].session
           /\ conn'[c].granted = conn[c].granted
           /\ conn'[c].state \in {conn[c].state, "dead"}
  PROVE  RoutingInv'
<1>1. \A o \in 1 .. made :
        /\ session'[o].serial = session[o].serial
        /\ session'[o].domains = session[o].domains
        /\ session'[o].lanes = IF o \in O THEN {} ELSE session[o].lanes
  BY DEF PoolsCleared, RoutingInv, TypeOK
<1>2. \A s \in Serials : bySerial'[s] = IF bySerial[s] \in O THEN 0 ELSE bySerial[s]
  BY DEF Forget
<1>3. \A d \in Domains : /\ route'[d] \in {0, route[d]}
                         /\ route[d] \in O => route'[d] = 0
                         /\ route[d] \notin O => route'[d] = route[d]
  <2>1. \A d \in Domains : route[d] \in O => route[d] # 0 OBVIOUS
  <2> QED BY <2>1 DEF Forget, RoutingInv, NoGhosts
<1>r. \A d \in Domains : route[d] # 0 => route[d] \in 1 .. made BY DEF RoutingInv, TypeOK
<1>s. \A s \in Serials : bySerial[s] # 0 => bySerial[s] \in 1 .. made
  BY DEF RoutingInv, TypeOK
<1>4. TypeOK'
  <2>1. session' \in [1 .. made -> SessionType]
    <3>1. session \in [1 .. made -> SessionType] BY DEF RoutingInv, TypeOK, SessionType
    <3>2. \A o \in 1 .. made : [session[o] EXCEPT !.lanes = {}] \in SessionType
      BY <3>1 DEF SessionType
    <3> QED BY <3>1, <3>2 DEF PoolsCleared
  <2>2. bySerial' \in [Serials -> 0 .. made] /\ route' \in [Domains -> 0 .. made]
    <3>1. made \in Nat /\ 0 \in 0 .. made BY RoutingAssumption DEF RoutingInv, TypeOK
    <3> QED BY <3>1 DEF Forget, RoutingInv, TypeOK
  <2> QED BY <2>1, <2>2 DEF RoutingInv, TypeOK, SessionType
<1>5. LaneInv'
  <2> SUFFICES ASSUME NEW o \in 1 .. made, NEW c \in session'[o].lanes
               PROVE  /\ conn'[c].state \in {"lane", "dead"}
                      /\ conn'[c].session = o
                      /\ \A d \in conn'[c].granted : route'[d] = o
    BY DEF LaneInv
  <2>1. o \notin O /\ c \in session[o].lanes BY <1>1
  <2>2. conn[c].granted \subseteq Domains BY <2>1 DEF RoutingInv, TypeOK
  <2>3. \A d \in conn[c].granted : route[d] = o BY <2>1 DEF RoutingInv, LaneInv
  <2> QED BY <1>3, <2>1, <2>2, <2>3 DEF RoutingInv, LaneInv
<1>6. NoGhosts'
  <2>1. ASSUME NEW o \in 1 .. made, bySerial'[session'[o].serial] # o
        PROVE  session'[o].lanes = {} /\ \A d \in Domains : route'[d] # o
    <3>1. session[o].serial \in Serials /\ o # 0 BY DEF RoutingInv, TypeOK
    <3>2. o \in O \/ bySerial[session[o].serial] # o BY <1>1, <1>2, <2>1, <3>1
    <3>3. CASE o \in O BY <1>1, <1>3, <3>1, <3>3
    <3>4. CASE bySerial[session[o].serial] # o
      BY <1>1, <1>3, <3>1, <3>4 DEF RoutingInv, NoGhosts
    <3> QED BY <3>2, <3>3, <3>4
  <2>2. ASSUME NEW d \in Domains, route'[d] # 0
        PROVE  d \in session'[route'[d]].domains \cap CertDomains[session'[route'[d]].serial]
    BY <1>1, <1>3, <1>r, <2>2 DEF RoutingInv, NoGhosts
  <2> QED BY <2>1, <2>2 DEF NoGhosts
<1>7. SerialInv'
  BY <1>1, <1>2, <1>s DEF RoutingInv, SerialInv
<1> QED BY <1>4, <1>5, <1>6, <1>7 DEF RoutingInv

(* ... as when they are evicted,                                           *)
LEMMA Evicting ==
  ASSUME RoutingInv, NEW O \in SUBSET (1 .. made), EvictSessions(O), UNCHANGED made,
         crl' \subseteq Serials
  PROVE  RoutingInv'
<1>1. LanesOf(O) \subseteq Conns BY DEF LanesOf, RoutingInv, TypeOK
<1>2. conn' \in [Conns -> [state : {"free", "tracked", "lane", "dead"},
                           serial : Serials, session : 0 .. made,
                           granted : SUBSET Domains]]
  BY <1>1 DEF EvictSessions, Destroyed, RoutingInv, TypeOK
<1>3. \A c \in Conns : /\ conn'[c].session = conn[c].session
                       /\ conn'[c].granted = conn[c].granted
                       /\ conn'[c].state \in {conn[c].state, "dead"}
  BY DEF EvictSessions, Destroyed, RoutingInv, TypeOK
<1>4. \A o \in 1 .. made : session[o].lanes \subseteq Conns BY DEF RoutingInv, TypeOK
<1> QED BY <1>2, <1>3, <1>4, Leaving DEF EvictSessions

(* ... or have lost a lane: a lane belongs to a session in the maps.       *)
LEMMA Closing == ASSUME RoutingInv, NEW c \in Conns, Close(c) PROVE RoutingInv'
<1> DEFINE O == {o \in 1 .. made : c \in session[o].lanes /\ bySerial[session[o].serial] = o}
<1>0. O \in SUBSET (1 .. made) OBVIOUS
<1>1. \A o \in 1 .. made : c \in session[o].lanes => o \in O
  BY DEF RoutingInv, NoGhosts
<1>2. LanesOf(O) \subseteq Conns BY DEF LanesOf, RoutingInv, TypeOK
<1>3. /\ session' = PoolsCleared(O) /\ Forget(O) /\ UNCHANGED <<made, crl>>
      /\ conn' = [Destroyed(LanesOf(O)) EXCEPT ![c] = FreeConn]
  BY DEF Close
<1> HIDE DEF O
<1>4. FreeConn \in [state : {"free", "tracked", "lane", "dead"}, serial : Serials,
                    session : 0 .. made, granted : SUBSET Domains]
  BY RoutingAssumption DEF FreeConn, RoutingInv, TypeOK
<1>5. Destroyed(LanesOf(O)) \in [Conns -> [state : {"free", "tracked", "lane", "dead"},
                                  serial : Serials, session : 0 .. made,
                                  granted : SUBSET Domains]]
  BY <1>2 DEF Destroyed, RoutingInv, TypeOK
<1>6. conn' \in [Conns -> [state : {"free", "tracked", "lane", "dead"},
                           serial : Serials, session : 0 .. made,
                           granted : SUBSET Domains]]
  BY <1>3, <1>4, <1>5
<1>7. \A k \in Conns \ {c} : /\ conn'[k].session = conn[k].session
                             /\ conn'[k].granted = conn[k].granted
                             /\ conn'[k].state \in {conn[k].state, "dead"}
  BY <1>3, <1>5 DEF Destroyed, RoutingInv, TypeOK
<1>8. \A o \in 1 .. made : session[o].lanes \subseteq Conns BY DEF RoutingInv, TypeOK
<1>9. crl' \subseteq Serials BY <1>3 DEF RoutingInv, TypeOK
<1> QED BY <1>0, <1>1, <1>3, <1>6, <1>7, <1>8, <1>9, Leaving

-----------------------------------------------------------------------------
(* A connection is let in.                                                 *)
LEMMA Admitting ==
  ASSUME RoutingInv, NEW c \in Conns, NEW requested \in SUBSET Domains, Admit(c, requested)
  PROVE  RoutingInv'
<1> DEFINE s == conn[c].serial
           o == Target(s)
           D == Wanted(s, requested)
<1>t. /\ made \in Nat /\ s \in Serials
      /\ session \in [1 .. made -> SessionType]
      /\ bySerial[s] \in 0 .. made
  BY RoutingAssumption DEF RoutingInv, TypeOK, SessionType
<1>a. /\ conn[c].state = "tracked" /\ Acceptable(s, requested) /\ o <= MaxSessions
      /\ made' = IF o > made THEN o ELSE made
      /\ session' = IF o > made
                    THEN [n \in 1 .. o |-> IF n < o THEN session[n]
                            ELSE [serial |-> s, domains |-> D, lanes |-> {c}]]
                    ELSE [Widened(o, D) EXCEPT ![o].lanes = @ \cup {c}]
      /\ bySerial' = [bySerial EXCEPT ![s] = o]
      /\ route' = [d \in Domains |-> IF d \in D THEN o ELSE route[d]]
      /\ conn' = [conn EXCEPT ![c].state = "lane", ![c].session = o, ![c].granted = D]
      /\ UNCHANGED crl
  BY DEF Admit
<1>o. \/ o = bySerial[s] /\ o \in 1 .. made
      \/ o = made + 1 /\ bySerial[s] = 0
  BY <1>t DEF Target
<1>d. D \subseteq Domains /\ D \subseteq CertDomains[s]
  BY <1>a, <1>t, RoutingAssumption DEF Wanted, Acceptable
<1>y. \A d \in D : route[d] # 0 =>
        session[route[d]].serial = s \/ session[route[d]].lanes = {}
  BY <1>a DEF Acceptable, Yields
<1>i. \A n \in 1 .. made : c \notin session[n].lanes
  BY <1>a DEF RoutingInv, LaneInv
<1> HIDE DEF s, o, D
<1>1. /\ made' \in Nat /\ made <= made' /\ o \in 1 .. made'
      /\ \A n \in 1 .. made' : n = o \/ n \in 1 .. made
  BY <1>t, <1>a, <1>o
<1>2. /\ session' \in [1 .. made' -> SessionType]
      /\ \A n \in (1 .. made) \ {o} : session'[n] = session[n]
      /\ session'[o].serial = s
      /\ D \subseteq session'[o].domains
      /\ o = made + 1 => session'[o].lanes = {c}
      /\ o \in 1 .. made => /\ session'[o].lanes = session[o].lanes \cup {c}
                            /\ session[o].serial = s
                            /\ session[o].domains \subseteq session'[o].domains
  <2>1. CASE o = made + 1
    <3>1. session' = [n \in 1 .. o |-> IF n < o THEN session[n]
                        ELSE [serial |-> s, domains |-> D, lanes |-> {c}]] /\ made' = o
      BY <1>a, <1>t, <2>1
    <3>2. [serial |-> s, domains |-> D, lanes |-> {c}] \in SessionType
      BY <1>t, <1>d DEF SessionType
    <3>3. \A n \in 1 .. o : n < o => n \in 1 .. made BY <1>t, <2>1
    <3>4. session' \in [1 .. made' -> SessionType] BY <1>t, <3>1, <3>2, <3>3
    <3>5. session'[o] = [serial |-> s, domains |-> D, lanes |-> {c}] BY <1>t, <2>1, <3>1
    <3>6. \A n \in (1 .. made) \ {o} : session'[n] = session[n] BY <1>t, <2>1, <3>1
    <3>7. o \notin 1 .. made BY <1>t, <2>1
    <3> QED BY <3>4, <3>5, <3>6, <3>7
  <2>2. CASE o \in 1 .. made
    <3>1. session' = [[session EXCEPT ![o].domains = @ \cup D] EXCEPT ![o].lanes = @ \cup {c}]
          /\ made' = made
      BY <1>a, <1>t, <2>2 DEF Widened
    <3>2. session[o].serial = s
      BY <1>t, <1>o, <2>2 DEF RoutingInv, SerialInv
    <3>3. [[session[o] EXCEPT !.domains = @ \cup D] EXCEPT !.lanes = @ \cup {c}] \in SessionType
      BY <1>t, <1>d, <2>2 DEF SessionType
    <3>4. session' = [session EXCEPT ![o] =
                       [[session[o] EXCEPT !.domains = @ \cup D] EXCEPT !.lanes = @ \cup {c}]]
      BY <1>t, <2>2, <3>1
    <3>5. session' \in [1 .. made' -> SessionType] BY <1>t, <3>1, <3>3, <3>4
    <3>6. /\ session'[o].serial = session[o].serial
          /\ session'[o].domains = session[o].domains \cup D
          /\ session'[o].lanes = session[o].lanes \cup {c}
      BY <1>t, <2>2, <3>4 DEF SessionType
    <3>7. o # made + 1 BY <1>t, <2>2
    <3> QED BY <1>t, <2>2, <3>2, <3>4, <3>5, <3>6, <3>7
  <2> QED BY <1>o, <2>1, <2>2
<1>3. /\ \A k \in Conns \ {c} : conn'[k] = conn[k]
      /\ conn'[c].state = "lane" /\ conn'[c].session = o /\ conn'[c].granted = D
  BY <1>a DEF RoutingInv, TypeOK
<1>4. TypeOK'
  <2>1. bySerial' \in [Serials -> 0 .. made'] /\ route' \in [Domains -> 0 .. made']
    <3>1. o \in 0 .. made' /\ \A n \in 0 .. made : n \in 0 .. made' BY <1>1, <1>t
    <3> QED BY <1>a, <3>1 DEF RoutingInv, TypeOK
  <2>2. conn' \in [Conns -> [state : {"free", "tracked", "lane", "dead"}, serial : Serials,
                             session : 0 .. made', granted : SUBSET Domains]]
    <3> DEFINE T == [state : {"free", "tracked", "lane", "dead"}, serial : Serials,
                     session : 0 .. made', granted : SUBSET Domains]
    <3>1. o \in 0 .. made' /\ \A n \in 0 .. made : n \in 0 .. made' BY <1>1, <1>t
    <3>2. conn \in [Conns -> T] BY <3>1 DEF RoutingInv, TypeOK
    <3>3. [[[conn[c] EXCEPT !.state = "lane"] EXCEPT !.session = o] EXCEPT !.granted = D] \in T
      BY <1>d, <3>1, <3>2
    <3>4. conn' = [conn EXCEPT ![c] =
                    [[[conn[c] EXCEPT !.state = "lane"] EXCEPT !.session = o] EXCEPT !.granted = D]]
      BY <1>a, <3>2
    <3> QED BY <3>2, <3>3, <3>4
  <2>3. made' \in 0 .. MaxSessions
    <3>1. made \in 0 .. MaxSessions BY DEF RoutingInv, TypeOK
    <3>2. made' \in {o, made} BY <1>a
    <3> QED BY <1>1, <1>a, <3>1, <3>2, RoutingAssumption
  <2> QED BY <1>2, <1>a, <2>1, <2>2, <2>3 DEF RoutingInv, TypeOK, SessionType
<1>r. \A d \in Domains : /\ route'[d] = IF d \in D THEN o ELSE route[d]
                         /\ route[d] \in 0 .. made
  BY <1>a DEF RoutingInv, TypeOK
<1>b. \A z \in Serials : /\ bySerial'[z] = IF z = s THEN o ELSE bySerial[z]
                         /\ bySerial[z] \in 0 .. made
  BY <1>a DEF RoutingInv, TypeOK
<1>n. o # 0 /\ (o = made + 1 => o \notin 0 .. made) BY <1>t, <1>o
<1>5. LaneInv'
  <2> SUFFICES ASSUME NEW n \in 1 .. made', NEW k \in session'[n].lanes
               PROVE  /\ conn'[k].state \in {"lane", "dead"}
                      /\ conn'[k].session = n
                      /\ \A d \in conn'[k].granted : route'[d] = n
    BY DEF LaneInv
  <2>1. CASE k = c
    <3>1. n = o BY <1>1, <1>2, <1>i, <2>1
    <3> QED BY <1>3, <1>d, <1>r, <2>1, <3>1
  <2>2. CASE k # c
    <3>1. n \in 1 .. made /\ k \in session[n].lanes BY <1>1, <1>2, <1>o, <2>2
    <3>2. /\ conn[k].state \in {"lane", "dead"} /\ conn[k].session = n
          /\ \A d \in conn[k].granted : route[d] = n
      BY <3>1 DEF RoutingInv, LaneInv
    <3>3. k \in Conns /\ conn[k].granted \subseteq Domains
      BY <1>t, <3>1 DEF SessionType, RoutingInv, TypeOK
    <3>4. ASSUME NEW d \in conn[k].granted PROVE route'[d] = n
      <4>1. CASE d \notin D BY <1>r, <3>2, <3>3, <3>4, <4>1
      <4>2. CASE d \in D
        <5>1. session[n].serial = s BY <1>y, <3>1, <3>2, <4>2
        <5>2. bySerial[s] = n BY <3>1, <5>1 DEF RoutingInv, NoGhosts
        <5>3. n = o BY <1>o, <3>1, <5>2
        <5> QED BY <1>r, <3>3, <4>2, <5>3
      <4> QED BY <4>1, <4>2
    <3> QED BY <1>3, <2>2, <3>2, <3>3, <3>4
  <2> QED BY <2>1, <2>2
<1>6. NoGhosts'
  <2>1. ASSUME NEW n \in 1 .. made', bySerial'[session'[n].serial] # n
        PROVE  session'[n].lanes = {} /\ \A d \in Domains : route'[d] # n
    <3>1. n # o BY <1>2, <1>b, <1>t, <2>1
    <3>2. n \in 1 .. made /\ session'[n] = session[n] BY <1>1, <1>2, <3>1
    <3>3. bySerial[session[n].serial] # n
      <4>1. session[n].serial \in Serials BY <1>t, <3>2 DEF SessionType
      <4> QED BY <1>b, <1>o, <2>1, <3>1, <3>2, <4>1
    <3>4. session[n].lanes = {} /\ \A d \in Domains : route[d] # n
      BY <3>2, <3>3 DEF RoutingInv, NoGhosts
    <3> QED BY <1>r, <3>1, <3>2, <3>4
  <2>2. ASSUME NEW d \in Domains, route'[d] # 0
        PROVE  d \in session'[route'[d]].domains \cap CertDomains[session'[route'[d]].serial]
    <3>1. CASE d \in D BY <1>2, <1>d, <1>r, <3>1
    <3>2. CASE d \notin D
      <4>1. route'[d] = route[d] /\ route[d] \in 1 .. made BY <1>r, <1>t, <2>2, <3>2
      <4>2. d \in session[route[d]].domains \cap CertDomains[session[route[d]].serial]
        BY <2>2, <4>1 DEF RoutingInv, NoGhosts
      <4>3. CASE route[d] = o BY <1>2, <4>1, <4>2, <4>3
      <4>4. CASE route[d] # o BY <1>2, <4>1, <4>2, <4>4
      <4> QED BY <4>3, <4>4
    <3> QED BY <3>1, <3>2
  <2> QED BY <2>1, <2>2 DEF NoGhosts
<1>7. SerialInv'
  <2> SUFFICES ASSUME NEW z \in Serials, bySerial'[z] # 0
               PROVE  session'[bySerial'[z]].serial = z
    BY DEF SerialInv
  <2>1. CASE z = s BY <1>2, <1>b, <2>1
  <2>2. CASE z # s
    <3>1. bySerial'[z] = bySerial[z] /\ bySerial[z] \in 1 .. made BY <1>b, <1>t, <2>2
    <3>2. session[bySerial[z]].serial = z BY <3>1, <1>n DEF RoutingInv, SerialInv
    <3>3. bySerial[z] # o BY <1>2, <2>2, <3>1, <3>2
    <3> QED BY <1>2, <3>1, <3>2, <3>3
  <2> QED BY <2>1, <2>2
<1> QED BY <1>4, <1>5, <1>6, <1>7 DEF RoutingInv

(* A lane is refused: its session may have more domains for it.            *)
LEMMA RefusingLane ==
  ASSUME RoutingInv, NEW c \in Conns, NEW requested \in SUBSET Domains,
         RefuseLane(c, requested)
  PROVE  RoutingInv'
<1> DEFINE s == conn[c].serial
           o == bySerial[s]
           D == Wanted(s, requested)
<1>1. /\ s \in Serials /\ o \in 1 .. made /\ D \subseteq Domains
      /\ session' = [session EXCEPT ![o].domains = @ \cup D]
      /\ conn' = Destroyed({c})
      /\ UNCHANGED <<made, bySerial, route, crl>>
  BY RoutingAssumption DEF RefuseLane, Acceptable, Widened, Wanted, RoutingInv, TypeOK
<1> HIDE DEF s, o, D
<1>2. session \in [1 .. made -> SessionType] BY DEF RoutingInv, TypeOK, SessionType
<1>3. /\ session' \in [1 .. made -> SessionType]
      /\ \A n \in 1 .. made : /\ session'[n].serial = session[n].serial
                              /\ session'[n].lanes = session[n].lanes
                              /\ session[n].domains \subseteq session'[n].domains
  BY <1>1, <1>2 DEF SessionType
<1>4. /\ conn' \in [Conns -> [state : {"free", "tracked", "lane", "dead"}, serial : Serials,
                             session : 0 .. made, granted : SUBSET Domains]]
      /\ \A k \in Conns : /\ conn'[k].session = conn[k].session
                          /\ conn'[k].granted = conn[k].granted
                          /\ conn'[k].state \in {conn[k].state, "dead"}
  BY <1>1 DEF Destroyed, RoutingInv, TypeOK
<1>5. TypeOK' BY <1>1, <1>3, <1>4 DEF RoutingInv, TypeOK, SessionType
<1>6. LaneInv'
  <2> SUFFICES ASSUME NEW n \in 1 .. made, NEW k \in session'[n].lanes
               PROVE  /\ conn'[k].state \in {"lane", "dead"}
                      /\ conn'[k].session = n
                      /\ \A d \in conn'[k].granted : route'[d] = n
    BY <1>1 DEF LaneInv
  <2>1. k \in session[n].lanes BY <1>3
  <2>2. k \in Conns BY <2>1 DEF RoutingInv, TypeOK
  <2>3. /\ conn[k].state \in {"lane", "dead"} /\ conn[k].session = n
        /\ \A d \in conn[k].granted : route[d] = n
    BY <2>1 DEF RoutingInv, LaneInv
  <2> QED BY <1>1, <1>4, <2>2, <2>3
<1>r. /\ \A d \in Domains : route[d] # 0 => route[d] \in 1 .. made
      /\ \A z \in Serials : bySerial[z] # 0 => bySerial[z] \in 1 .. made
  BY DEF RoutingInv, TypeOK
<1>7. NoGhosts' BY <1>1, <1>3, <1>r DEF RoutingInv, NoGhosts
<1>8. SerialInv' BY <1>1, <1>3, <1>r DEF RoutingInv, SerialInv
<1> QED BY <1>5, <1>6, <1>7, <1>8 DEF RoutingInv

-----------------------------------------------------------------------------
(* One case per action.                                                    *)
LEMMA RoutingStep == RoutingInv /\ [Next]_vars => RoutingInv'
<1> SUFFICES ASSUME RoutingInv, [Next]_vars PROVE RoutingInv' OBVIOUS
<1>p. PoolsCleared({}) = session BY DEF PoolsCleared, RoutingInv, TypeOK
<1>m. \A s \in Serials : bySerial[s] # 0 => bySerial[s] \in 1 .. made
  BY DEF RoutingInv, TypeOK
<1>l. \A O \in SUBSET (1 .. made) : LanesOf(O) \subseteq Conns
  BY DEF LanesOf, RoutingInv, TypeOK
<1>1. ASSUME NEW c \in Conns, NEW s \in Serials, TlsConnect(c, s) PROVE RoutingInv'
  <2>1. \A o \in 1 .. made : c \notin session[o].lanes
    BY <1>1 DEF TlsConnect, RoutingInv, LaneInv
  <2>2. \A k \in Conns \ {c} : conn'[k] = conn[k]
    BY <1>1 DEF TlsConnect, RoutingInv, TypeOK
  <2>3. \A o \in 1 .. made : session[o].lanes \subseteq Conns BY DEF RoutingInv, TypeOK
  <2>4. TypeOK' BY <1>1 DEF TlsConnect, RoutingInv, TypeOK
  <2>5. ASSUME NEW o \in 1 .. made, NEW k \in session[o].lanes PROVE conn'[k] = conn[k]
    BY <2>1, <2>2, <2>3
  <2>l. LaneInv'
    <3>1. UNCHANGED <<made, session, bySerial, route, crl>> BY <1>1 DEF TlsConnect
    <3>2. LaneInv BY DEF RoutingInv
    <3> QED BY <2>5, <3>1, <3>2 DEF LaneInv
  <2>6. NoGhosts' /\ SerialInv' BY <1>1 DEF TlsConnect, RoutingInv, NoGhosts, SerialInv
  <2> QED BY <2>4, <2>l, <2>6 DEF RoutingInv
<1>2. ASSUME NEW c \in Conns, NEW D \in SUBSET Domains, Admit(c, D) PROVE RoutingInv'
  BY <1>2, Admitting
<1>3. ASSUME NEW c \in Conns, NEW D \in SUBSET Domains, Refuse(c, D) \/ Break(c)
      PROVE  RoutingInv'
  BY <1>3, <1>p, Clearing DEF Refuse, Break
<1>4. ASSUME NEW c \in Conns, NEW D \in SUBSET Domains, RefuseLane(c, D) PROVE RoutingInv'
  BY <1>4, RefusingLane
<1>5. ASSUME NEW c \in Conns, Close(c) PROVE RoutingInv'
  BY <1>5, Closing
<1>6. ASSUME NEW o \in 1 .. made, PoolFails(o) PROVE RoutingInv'
  <2>1. session[o].lanes \subseteq Conns BY DEF RoutingInv, TypeOK
  <2> QED BY <1>6, <2>1, Clearing DEF PoolFails
<1>7. ASSUME NEW s \in Serials, EvictSerial(s) PROVE RoutingInv'
  <2> DEFINE C == {c \in Conns : conn[c].serial = s /\ conn[c].state # "free"}
             O == {o \in 1 .. made : session[o].serial = s /\ \E c \in C : conn[c].session = o}
  <2>1. O \in SUBSET (1 .. made) /\ C \cup LanesOf(O) \in SUBSET Conns BY <1>l
  <2>2. /\ session' = PoolsCleared(O) /\ conn' = Destroyed(C \cup LanesOf(O))
        /\ UNCHANGED <<made, bySerial, route, crl>>
    BY <1>7 DEF EvictSerial
  <2> HIDE DEF C, O
  <2> QED BY <2>1, <2>2, Clearing
<1>8. ASSUME NEW s \in Serials, RevokeOutside(s) PROVE RoutingInv'
  <2>1. crl' \subseteq Serials BY <1>8 DEF RevokeOutside, RoutingInv, TypeOK
  <2>2. UNCHANGED <<made, session, bySerial, route, conn>> BY <1>8 DEF RevokeOutside
  <2> QED BY <2>1, <2>2 DEF RoutingInv, TypeOK, LaneInv, NoGhosts, SerialInv
<1>9. ASSUME NEW s \in Serials, RevokeInside(s) PROVE RoutingInv'
  <2>1. {bySerial[s]} \ {0} \in SUBSET (1 .. made) BY <1>m
  <2>2. crl' \subseteq Serials BY <1>9 DEF RevokeInside, RoutingInv, TypeOK
  <2> QED BY <1>9, <2>1, <2>2, Evicting DEF RevokeInside
<1>10. ASSUME Watch PROVE RoutingInv'
  <2>1. RevokedSessions \in SUBSET (1 .. made)
    <3>1. crl \subseteq Serials BY DEF RoutingInv, TypeOK
    <3> QED BY <1>m, <3>1 DEF RevokedSessions
  <2>2. crl' \subseteq Serials BY <1>10 DEF Watch, RoutingInv, TypeOK
  <2> QED BY <1>10, <2>1, <2>2, Evicting DEF Watch
<1>11. ASSUME UNCHANGED vars PROVE RoutingInv'
  BY <1>11 DEF vars, RoutingInv, TypeOK, LaneInv, NoGhosts, SerialInv
<1> QED
  BY <1>1, <1>2, <1>3, <1>4, <1>5, <1>6, <1>7, <1>8, <1>9, <1>10, <1>11 DEF Next

(* The routing invariant holds in every state. *)
LEMMA RoutingInductive == Spec => []RoutingInv
  BY RoutingInit, RoutingStep, PTL DEF Spec

(* Connections, routes and serials refer to sessions that were made.       *)
THEOREM RoutingTypes == Spec => []TypeOK
<1>1. RoutingInv => TypeOK BY DEF RoutingInv
<1> QED BY <1>1, RoutingInductive, PTL

(* What a lane was granted is its session's alone as long as it is a lane. *)
THEOREM DomainsExclusive == Spec => []GrantsHonoured
<1>1. RoutingInv => GrantsHonoured
  <2> SUFFICES ASSUME RoutingInv, NEW o \in 1 .. made, NEW c \in session[o].lanes,
                      NEW d \in conn[c].granted
               PROVE  conn[c].session = o /\ Server(d) = o
    BY DEF GrantsHonoured
  <2>1. conn[c].session = o /\ route[d] = o BY DEF RoutingInv, LaneInv
  <2> QED BY <2>1 DEF Server
<1> QED BY <1>1, RoutingInductive, PTL

(* Sessions leave no lanes and no routes behind, and routes keep to the    *)
(* certificates.                                                           *)
THEOREM SessionsLeaveNothing == Spec => []NoGhosts
<1>1. RoutingInv => NoGhosts BY DEF RoutingInv
<1> QED BY <1>1, RoutingInductive, PTL

-----------------------------------------------------------------------------
(* Lanes are only lost while every session keeps its serial.               *)
LEMMA OnlyLosing ==
  ASSUME NEW s, made' = made,
         \A o \in 1 .. made : /\ session'[o].serial = session[o].serial
                              /\ session'[o].lanes \subseteq session[o].lanes
  PROVE  LanesWith(s)' \subseteq LanesWith(s)
  BY DEF LanesWith, LanesOf

(* Clearing pools never brings a session one lane more. *)
LEMMA ClearingLoses ==
  ASSUME RoutingInv, NEW O, NEW s, session' = PoolsCleared(O), made' = made
  PROVE  LanesWith(s)' \subseteq LanesWith(s)
<1>1. \A o \in 1 .. made : /\ session'[o].serial = session[o].serial
                           /\ session'[o].lanes \subseteq session[o].lanes
  BY DEF PoolsCleared, RoutingInv, TypeOK
<1> QED BY <1>1, OnlyLosing

(* A lane that is admitted goes to a session of its own serial, and the    *)
(* other sessions stay as they are.                                        *)
LEMMA AdmittedToOwn ==
  ASSUME RoutingInv, NEW c \in Conns, NEW requested \in SUBSET Domains,
         Admit(c, requested), NEW n \in 1 .. made', session'[n].serial # conn[c].serial
  PROVE  /\ n \in 1 .. made
         /\ session'[n] = session[n]
<1> DEFINE s == conn[c].serial
           o == Target(s)
           D == Wanted(s, requested)
<1>t. /\ made \in Nat /\ s \in Serials
      /\ session \in [1 .. made -> SessionType]
      /\ bySerial[s] \in 0 .. made
  BY RoutingAssumption DEF RoutingInv, TypeOK, SessionType
<1>a. /\ made' = IF o > made THEN o ELSE made
      /\ session' = IF o > made
                    THEN [k \in 1 .. o |-> IF k < o THEN session[k]
                            ELSE [serial |-> s, domains |-> D, lanes |-> {c}]]
                    ELSE [Widened(o, D) EXCEPT ![o].lanes = @ \cup {c}]
  BY DEF Admit
<1>o. \/ o = bySerial[s] /\ o \in 1 .. made /\ session[o].serial = s
      \/ o = made + 1
  BY <1>t DEF Target, RoutingInv, SerialInv
<1>s. session'[n].serial # s OBVIOUS
<1> HIDE DEF s, o, D
<1>1. CASE o = made + 1
  <2>1. n \in 1 .. o /\ session'[n] = IF n < o THEN session[n]
                            ELSE [serial |-> s, domains |-> D, lanes |-> {c}]
    BY <1>a, <1>t, <1>1
  <2>2. n < o BY <1>s, <2>1
  <2> QED BY <1>t, <1>1, <2>1, <2>2
<1>2. CASE o \in 1 .. made /\ session[o].serial = s
  <2>1. session' = [[session EXCEPT ![o].domains = @ \cup D] EXCEPT ![o].lanes = @ \cup {c}]
        /\ n \in 1 .. made
    BY <1>a, <1>t, <1>2 DEF Widened
  <2>2. session'[o].serial = session[o].serial BY <1>t, <1>2, <2>1 DEF SessionType
  <2>3. n # o BY <1>s, <1>2, <2>2
  <2> QED BY <1>t, <2>1, <2>3
<1> QED BY <1>o, <1>1, <1>2

(* No lane joins with a certificate that is in the revocation list at that *)
(* moment, whenever its handshake was.                                     *)
THEOREM RevokedNeverJoin == Spec => NoRevokedJoin
<1>1. ASSUME RoutingInv, [Next]_vars, NEW s \in crl \cap crl'
      PROVE  LanesWith(s)' \subseteq LanesWith(s)
  <2>1. CASE session' = session /\ made' = made BY <2>1, OnlyLosing
  <2>2. ASSUME NEW O, session' = PoolsCleared(O), made' = made
        PROVE  LanesWith(s)' \subseteq LanesWith(s)
    BY <1>1, <2>2, ClearingLoses
  <2>3. ASSUME NEW c \in Conns, NEW t \in Serials, TlsConnect(c, t)
        PROVE  LanesWith(s)' \subseteq LanesWith(s)
    BY <2>1, <2>3 DEF TlsConnect
  <2>4. ASSUME NEW c \in Conns, NEW D \in SUBSET Domains, Admit(c, D)
        PROVE  LanesWith(s)' \subseteq LanesWith(s)
    <3>1. s # conn[c].serial BY <1>1, <2>4 DEF Admit, Acceptable
    <3>2. \A n \in 1 .. made' : session'[n].serial = s =>
            n \in 1 .. made /\ session'[n] = session[n]
      BY <1>1, <2>4, <3>1, AdmittedToOwn
    <3> QED BY <3>2 DEF LanesWith, LanesOf
  <2>5. ASSUME NEW c \in Conns, NEW D \in SUBSET Domains, RefuseLane(c, D)
        PROVE  LanesWith(s)' \subseteq LanesWith(s)
    <3> DEFINE t == conn[c].serial
               W == Wanted(t, D)
    <3>1. session' = [session EXCEPT ![bySerial[t]].domains = @ \cup W] /\ made' = made
      BY <2>5 DEF RefuseLane, Widened
    <3>2. session \in [1 .. made -> SessionType] BY <1>1 DEF RoutingInv, TypeOK, SessionType
    <3> HIDE DEF t, W
    <3>3. \A o \in 1 .. made : /\ session'[o].serial = session[o].serial
                               /\ session'[o].lanes \subseteq session[o].lanes
      BY <3>1, <3>2 DEF SessionType
    <3> QED BY <3>1, <3>3, OnlyLosing
  <2>6. ASSUME NEW c \in Conns, NEW D \in SUBSET Domains, Refuse(c, D) \/ Break(c)
        PROVE  LanesWith(s)' \subseteq LanesWith(s)
    BY <2>1, <2>6 DEF Refuse, Break
  <2>7. ASSUME NEW c \in Conns, Close(c) PROVE LanesWith(s)' \subseteq LanesWith(s)
    BY <2>2, <2>7 DEF Close
  <2>8. ASSUME NEW o \in 1 .. made, PoolFails(o) PROVE LanesWith(s)' \subseteq LanesWith(s)
    BY <2>2, <2>8 DEF PoolFails
  <2>9. ASSUME NEW t \in Serials, EvictSerial(t) \/ RevokeOutside(t) \/ RevokeInside(t)
        PROVE  LanesWith(s)' \subseteq LanesWith(s)
    BY <2>1, <2>2, <2>9 DEF EvictSerial, RevokeOutside, RevokeInside, EvictSessions
  <2>10. ASSUME Watch PROVE LanesWith(s)' \subseteq LanesWith(s)
    BY <2>2, <2>10 DEF Watch, EvictSessions
  <2>11. CASE UNCHANGED vars BY <2>1, <2>11 DEF vars
  <2> QED
    BY <1>1, <2>3, <2>4, <2>5, <2>6, <2>7, <2>8, <2>9, <2>10, <2>11 DEF Next
<1>2. RoutingInv /\ [Next]_vars => [\A s \in crl \cap crl' : LanesWith(s)' \subseteq LanesWith(s)]_vars
  BY <1>1
<1> QED BY <1>2, RoutingInductive, PTL DEF Spec, NoRevokedJoin
=============================================================================
