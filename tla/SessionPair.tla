---------------------------- MODULE SessionPair ----------------------------
(***************************************************************************)
(* The two ends of one session: the client's TransportSession (owned by    *)
(* apps/client/lib/virtual-socket.js) and the server's (owned by           *)
(* apps/server/lib/connection-pool.js), joined by their lanes.             *)
(*                                                                         *)
(* A frame that was sent may arrive at any later time, any number of times *)
(* or never: a broadcast stream is written to every lane, each lane is     *)
(* ordered but lanes overtake one another, a lane that joins late lacks a  *)
(* prefix and a lost lane swallows what it carried.  Frames of another     *)
(* session cannot arrive; TunnelSession.tla is about that.  When one end   *)
(* fails it destroys its lanes, and the other end fails at some time, or   *)
(* has work of its own in between.                                         *)
(***************************************************************************)
EXTENDS Integers, Sequences, FiniteSets

CONSTANTS Ids, MaxSeq, MaxFrames, MaxGap, MaxIds, MaxStreamBytes, MaxBytes,
          ClientMaxStreams, ServerMaxStreams

VARIABLES cFailure, cStreams, cKnown, cBytes, cStream, cGlobalPaused, cDraining,
          cCalling, cDelivered, cSent, cCancelled,
          sFailure, sStreams, sKnown, sBytes, sStream, sGlobalPaused, sDraining,
          sCalling, sDelivered, sSent, sCancelled

(* TransportRefinementProofs is TransportSession with the theorems about   *)
(* it, so that SessionPairProofs can cite them of each end.                *)
Client == INSTANCE TransportRefinementProofs WITH
  Initiator <- FALSE, MaxStreams <- ClientMaxStreams,
  failure <- cFailure, streams <- cStreams, known <- cKnown, bytes <- cBytes,
  stream <- cStream, globalPaused <- cGlobalPaused, draining <- cDraining,
  calling <- cCalling, delivered <- cDelivered, sent <- cSent,
  cancelled <- cCancelled

Server == INSTANCE TransportRefinementProofs WITH
  Initiator <- TRUE, MaxStreams <- ServerMaxStreams,
  failure <- sFailure, streams <- sStreams, known <- sKnown, bytes <- sBytes,
  stream <- sStream, globalPaused <- sGlobalPaused, draining <- sDraining,
  calling <- sCalling, delivered <- sDelivered, sent <- sSent,
  cancelled <- sCancelled

clientVars == <<cFailure, cStreams, cKnown, cBytes, cStream, cGlobalPaused,
                cDraining, cCalling, cDelivered, cSent, cCancelled>>
serverVars == <<sFailure, sStreams, sKnown, sBytes, sStream, sGlobalPaused,
                sDraining, sCalling, sDelivered, sSent, sCancelled>>
vars == <<clientVars, serverVars>>

ASSUME PairAssumption == /\ Client!WindowAssumption /\ Client!SessionAssumption
                         /\ Server!WindowAssumption /\ Server!SessionAssumption

Init == Client!Init /\ Server!Init

(* A lane brings the client an ordered frame or a cancellation of the      *)
(* server, and the other way round.                                        *)
ClientReceives(id) ==
  /\ \/ \E n \in DOMAIN sSent[id] :
          Client!Receive([id |-> id, type |-> sSent[id][n].type, seq |-> n])
     \/ /\ id \in sCancelled
        /\ Client!Receive([id |-> id, type |-> "ERROR", seq |-> 0])
  /\ UNCHANGED serverVars

ServerReceives(id) ==
  /\ \/ \E n \in DOMAIN cSent[id] :
          Server!Receive([id |-> id, type |-> cSent[id][n].type, seq |-> n])
     \/ /\ id \in cCancelled
        /\ Server!Receive([id |-> id, type |-> "ERROR", seq |-> 0])
  /\ UNCHANGED clientVars

(* The client's proxy creates its work when it takes HEADERS or UPGRADE,   *)
(* so it sends on no stream before that (apps/client/lib/proxy.js).        *)
ClientActs ==
  /\ \/ \E id \in Ids : cDelivered[id] # <<>> /\ Client!Sends(id)
     \/ \E id \in Ids : Client!StreamCalls(id)
     \/ Client!OwnerFails
     \/ Client!Internal
  /\ UNCHANGED serverVars

ServerActs ==
  /\ \/ \E id \in Ids : Server!Sends(id) \/ Server!StreamCalls(id)
     \/ Server!OwnerFails
     \/ Server!Internal
  /\ UNCHANGED clientVars

Next ==
  \/ \E id \in Ids : ClientReceives(id) \/ ServerReceives(id)
  \/ ClientActs
  \/ ServerActs

Spec == Init /\ [][Next]_vars

----------------------------------------------------------------------------
(* Properties.                                                             *)

TakenFrom(delivered, sent) ==
  \A i \in Ids :
    /\ Len(delivered[i]) <= Len(sent[i])
    /\ \A n \in 1..Len(delivered[i]) :
         delivered[i][n] = [type |-> sent[i][n].type, seq |-> n]

(* In both directions the consumer has taken a prefix of what the producer *)
(* sent on that stream: no frame is invented, lost in the middle, repeated *)
(* or reordered, whichever lanes it came by.                               *)
EndToEnd == TakenFrom(cDelivered, sSent) /\ TakenFrom(sDelivered, cSent)

Has(delivered, type) == \E n \in 1..Len(delivered) : delivered[n].type = type

(* "A successful HTTP response cannot finish while its request is          *)
(* incomplete": when the server's consumer takes the FIN of a response to  *)
(* a request, the client's consumer has taken the whole request, unless    *)
(* the response carries an error status.                                   *)
NoEarlySuccess ==
  \A i \in Ids :
    Has(sDelivered[i], "FIN") =>
      \/ Has(cDelivered[i], "FIN")
      \/ sSent[i][1].type = "UPGRADE"
      \/ cSent[i][1].err

(* Reordering, repetition, loss, pauses and cancellations make no end fail *)
(* its session with an error that blames its peer, with the one exception  *)
(* that docs/transport-fixes.md names, the request-opening race: the       *)
(* client gives up when a frame overtakes the opening of its stream        *)
(* (receive, "unallocated-frame-before-headers").  Then the server did say *)
(* more on a stream than its opening, and the client's consumer had not    *)
(* taken that opening; so a late frame of a stream that was open before,   *)
(* finished or dropped since, is never the reason.                         *)
Breaches == { "invalid-cancellation", "invalid-frame-type",
              "ordering-sequence-boundary", "invalid-stream-order" }
Unallocated == "unallocated-frame-before-headers"

Overtaken(i) ==
  /\ cDelivered[i] = <<>>
  /\ Len(sSent[i]) > 1 \/ i \in sCancelled

BlamedOnlyInRace ==
  /\ cFailure \notin Breaches
  /\ sFailure \notin Breaches \cup {Unallocated}
  /\ cFailure = Unallocated => \E i \in Ids : Overtaken(i)
============================================================================
