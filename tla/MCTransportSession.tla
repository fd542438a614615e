------------------------- MODULE MCTransportSession -------------------------
(* TransportSession on small instances: either end of a session.           *)
EXTENDS TransportSession, TLC

Symmetry == Permutations(Ids)
InboundNext ==
  \/ \E f \in InboundFrames : Receive(f)
  \/ \E id \in Ids : StreamCalls(id)
  \/ SessionCalls
  \/ Internal
InboundSpec == Init /\ [][InboundNext]_vars
=============================================================================
