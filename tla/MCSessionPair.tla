--------------------------- MODULE MCSessionPair ---------------------------
(* SessionPair on a small instance. *)
EXTENDS SessionPair
============================================================================
