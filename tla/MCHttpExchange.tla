--------------------------- MODULE MCHttpExchange ---------------------------
(* Two requests for one slot, one of them with a body, over two sessions.  *)
EXTENDS HttpExchange
CONSTANTS r1, r2
MCStreams == {r1, r2}
MCChunks == [x \in MCStreams |-> IF x = r1 THEN 1 ELSE 0]
=============================================================================
