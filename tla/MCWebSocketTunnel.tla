------------------------ MODULE MCWebSocketTunnel ------------------------
(* A talkative WebSocket, and one that only waits for its place.           *)
EXTENDS WebSocketTunnel
MCStreams == 1 .. 2
MCBrowser == <<<<"large", "close">>, <<>>>>
MCTarget == <<<<"small", "large", "close">>, <<>>>>
=============================================================================
