----------------------------- MODULE MCWebSocket -----------------------------
(* WebSocket for TLC.                                                       *)
EXTENDS WebSocket

=============================================================================
