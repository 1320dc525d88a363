---------------------------- MODULE MCWebSocket ----------------------------
(* Small instances of WebSocket.                                           *)
EXTENDS WebSocket
=============================================================================
