----------------------------- MODULE MCGateway ------------------------------
(* Gateway for TLC: a WebSocket and a request.  Connections meet only when *)
(* the server restarts, one of each shows all they can do.                 *)
EXTENDS Gateway

MCConn == {"ws", "http"}
MCWebSocket == {"ws"}
=============================================================================
