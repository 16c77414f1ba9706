----------------------------- MODULE MCWsServer -----------------------------
(***************************************************************************)
(* Bounded instances of WsServer.  A client is a connection, so a browser  *)
(* that reconnects is another client.                                      *)
(***************************************************************************)
EXTENDS WsServer
=============================================================================
