------------------------------ MODULE MCClient ------------------------------
(* Instances of WebSocketClient for TLC.  The bounds are in the cfg files. *)
EXTENDS WebSocketClient
=============================================================================
