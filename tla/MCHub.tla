------------------------------- MODULE MCHub -------------------------------
(* Two WebSocket clients, three messages on the stream and one command.    *)
EXTENDS Hub
=============================================================================
