-------------------------- MODULE MCWatchRegistry --------------------------
(* Three students and three instructor sockets.                            *)
EXTENDS WatchRegistry
=============================================================================
