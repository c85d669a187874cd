---------------------------- MODULE MCKqueueLoop ----------------------------
(* A small instance of the kqueue loop for TLC.                            *)
EXTENDS KqueueLoop
=============================================================================
