-------------------------- MODULE MCKqueueTlsLoop --------------------------
(* A small instance of the TLS kqueue loop for TLC.                        *)
EXTENDS KqueueTlsLoop
=============================================================================
