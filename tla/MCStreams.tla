----------------------------- MODULE MCStreams -----------------------------
(* A small instance of the streams for TLC.                                *)
EXTENDS Streams
=============================================================================
