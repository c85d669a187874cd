--------------------------- MODULE MCUringTlsLoop ---------------------------
(* A small instance of the TLS loop over io_uring for TLC.                 *)
EXTENDS UringTlsLoop
=============================================================================
