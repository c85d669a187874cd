--------------------------- MODULE MCUringTcpLoop ---------------------------
(* Small instances of the io_uring loop for TLC.                           *)
EXTENDS UringTcpLoop, TLC

(* Clients differ by nothing but their name.                               *)
ClientSymmetry == Permutations(Clients)
=============================================================================
