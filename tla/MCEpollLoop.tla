----------------------------- MODULE MCEpollLoop ----------------------------
(* Small instances of the loop for TLC.                                    *)
EXTENDS EpollLoop, TLC

(* Clients differ by nothing but their name.                               *)
ClientSymmetry == Permutations(Clients)
=============================================================================
