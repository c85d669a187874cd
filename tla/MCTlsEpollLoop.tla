--------------------------- MODULE MCTlsEpollLoop ---------------------------
(* A small instance of the TLS epoll loop for TLC.                         *)
EXTENDS TlsEpollLoop
=============================================================================
