----------------------------- MODULE TlsSockets -----------------------------
(***************************************************************************)
(* The environment of the loops that serve TLS: the sockets of module      *)
(* Sockets, the handshake of each client, and what the TLS library keeps   *)
(* of a connection.  Nothing here is the repository's code.                *)
(*                                                                         *)
(* Cryptography is left out.  A handshake is who spoke last; a record is   *)
(* its bytes, which the library takes from the socket all at once, though  *)
(* it is asked for fewer: what is left is inside it, where poll does not   *)
(* see it.                                                                 *)
(***************************************************************************)
EXTENDS Sockets

CONSTANT Senders   \* clients that send; the others come and go (a bound)

VARIABLES
    hs,       \* how far each client's handshake is
    inside    \* of the bytes not read yet (rx), those inside the library

tls == <<hs, inside>>

(* The client has said hello; the server replied; the client is ready, it  *)
(* has said all; the server has accepted that.  bad: it said nonsense.     *)
Phase == {"none", "hello", "replied", "ready", "done", "bad"}

TlsTypeOK ==
    /\ SocketsTypeOK
    /\ hs \in [Clients -> Phase]
    /\ inside \in [Clients -> 0 .. MaxBytes]

TlsInit ==
    /\ SocketsInit
    /\ hs = [c \in Clients |-> "none"]
    /\ inside = [c \in Clients |-> 0]
-----------------------------------------------------------------------------
(* What a client does, besides opening, reading, closing and resetting.    *)
Speaks(c) ==
    /\ Connected(c)
    /\ \E next \in {"hello", "ready"} \cup (Faults \cap {"handshake"}) :
        /\ hs[c] = CASE next = "hello" -> "none" [] next = "ready" -> "replied"
                     [] OTHER -> hs[c]
        /\ hs[c] \in {"none", "replied"}
        /\ hs' = [hs EXCEPT ![c] = IF next = "handshake" THEN "bad" ELSE next]
    /\ UNCHANGED <<sock, inside>>

SendsRecord(c) ==
    c \in Senders /\ hs[c] \in {"ready", "done"} /\ Sends(c) /\ UNCHANGED tls

(* The sockets as poll sees them.                                          *)
Visible ==
    [c \in Clients |-> [sock[c] EXCEPT
        !.rx = IF hs[c] \in {"hello", "ready", "bad"} THEN 1 ELSE @ - inside[c]]]
-----------------------------------------------------------------------------
(* SSL_do_handshake: "ok", "want" (WANT_READ), or any other error; and     *)
(* how far the handshake is then.  A quick client is ready before the      *)
(* call that replies to it returns.                                        *)
Handshakes(c) ==
    CASE \/ hs[c] = "bad" \/ sock[c].peer = "rst"
         \/ sock[c].peer = "fin" /\ hs[c] # "ready" -> {[ret |-> "error", hs |-> hs[c]]}
      [] hs[c] = "ready" -> {[ret |-> "ok", hs |-> "done"]}
      [] hs[c] = "hello" -> {[ret |-> "want", hs |-> "replied"], [ret |-> "ok", hs |-> "done"]}
      [] OTHER -> {[ret |-> "want", hs |-> hs[c]]}

(* SSL_read until it gives nothing more, into free bytes: how many it gave,*)
(* how many are inside after, and how it ended: the space was filled, or   *)
(* the call "want"s input, found the "end" the client had announced, or    *)
(* failed.  recv on a socket whose TLS is the kernel's: nothing is inside, *)
(* and an end is never an error.                                           *)
ReadsTls(s, free, ktls) ==
    IF free <= s.rx
    THEN {[n |-> free, inside |-> i, end |-> "full"] :
            i \in IF ktls THEN {0} ELSE 0 .. s.rx - free}
    ELSE {[n |-> s.rx, inside |-> 0, end |-> e] :
            e \in CASE s.peer = "up" -> {"want"}
                    [] s.peer = "fin" -> IF ktls THEN {"end"} ELSE {"end", "error"}
                    [] s.peer = "rst" -> {"error"}}

(* SSL_write sends a chunk or, for want of room, nothing; send sends a     *)
(* part of it.  Of two chunks, the second is tried when the first is gone. *)
WritesOne(s, size, ktls) ==
    LET room == SendRoom - s.tx
    IN  IF size <= room THEN size ELSE IF ktls THEN room ELSE 0
Writes(s, first, rest, ktls) ==
    LET one == WritesOne(s, first, ktls)
    IN  IF one < first THEN one ELSE one + WritesOne([s EXCEPT !.tx = @ + one], rest, ktls)
=============================================================================
