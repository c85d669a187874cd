------------------------------- MODULE Sockets ------------------------------
(***************************************************************************)
(* Clients and the TCP sockets between them and an event loop: the         *)
(* environment all loops share.  Nothing here is the repository's code.    *)
(*                                                                         *)
(* Bytes are counted, not named: fixed_size_buffer keeps their order (see  *)
(* FixedSizeBuffer), a loop only decides how many move, and when.          *)
(***************************************************************************)
EXTENDS Integers, Sequences, FiniteSets

CONSTANTS
    Clients,     \* peers; each connects at most once
    Fds,         \* descriptors the process may open for connections
    MaxBytes,    \* bytes a client sends at most (a bound of the model)
    Window,      \* bytes it sends at most before it has read them back
    SendRoom,    \* bytes a socket's send queue holds
    Faults       \* what may go wrong: see FaultKinds

FaultKinds == {"fin", "rst", "eintr", "fcntl", "epoll_add", "accept", "handshake", "setup"}

NoClient == "no client"

ASSUME SocketAssumption ==
    /\ Fds \subseteq Nat \ {0} /\ IsFiniteSet(Fds)
    /\ NoClient \notin Clients
    /\ MaxBytes \in Nat /\ Window \in Nat
    /\ SendRoom \in Nat \ {0}
    /\ Faults \subseteq FaultKinds

VARIABLES
    sock,        \* each client's connection, both of its ends
    backlog,     \* connections the kernel has completed and nobody accepted
    fdOwner      \* the client a descriptor is connected to

(* rx: received by the kernel, not read by the loop.  tx: sent by the      *)
(* loop, not read by the client.  in and out: what the loop has read and   *)
(* sent in all.                                                            *)
Socket == [phase : {"new", "queued", "open", "closed"},
           peer  : {"up", "fin", "rst"},
           rx    : 0 .. MaxBytes, tx : 0 .. SendRoom, in : Nat, out : Nat]

SocketsTypeOK ==
    /\ sock \in [Clients -> Socket]
    /\ backlog \in Seq(Clients)
    /\ fdOwner \in [Fds -> Clients \cup {NoClient}]

SocketsInit ==
    /\ sock = [c \in Clients |-> [phase |-> "new", peer |-> "up",
                                  rx |-> 0, tx |-> 0, in |-> 0, out |-> 0]]
    /\ backlog = <<>>
    /\ fdOwner = [f \in Fds |-> NoClient]
-----------------------------------------------------------------------------
(* What a client does to its socket.                                       *)
Connected(c) == sock[c].phase \in {"queued", "open"} /\ sock[c].peer = "up"

Connects(c) ==
    /\ sock[c].phase = "new"
    /\ sock' = [sock EXCEPT ![c].phase = "queued"]
    /\ backlog' = Append(backlog, c)

Sent(c)   == sock[c].rx + sock[c].in
Echoes(c) == sock[c].out - sock[c].tx

Sends(c) ==
    /\ Connected(c)
    /\ \E n \in 1 .. MaxBytes - Sent(c) :
        /\ Sent(c) + n - Echoes(c) <= Window
        /\ sock' = [sock EXCEPT ![c].rx = @ + n]

Reads(c) ==
    /\ Connected(c)
    /\ \E n \in 1 .. sock[c].tx : sock' = [sock EXCEPT ![c].tx = @ - n]

Closes(c) ==
    /\ "fin" \in Faults
    /\ Connected(c)
    /\ sock' = [sock EXCEPT ![c].peer = "fin"]

(* A reset drops what was not sent yet; what was received stays readable.  *)
ResetOf(c) == sock' = [sock EXCEPT ![c].peer = "rst", ![c].tx = 0]

(* What reaches a client that has closed is answered with a reset.         *)
AnswersReset(c) ==
    /\ sock[c].phase = "open" /\ sock[c].peer = "fin" /\ sock[c].tx > 0
    /\ ResetOf(c)

Resets(c) ==
    \/ /\ "rst" \in Faults
       /\ sock[c].phase \in {"queued", "open"} /\ sock[c].peer \in {"up", "fin"}
       /\ ResetOf(c)
    \/ AnswersReset(c)
-----------------------------------------------------------------------------
(* What system calls find.                                                 *)
FreeFds == {f \in Fds : fdOwner[f] = NoClient}

(* accept returns the lowest descriptor that is free.                      *)
Lowest(f) == f \in FreeFds /\ \A g \in FreeFds : f <= g

(* recv and send on the connection of c, with no byte moved.               *)
AtEnd(c)        == sock[c].rx = 0 /\ sock[c].peer = "fin"
NothingYet(c)   == sock[c].rx = 0 /\ sock[c].peer = "up"
RecvReset(c)    == sock[c].rx = 0 /\ sock[c].peer = "rst"
NoRoom(c)       == sock[c].tx = SendRoom /\ sock[c].peer # "rst"
SendBroken(c)   == sock[c].peer = "rst"
=============================================================================
