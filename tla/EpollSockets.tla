---------------------------- MODULE EpollSockets ----------------------------
(***************************************************************************)
(* The environment of an epoll event loop, as its code uses it: the        *)
(* sockets of module Sockets and an edge-triggered epoll instance.         *)
(* Nothing here is the repository's code.                                  *)
(***************************************************************************)
EXTENDS Sockets

Listen == 0      \* the listening socket, as epoll reports it

VARIABLES
    armed,       \* what epoll watches a descriptor for; {}: not registered
    ready,       \* epoll's ready list: sockets with an edge not yet reported
    errno        \* "EAGAIN" or any other value; successful calls leave it

sockets == <<sock, fdOwner, armed, ready>>
kernel  == <<sockets, backlog, errno>>

Errno  == {"EAGAIN", "other"}
Signal == {"IN", "OUT", "HUP"}    \* HUP: EPOLLRDHUP, EPOLLHUP and EPOLLERR

EpollTypeOK ==
    /\ SocketsTypeOK
    /\ armed \in [Fds -> SUBSET Signal]
    /\ ready \subseteq Fds \cup {Listen}
    /\ errno \in Errno

EpollInit ==
    /\ SocketsInit
    /\ armed = [f \in Fds |-> {}]
    /\ ready = {}
    /\ errno = "other"
-----------------------------------------------------------------------------
(* What poll reports of a socket.                                          *)
Readiness(s) ==
    (IF s.rx > 0 \/ s.peer # "up" THEN {"IN"} ELSE {})
    \cup (IF s.tx < SendRoom \/ s.peer = "rst" THEN {"OUT"} ELSE {})
    \cup (IF s.peer # "up" THEN {"HUP"} ELSE {})

(* An edge: the descriptor is queued if epoll watches it for a signal.     *)
Wake(c, signals) ==
    ready' = ready \cup {f \in Fds : fdOwner[f] = c /\ armed[f] \cap signals # {}}

Connect(c) ==
    /\ Connects(c)
    /\ ready' = ready \cup {Listen}

PeerSend(c) == Sends(c) /\ Wake(c, {"IN"}) /\ UNCHANGED backlog

(* A full send queue that drains is an edge.                               *)
PeerRead(c) ==
    /\ Reads(c)
    /\ IF sock[c].tx = SendRoom THEN Wake(c, {"OUT"}) ELSE UNCHANGED ready
    /\ UNCHANGED backlog

PeerClose(c) == Closes(c) /\ Wake(c, {"IN", "HUP"}) /\ UNCHANGED backlog
PeerReset(c) == Resets(c) /\ Wake(c, Signal) /\ UNCHANGED backlog

PeerStep(c) ==
    /\ Connect(c) \/ PeerSend(c) \/ PeerRead(c) \/ PeerClose(c) \/ PeerReset(c)
    /\ UNCHANGED <<fdOwner, armed, errno>>
-----------------------------------------------------------------------------
(* System calls.  Each is a part of an action of the loop.                 *)

(* What epoll_wait reports: at most one event of a socket.                 *)
Pending ==
    {[fd |-> f, ev |-> Readiness(sock[fdOwner[f]]) \cap armed[f], to |-> fdOwner[f]] :
        f \in {g \in ready \ {Listen} : fdOwner[g] # NoClient}}
    \cup (IF Listen \in ready
          THEN {[fd |-> Listen, ev |-> {"IN"}, to |-> NoClient]} ELSE {})

Reported == {e \in Pending : e.ev # {}}

(* epoll_ctl ADD and MOD look at the socket: a signal that is there is     *)
(* reported again.                                                         *)
Arm(f, signals, c) ==
    /\ armed' = [armed EXCEPT ![f] = signals]
    /\ ready' = IF Readiness(sock[c]) \cap signals # {} THEN ready \cup {f} ELSE ready

(* epoll_ctl DEL, then close.                                              *)
Close(f) ==
    /\ sock' = [sock EXCEPT ![fdOwner[f]].phase = "closed"]
    /\ fdOwner' = [fdOwner EXCEPT ![f] = NoClient]
    /\ armed' = [armed EXCEPT ![f] = {}]
    /\ ready' = ready \ {f}
=============================================================================
