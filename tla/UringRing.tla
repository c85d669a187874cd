------------------------------ MODULE UringRing -----------------------------
(***************************************************************************)
(* What the io_uring loops share: the tags of uring_core.h, and the        *)
(* kernel's side of the two queues (not the repository's code).            *)
(*                                                                         *)
(* An operation is prepared in the submission queue, submitted with the    *)
(* queue at the end of a batch, then in the kernel until it completes; its *)
(* completion carries a tag and a result, and nothing else.                *)
(***************************************************************************)
EXTENDS Sockets

CONSTANTS
    RingEntries,    \* RING_ENTRIES: the submission queue's (4096)
    ListenFd        \* m_listen_fd

ASSUME RingEntriesAssumption ==
    /\ RingEntries \in Nat \ {0}
    /\ ListenFd \in Nat \ Fds

VARIABLES
    sq,       \* operations prepared and not submitted
    flying,   \* operations submitted and not completed
    cq        \* completions the loop has not handled, the oldest first

rings == <<sq, flying, cq>>

TagAccept == 2 * ListenFd
TagRecv(fd) == 4 * fd
TagSend(fd) == 4 * fd + 1
FdOfTag(ud) == ud \div 4
IsRecv(ud) == ud % 4 = 0
IsSend(ud) == ud % 4 = 1

(* A receive or a send works on "size" bytes of a buffer from a counter    *)
(* on.                                                                     *)
Op == [kind : {"accept", "recv", "send"}, fd : Fds \cup {ListenFd},
       buffer : Nat, size : Nat]

TagOf(op) == CASE op.kind = "accept" -> TagAccept
               [] op.kind = "recv"   -> TagRecv(op.fd)
               [] op.kind = "send"   -> TagSend(op.fd)

Accept == [kind |-> "accept", fd |-> ListenFd, buffer |-> 0, size |-> 0]

RingTypeOK ==
    /\ SocketsTypeOK
    /\ sq \in Seq(Op) /\ Len(sq) <= RingEntries
    /\ flying \subseteq Op
    /\ cq \in Seq([ud : Nat, res : Int])

(* run() has submitted the first accept.                                   *)
RingInit ==
    /\ SocketsInit
    /\ sq = <<>>
    /\ flying = {Accept}
    /\ cq = <<>>
-----------------------------------------------------------------------------
(* An operation completes.                                                 *)
Complete(op, res) ==
    /\ op \in flying
    /\ flying' = flying \ {op}
    /\ cq' = Append(cq, [ud |-> TagOf(op), res |-> res])
    /\ UNCHANGED sq

CompleteAccept ==
    /\ backlog # <<>>
    /\ \E f \in Fds :
        /\ Lowest(f)
        /\ Complete(Accept, f)
        /\ fdOwner' = [fdOwner EXCEPT ![f] = Head(backlog)]
    /\ sock' = [sock EXCEPT ![Head(backlog)].phase = "open"]
    /\ backlog' = Tail(backlog)

(* No descriptor is left; or any other error of accept.                    *)
CompleteAcceptFails ==
    /\ (backlog # <<>> /\ FreeFds = {}) \/ "accept" \in Faults
    /\ Complete(Accept, -1)
    /\ UNCHANGED <<sock, backlog, fdOwner>>

(* Bytes, the end of the stream (0), or an error; until then it waits.     *)
CompleteRecv(op) ==
    /\ op.kind = "recv"
    /\ LET c == fdOwner[op.fd]
           n == IF op.size < sock[c].rx THEN op.size ELSE sock[c].rx
       IN  IF sock[c].rx > 0
           THEN /\ Complete(op, n)
                /\ sock' = [sock EXCEPT ![c].rx = @ - n, ![c].in = @ + n]
           ELSE /\ (AtEnd(c) /\ Complete(op, 0)) \/ (RecvReset(c) /\ Complete(op, -1))
                /\ UNCHANGED sock
    /\ UNCHANGED <<backlog, fdOwner>>

CompleteSend(op) ==
    /\ op.kind = "send"
    /\ LET c == fdOwner[op.fd]
           room == SendRoom - sock[c].tx
           n == IF op.size < room THEN op.size ELSE room
       IN  IF SendBroken(c)
           THEN Complete(op, -1) /\ UNCHANGED sock
           ELSE /\ ~NoRoom(c) /\ Complete(op, n)
                /\ sock' = [sock EXCEPT ![c].tx = @ + n, ![c].out = @ + n]
    /\ UNCHANGED <<backlog, fdOwner>>

KernelAccept == CompleteAccept \/ CompleteAcceptFails
KernelMove(f) == \E op \in flying : op.fd = f /\ (CompleteRecv(op) \/ CompleteSend(op))

PeerStep(c) ==
    /\ \/ Connects(c)
       \/ (Sends(c) \/ Reads(c) \/ Closes(c) \/ Resets(c)) /\ UNCHANGED backlog
    /\ UNCHANGED fdOwner

(* close: nothing, if the descriptor is not one.                           *)
Close(f) ==
    IF f \in Fds \ FreeFds
    THEN /\ sock' = [sock EXCEPT ![fdOwner[f]].phase = "closed"]
         /\ fdOwner' = [fdOwner EXCEPT ![f] = NoClient]
    ELSE UNCHANGED <<sock, fdOwner>>

(* io_uring_submit.                                                        *)
Submit ==
    /\ flying' = flying \cup {sq[i] : i \in DOMAIN sq}
    /\ sq' = <<>>
=============================================================================
