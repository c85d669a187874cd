------------------------------ MODULE Streams ------------------------------
(***************************************************************************)
(* The blocking streams of the library: tcp_stream (nix/tcp_stream.cpp),   *)
(* the TLS streams over it (tls/tcp_tls_stream.cpp), the acceptors of both *)
(* and the strings stream.h frames: a client and a server, each a thread   *)
(* that calls its stream, and the connections between them.                *)
(*                                                                         *)
(* A call is a loop of system calls, and each of these is a step.  Bytes   *)
(* are numbers; the two of a string's length are one of them.  Encryption  *)
(* is whose keys a connection's two ends use.  Of a socket's options only  *)
(* its timeouts are kept; non-blocking mode is a timeout that has passed.  *)
(* Variants are plausible bugs.                                            *)
(***************************************************************************)
EXTENDS Integers, SequencesExt

CONSTANTS
    MaxConnections, Room,           \* bounds: connections, bytes under way,
    Writers, MaxStrings, Lengths,   \* who writes, how many strings, how long
    LengthModulus,       \* values of a uint16_t
    Kinds,               \* which streams: "tcp", "tls"
    Ktls                 \* ends that may ask for kernel TLS

Ends == {"client", "server"}
Other(e) == CHOOSE o \in Ends : o # e

ASSUME StreamAssumption ==
    /\ MaxConnections \in Nat /\ MaxStrings \in Nat
    /\ Lengths \subseteq Nat
    /\ Room \in Nat \ {0} /\ LengthModulus \in Nat \ {0, 1}
    /\ Kinds \subseteq {"tcp", "tls"} /\ Ktls \subseteq Ends /\ Writers \subseteq Ends

VARIABLES
    kind,       \* of all streams
    acceptor,   \* its m_socket: "none", "made", "open"
    waiting,    \* connections nobody has accepted
    chan,       \* the connections made so far
    obj,        \* the stream of each end
    call        \* the call each end's thread is in

vars == <<kind, acceptor, waiting, chan, obj, call>>

(* A string's frame: its length, its bytes (no two of an end alike).       *)
Text(k, n)  == [i \in 1 .. n |-> 10 * k + i]
Header(n)   == <<n % LengthModulus>>
Octet       == Nat

(* The 16 bits can name the length of every string.                        *)
LengthsFit == Lengths \subseteq 0 .. LengthModulus - 1

(* wire: bytes on the way to an end; fd: what has become of its descriptor,*)
(* leaked when it is open and its stream is lost; sent: strings; got: the  *)
(* caller's string after each read; torn: a call on the connection threw.  *)
Channel ==
    [wire : [Ends -> Seq(Octet)], fd : [Ends -> {"none", "open", "leaked", "closed"}],
     sent : [Ends -> Seq(Seq(Octet))], got : [Ends -> Seq(Seq(Octet))],
     up : SUBSET Ends, keys : [Ends -> {"own", "client's", "twice"}],
     torn : BOOLEAN, reset : BOOLEAN]

(* conn: 0 when m_socket is -1, -1 when it is a socket that could not be   *)
(* connected.  timed: the options were applied to the socket.              *)
Object ==
    [conn : -1 .. MaxConnections, timed : BOOLEAN, ssl : {"none", "live", "freed"},
     ktls : BOOLEAN]

(* pieces: what is left to write; left and part: what is left to read, and *)
(* what was read.                                                          *)
Call == [op : {"idle", "handshake", "write", "writev", "length", "text", "in", "dead"},
         pieces : Seq(Seq(Octet)), left : Nat, part : Seq(Octet)]

StreamsTypeOK ==
    /\ kind \in {"tcp", "tls"} /\ acceptor \in {"none", "made", "open"}
    /\ waiting \in Seq(DOMAIN chan)
    /\ chan \in Seq(Channel) /\ Len(chan) <= MaxConnections
    /\ obj \in [Ends -> Object] /\ call \in [Ends -> Call]
    /\ \A id \in DOMAIN chan, e \in Ends : Len(chan[id].wire[e]) <= Room
    /\ \A e \in Ends : Len(call[e].part) + call[e].left < LengthModulus

NoObject == [conn |-> 0, timed |-> FALSE, ssl |-> "none", ktls |-> FALSE]
Idle == [op |-> "idle", pieces |-> <<>>, left |-> 0, part |-> <<>>]

Init ==
    /\ kind \in Kinds
    /\ acceptor = "none" /\ waiting = <<>> /\ chan = <<>>
    /\ obj = [e \in Ends |-> NoObject] /\ call = [e \in Ends |-> Idle]

Conn(e)  == obj[e].conn
Link(e)  == chan[Conn(e)]
Open(e)  == Conn(e) > 0
Free(e)  == call[e].op = "idle"
Peer(e)  == Link(e).fd[Other(e)]
Wire(e)  == Link(e).wire[e]
Lesser(x, y) == IF x <= y THEN x ELSE y
Does(e, op) == call' = [call EXCEPT ![e] = [Idle EXCEPT !.op = op]]
-----------------------------------------------------------------------------
(* close: bytes that were not read are lost, and so is what the other end  *)
(* has not read; the other end gets a reset.                               *)
Closed(c, e) ==
    LET lost == c.wire[e] # <<>>
    IN  [c EXCEPT !.fd[e] = "closed", !.wire[e] = <<>>, !.reset = @ \/ lost,
                  !.wire[Other(e)] = IF lost THEN <<>> ELSE @]

(* The listening socket closes on a connection that nobody accepted.       *)
Refused(c) ==
    IF c.fd["server"] = "none"
    THEN [c EXCEPT !.fd["server"] = "closed", !.reset = TRUE, !.wire = [e \in Ends |-> <<>>]]
    ELSE c

(* An assertion fails: the end's process is gone, and the server's with    *)
(* its acceptor.                                                           *)
Dies(e) ==
    /\ Does(e, "dead")
    /\ chan' = [id \in DOMAIN chan |->
                    IF chan[id].fd[e] \in {"open", "leaked"} THEN Closed(chan[id], e)
                    ELSE IF e = "server" THEN Refused(chan[id]) ELSE chan[id]]
    /\ obj' = [obj EXCEPT ![e] = NoObject]
    /\ acceptor' = IF e = "server" THEN "none" ELSE acceptor
    /\ waiting' = IF e = "server" THEN <<>> ELSE waiting
    /\ UNCHANGED kind

(* A call throws.                                                          *)
Throws(e) ==
    /\ Does(e, "idle")
    /\ chan' = [chan EXCEPT ![Conn(e)].torn = TRUE]
-----------------------------------------------------------------------------
(* open, which may throw before its socket is made and after it.  A tcp    *)
(* acceptor asserts that it has none, and close keeps the number; a TLS one*)
(* makes a new tcp acceptor.                                               *)
AcceptorOpens ==
    /\ Free("server")
    /\ IF kind = "tcp" /\ acceptor # "none" THEN Dies("server")
       ELSE /\ acceptor # "open" /\ acceptor' \in {acceptor, "none", "made", "open"}
            /\ UNCHANGED <<kind, waiting, chan, obj, call>>

(* close.  A second one finds nothing that has the number: the server's    *)
(* process makes no descriptor before its acceptor is open again.          *)
AcceptorCloses ==
    /\ Free("server") /\ acceptor = "open"
    /\ acceptor' = "made" /\ waiting' = <<>>
    /\ chan' = [id \in DOMAIN chan |-> Refused(chan[id])]
    /\ UNCHANGED <<kind, obj, call>>

(* accept: a stream whose options are stored and not applied.              *)
Accept ==
    /\ Free("server") /\ acceptor = "open" /\ Conn("server") = 0 /\ waiting # <<>>
    /\ waiting' = Tail(waiting)
    /\ chan' = [chan EXCEPT ![Head(waiting)].fd["server"] = "open"]
    /\ obj' = [obj EXCEPT !["server"] = [NoObject EXCEPT !.conn = Head(waiting)]]
    /\ Does("server", IF kind = "tls" THEN "handshake" ELSE "idle")
    /\ UNCHANGED <<kind, acceptor>>

(* connect, which asserts that m_socket is -1.  The name or the socket may *)
(* fail it, and then the host, which leaves the socket.                    *)
ConnectSucceeds ==
    /\ acceptor = "open" /\ Len(chan) < MaxConnections
    /\ chan' = Append(chan,
            [wire |-> [e \in Ends |-> <<>>],
             fd |-> [e \in Ends |-> IF e = "client" THEN "open" ELSE "none"],
             sent |-> [e \in Ends |-> <<>>], got |-> [e \in Ends |-> <<>>],
             up |-> {}, keys |-> [e \in Ends |-> "own"],
             torn |-> FALSE, reset |-> FALSE])
    /\ waiting' = Append(waiting, Len(chan'))
    /\ obj' = [obj EXCEPT !["client"] = [@ EXCEPT !.conn = Len(chan'), !.timed = TRUE]]
    /\ Does("client", IF kind = "tls" THEN "handshake" ELSE "idle")

ConnectFails ==
    /\ \E made \in BOOLEAN :
        obj' = [obj EXCEPT !["client"] = [@ EXCEPT !.conn = IF made THEN -1 ELSE 0,
                                                   !.timed = made]]
    /\ UNCHANGED <<chan, waiting, call>>

Connect ==
    /\ Free("client")
    /\ IF Conn("client") # 0 THEN Dies("client")
       ELSE (ConnectSucceeds \/ ConnectFails) /\ UNCHANGED <<kind, acceptor>>

(* try_enable_fd_ktls, told of either end that it is the client's: all of  *)
(* it, nothing, or the sending half only, which counts as nothing.         *)
KtlsOutcomes(e) ==
    {[ktls |-> FALSE, keys |-> "own"]} \cup
    (IF e \in Ktls THEN {[ktls |-> TRUE, keys |-> IF e = "client" THEN "own" ELSE "client's"],
                         [ktls |-> FALSE, keys |-> "twice"]} ELSE {})

(* SSL_connect and SSL_accept: each answers the other's messages.          *)
Answered(e) ==
    /\ Peer(e) = "open"
    /\ \/ Conn(Other(e)) = Conn(e) /\ call[Other(e)].op = "handshake"
       \/ Other(e) \in Link(e).up

Handshake(e) ==
    /\ call[e].op = "handshake" /\ Answered(e)
    /\ \E o \in KtlsOutcomes(e) :
        /\ obj' = [obj EXCEPT ![e].ssl = "live", ![e].ktls = o.ktls]
        /\ chan' = [chan EXCEPT ![Conn(e)].up = @ \cup {e}, ![Conn(e)].keys[e] = o.keys]
    /\ Does(e, "idle")
    /\ UNCHANGED <<kind, acceptor, waiting>>

(* Who waits in a system call, and for how long: sockets without options,  *)
(* and a library that is asked again when the socket's time is up, wait    *)
(* for ever.                                                               *)
Patient(e) == kind = "tls" /\ ~obj[e].ktls /\ call[e].op # "handshake"
Timed(e)   == obj[e].timed /\ ~Patient(e)

(* The handshake fails: refused, ended by the other end, out of time.  The *)
(* client's stream is left connected; the server's is lost, and with it    *)
(* its descriptor.                                                         *)
HandshakeFails(e) ==
    /\ call[e].op = "handshake"
    /\ Peer(e) = "closed" \/ Timed(e) \/ Answered(e)
    /\ Does(e, "idle")
    /\ chan' = [chan EXCEPT ![Conn(e)].torn = TRUE,
                            ![Conn(e)].fd[e] = IF e = "server" THEN "leaked" ELSE @]
    /\ obj' = [obj EXCEPT ![e] = IF e = "server" THEN NoObject ELSE [@ EXCEPT !.ssl = "live"]]
    /\ UNCHANGED <<kind, acceptor, waiting>>

(* set_options: the options are applied to the socket.                     *)
SetOptions(e) ==
    /\ Free(e) /\ Conn(e) # 0 /\ ~obj[e].timed
    /\ obj' = [obj EXCEPT ![e].timed = TRUE]
    /\ UNCHANGED <<kind, acceptor, waiting, chan, call>>

(* Variant: a server's stream forgets its descriptor instead.              *)
ForgetsDescriptor(e) == obj[e].conn \in {-1, 0} \/ e = "server"

HasNothingToClose(e) == obj[e].conn \in {-1, 0}

(* disconnect.  The server's TLS stream frees its SSL object and keeps the *)
(* pointer; the destructor then frees it again.                            *)
Disconnect(e) ==
    /\ Free(e) /\ Conn(e) # 0
    /\ chan' = IF HasNothingToClose(e) THEN chan ELSE [chan EXCEPT ![Conn(e)] = Closed(@, e)]
    /\ obj' = [obj EXCEPT ![e] = [NoObject EXCEPT
                    !.ssl = IF e = "server" /\ kind = "tls" THEN "freed" ELSE "none"]]
    /\ UNCHANGED <<kind, acceptor, waiting, call>>

(* The destructor, and for the client a stream to replace it.              *)
Destroy(e) ==
    /\ Free(e) /\ obj[e] # NoObject
    /\ IF obj[e].ssl = "freed" THEN Dies(e)
       ELSE /\ chan' = IF HasNothingToClose(e) THEN chan
                       ELSE [chan EXCEPT ![Conn(e)] = Closed(@, e)]
            /\ obj' = [obj EXCEPT ![e] = NoObject]
            /\ UNCHANGED <<kind, acceptor, waiting, call>>
-----------------------------------------------------------------------------
(* Variant: a piece of which a part went out is written whole.             *)
SkipPieces(pieces, n) ==
    FoldLeft(LAMBDA a, p : IF a.skip >= Len(p) THEN [a EXCEPT !.skip = @ - Len(p)]
                           ELSE [skip |-> 0, left |-> Append(a.left, p)],
             [skip |-> n, left |-> <<>>], pieces).left

(* write_v's loop after writev: n bytes are skipped, the rest is written.  *)
Skip(pieces, n) ==
    FoldLeft(LAMBDA a, p : IF a.skip >= Len(p) THEN [a EXCEPT !.skip = @ - Len(p)]
                           ELSE [skip |-> 0, left |-> Append(a.left, SubSeq(p, a.skip + 1, Len(p)))],
             [skip |-> n, left |-> <<>>], pieces).left

Ready(e) == Free(e) /\ Open(e) /\ (kind = "tls" => obj[e].ssl = "live" /\ e \in Link(e).up)

(* write<std::string>, two writes; or write_v of the same two pieces.  TLS *)
(* gathers them, unless the kernel encrypts.                               *)
WriteString(e) ==
    /\ Ready(e) /\ e \in Writers /\ Len(Link(e).sent[e]) < MaxStrings
    /\ \E n \in Lengths, op \in {"write", "writev"} :
        LET text == Text(Len(Link(e).sent[e]) + 1, n)
        IN  /\ chan' = [chan EXCEPT ![Conn(e)].sent[e] = Append(@, text)]
            /\ call' = [call EXCEPT ![e] = [Idle EXCEPT !.op = op,
                    !.pieces = IF op = "writev" /\ Patient(e) THEN <<Header(n) \o text>>
                               ELSE <<Header(n), text>>]]
    /\ UNCHANGED <<kind, acceptor, waiting, obj>>

Writes(e) == call[e].op \in {"write", "writev"} /\ call[e].pieces # <<>>
Space(e)  == Room - Len(chan[Conn(e)].wire[Other(e)])
Current(e) == IF call[e].op = "writev" THEN FlattenSeq(call[e].pieces) ELSE Head(call[e].pieces)

(* send, writev or SSL_write, whose bytes go out as the socket has room.   *)
SendStep(e) ==
    /\ Writes(e) /\ Current(e) # <<>>
    /\ \E n \in 1 .. Lesser(Len(Current(e)), Space(e)) :
        /\ chan' = [chan EXCEPT ![Conn(e)].wire[Other(e)] =
                        IF Peer(e) = "closed" THEN <<>> ELSE @ \o SubSeq(Current(e), 1, n)]
        /\ call' = [call EXCEPT ![e].op = "write", ![e].pieces =
                        Skip(IF call[e].op = "writev" THEN @ ELSE <<Head(@)>>, n) \o
                        (IF call[e].op = "writev" THEN <<>> ELSE Tail(@))]
    /\ UNCHANGED <<kind, acceptor, waiting, obj>>

(* A write of no bytes: nothing, but an assertion of the TLS streams.      *)
WriteNothing(e) ==
    /\ Writes(e) /\ Current(e) = <<>>
    /\ IF kind = "tls" THEN Dies(e)
       ELSE /\ call' = [call EXCEPT ![e].pieces = Tail(@)]
            /\ UNCHANGED <<kind, acceptor, waiting, chan, obj>>

SendFails(e) ==
    /\ Writes(e) /\ Current(e) # <<>>
    /\ Peer(e) = "closed" \/ (Space(e) = 0 /\ Timed(e))
    /\ Throws(e)
    /\ UNCHANGED <<kind, acceptor, waiting, obj>>

WriteEnds(e) ==
    /\ call[e].op \in {"write", "writev"} /\ call[e].pieces = <<>>
    /\ Does(e, "idle")
    /\ UNCHANGED <<kind, acceptor, waiting, chan, obj>>
-----------------------------------------------------------------------------
(* read<std::string>: its length first.                                    *)
ReadString(e) ==
    /\ Ready(e)
    /\ call' = [call EXCEPT ![e] = [Idle EXCEPT !.op = "length", !.left = 1]]
    /\ UNCHANGED <<kind, acceptor, waiting, chan, obj>>

(* stream_in: all, until the end; tcp_stream's asserts.                    *)
StreamIn(e) ==
    /\ Ready(e)
    /\ IF kind = "tcp" THEN Dies(e)
       ELSE /\ call' = [call EXCEPT ![e] = [Idle EXCEPT !.op = "in", !.left = 1]]
            /\ UNCHANGED <<kind, acceptor, waiting, chan, obj>>

IsReading(e) == call[e].op \in {"length", "text", "in"}

(* Whether what arrives at e was encrypted with the keys e decrypts with.  *)
Readable(e) ==
    kind = "tls" => /\ Link(e).keys[Other(e)] = "own"
                    /\ obj[e].ktls => e = "client"

(* What the caller's string may hold before a read: nothing, or what an    *)
(* earlier read left in it.                                                *)
Untouched(got) == {<<>>} \cup Range(got)

(* recv or SSL_read gives n bytes; a length read says how many follow, and *)
(* when none do the caller's string stays as it was.                       *)
RecvStep(e) ==
    /\ IsReading(e) /\ Readable(e)
    /\ \E n \in 1 .. Lesser(Len(Wire(e)), IF call[e].op = "in" THEN Room ELSE call[e].left),
          old \in Untouched(Link(e).got[e]) :
        LET bytes == SubSeq(Wire(e), 1, n)
            part  == call[e].part \o bytes
            size  == bytes[1] % LengthModulus
            ended == \/ call[e].op = "length" /\ size = 0
                     \/ call[e].op = "text" /\ n = call[e].left
        IN  /\ chan' = [chan EXCEPT ![Conn(e)].wire[e] = SubSeq(@, n + 1, Len(@)),
                            ![Conn(e)].got[e] =
                                IF ended THEN Append(@, IF call[e].op = "text" THEN part ELSE old)
                                ELSE @,
                            ![Conn(e)].torn = @ \/ call[e].op = "in"]
            /\ call' = [call EXCEPT ![e] =
                    CASE ended -> Idle
                      [] call[e].op = "length" /\ size > 0 -> [Idle EXCEPT !.op = "text", !.left = size]
                      [] call[e].op = "text" /\ n < @.left -> [@ EXCEPT !.left = @ - n, !.part = part]
                      [] call[e].op = "in" -> @]
    /\ UNCHANGED <<kind, acceptor, waiting, obj>>

(* Variant: a recv of nothing is taken for progress (win/tcp_stream.cpp).  *)
HearsTimeout(e) == Timed(e)
Hears(e)        == Timed(e) \/ Peer(e) = "closed"

(* The end, a reset, the timeout, or bytes that do not decrypt.  stream_in *)
(* takes an end that was announced for its own.                            *)
RecvFails(e) ==
    /\ IsReading(e)
    /\ \/ Wire(e) = <<>> /\ Hears(e)
       \/ Wire(e) # <<>> /\ ~Readable(e)
    /\ call[e].op = "in" =>
            Peer(e) # "closed" \/ Link(e).reset \/ Wire(e) # <<>> \/ call[Other(e)].op = "dead"
    /\ Throws(e)
    /\ UNCHANGED <<kind, acceptor, waiting, obj>>

StreamInEnds(e) ==
    /\ call[e].op = "in" /\ Wire(e) = <<>> /\ Peer(e) = "closed" /\ ~Link(e).reset
    /\ Does(e, "idle")
    /\ UNCHANGED <<kind, acceptor, waiting, chan, obj>>

(* read_once: what one recv gives; nothing, a timeout and the end are 0.   *)
ReadOnce(e) ==
    /\ Ready(e) /\ Wire(e) # <<>> /\ Readable(e)
    /\ \E n \in 1 .. Len(Wire(e)) :
        chan' = [chan EXCEPT ![Conn(e)].wire[e] = SubSeq(@, n + 1, Len(@)), ![Conn(e)].torn = TRUE]
    /\ UNCHANGED <<kind, acceptor, waiting, obj, call>>
-----------------------------------------------------------------------------
CallStep(e) ==
    \/ Handshake(e) \/ HandshakeFails(e)
    \/ SendStep(e) \/ WriteNothing(e) \/ SendFails(e) \/ WriteEnds(e)
    \/ RecvStep(e) \/ RecvFails(e) \/ StreamInEnds(e)

Calls(e) ==
    \/ SetOptions(e) \/ Disconnect(e) \/ Destroy(e)
    \/ WriteString(e) \/ ReadString(e) \/ StreamIn(e) \/ ReadOnce(e)

(* Nobody calls anything any more, or everybody waits.                     *)
Rests == UNCHANGED vars

Next ==
    \/ AcceptorOpens \/ AcceptorCloses \/ Accept \/ Connect \/ Rests
    \/ \E e \in Ends : CallStep(e) \/ Calls(e)

Spec == Init /\ [][Next]_vars

(* A system call that can return does.                                     *)
Fairness == \A e \in Ends : WF_vars(CallStep(e))
FairSpec == Spec /\ Fairness
-----------------------------------------------------------------------------
(* The strings an end has read are the first the other wrote, in pieces    *)
(* however small, by write or by write_v, as long as no call threw (a read *)
(* that did has taken bytes with it) and nobody read past the frames; but  *)
(* for an empty one, whose reader is left with the string it had.          *)
FramesInOrder ==
    \A id \in DOMAIN chan, e \in Ends :
        LET sent == chan[id].sent[Other(e)]
            got  == chan[id].got[e]
        IN  chan[id].torn \/ /\ Len(got) <= Len(sent)
                             /\ \A k \in 1 .. Len(got) : got[k] = sent[k] \/ sent[k] = <<>>

(* A descriptor is open only while a stream holds it, or an accept will.   *)
(* That the server's leaks with a failed handshake is HandshakeFails.      *)
DescriptorsHeld ==
    \A id \in DOMAIN chan, e \in Ends : chan[id].fd[e] = "open" => Conn(e) = id

(* What the streams know of their connections agrees with what these are.  *)
Consistent == StreamsTypeOK /\ DescriptorsHeld

(* A call ends, by its timeout at the latest, or when the other end closes;*)
(* where no timeout was applied and while the other is there, it may not.  *)
Busy(e) == call[e].op \notin {"idle", "dead"}

CallsEnd ==
    \A e \in Ends : (Busy(e) /\ (Timed(e) \/ Peer(e) = "closed")) ~> ~Busy(e)

(* What test/README.md:105 says of an acceptor's options: "Unix acceptor   *)
(* does apply options".  With them every call would end, an accepted       *)
(* stream's too.                                                           *)
EveryCallEnds == \A e \in Ends : Busy(e) ~> ~Busy(e)
=============================================================================
