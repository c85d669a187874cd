# hope-io in TLA+

hope-io is a C++ library of TCP, TLS and UDP streams and of event loops that
serve many connections from one thread, over epoll, kqueue or io_uring, in the
clear or under TLS.  This directory models its core: the ring buffer every loop
reads into and sends from, the pool the buffers come from, the six loops with
the clients and the kernel around them, and the blocking streams.  TLC checks
the models on small instances; TLAPS proves for every instance the safety of all
of them: each invariant and each action property of the passing runs (those of the
streams for strings whose length 16 bits can name, those of the io_uring TCP loop for a
listening descriptor that is odd), and the refinements.

All paths below are relative to `src/lib/hope-io/net` unless they say otherwise.

## 1. The system

| part | source | state | operations | module |
|---|---|---|---|---|
| ring buffer | `event_loop.h:36-189` | two counters that only grow (and wrap at 2^64), the bytes | `read`, `write`, `consume_free`, `consume_used`, regions for asynchronous calls, `advance_*`, `reset` | `FixedSizeBuffer` over `RingCounters`, promise in `ByteQueue` |
| buffer pool | `event_loop.h:220-246` | a stack of free buffers | `allocate`, `redeem`, `prepool`, `drain` | `BufferPool` |
| epoll loop | `linux/event_loop_impl.h` | `m_running`, connection table, pool, the batch of events | `run`, `stop`, accept, read, write, apply a state, remove | `EpollLoop` over `EpollSockets` |
| io_uring loop | `uring/uring_tcp_event_loop.h`, `uring/uring_core.h` | `m_running`, table with the operation each connection waits for, pool, the two queues | `run`, `stop`, accept, receive and send completions, submissions, remove | `UringTcpLoop` over `UringRing` |
| TLS loop, epoll | `linux/tls_event_loop_impl.h` | as the epoll loop, plus an SSL object of each connection and the handshakes that are pending | as above, plus accept, retry and fail a handshake; the destructor | `TlsEpollLoop` over `TlsSockets` and `EpollSockets` |
| TLS loop, io_uring | `uring/uring_tls_event_loop.h` | as above, and the operation each connection waits for | accepts by epoll, polls through the ring, kernel TLS through the ring | `UringTlsLoop` over `TlsSockets` |
| kqueue loop | `nix/event_loop_impl.h` | `m_kq`, `m_acceptor`, a set of connections, the filters | as the epoll loop; `stop()` closes what the loop uses | `KqueueLoop` |
| TLS loop, kqueue | `nix/tls_event_loop_impl.h` | as both of these | as both of these | `KqueueTlsLoop` over `TlsSockets` |
| streams and acceptors, framing | `nix/tcp_stream.cpp`, `nix/tcp_acceptor.cpp`, `stream.h` | a socket, its options | open, accept, connect, disconnect, read, write, writev, `stream_in`, `read_once`, strings | `Streams` |
| TLS streams and acceptors, kernel TLS | `tls/*` | an `SSL*` besides | as above, handshakes, `try_enable_ktls` | `Streams` |
| UDP | `nix/udp_*` | a socket | open, send, receive, close | not modelled, see section 8 |
| HTTP, factories, Windows, samples | `../request`, `nix/nix_init.cpp`, `win/*` | none of their own | | not modelled, see section 8 |

**How the parts interact.**  A loop owns a pool and a table of connections.  An
accepted socket gets a buffer from the pool and a place in the table; the
application's four callbacks (`on_connect`, `on_read`, `on_write`, `on_err`)
are given the connection and answer the state it goes on in: `idle`, `read`,
`write` or `die`.  In `read` the loop fills the buffer from the socket, in
`write` it empties it into the socket, `die` closes the socket and gives the
buffer back.  The next connection may get both the same descriptor and the same
buffer, so everything that refers to a connection by one of them (an event of a
batch, a completion, a local variable of a handler) can outlive it.

**What is hard.**

* *Clients act at any time.*  Between two system calls of a handler bytes
  arrive, peers close or reset, more clients connect.
* *Edges.*  epoll reports a change once (EPOLLET).  A handler that does not read
  to the end, or a state that is not watched, can lose the only report there is.
* *Reuse.*  Descriptors are reused lowest first, buffers last in first out: both
  immediately.
* *Partial failure.*  An error inside the lambda of `consume_free` or
  `consume_used` removes the connection under the function that is running on
  its buffer.
* *Full and empty.*  A ring whose positions coincide is either; transfers split
  at the end of the array; counters wrap.
* *Queues with limits.*  `max_accepts_per_tick`, the submission queue, the
  backlog, the descriptors.
* *`stop()`* comes from another thread and is only looked at between batches; the
  kqueue loop's also closes the queue and deletes the acceptor.
* *TLS keeps bytes of its own.*  A handshake wants input, output, or fails, at
  accept or later; the library takes whole records from the socket, and of what stays
  inside it no event tells.
* *Operations outlive their connection.*  A poll or a receive in the kernel completes
  after its descriptor was closed and given to the next connection.
* *Blocking calls* end when the kernel lets them, in the middle of a frame if it is by error.

**What makes each part correct.**

* Ring buffer: it is a bounded FIFO queue of bytes, whatever sequence of calls moves
  it; nothing unread is overwritten, nothing read that was not written; a chunk
  loop moves all it was asked to; regions are empty only when there is nothing.
* Pool and table: each buffer is in exactly one place; a closed connection's
  buffer comes back, empty.
* Loops: a connection is the state machine the callbacks drive; an event or
  completion is handled for the connection it belongs to, in the state its
  handler expects; the bytes of a connection are its own; nothing sent is
  forgotten; closed and reset connections are removed; the server keeps
  accepting; `stop()` ends `run()`.
* TLS loops: the same, and a handshake ends, one way or the other; the SSL
  objects, the pending handshakes, the table and the descriptors agree; nothing
  outlives the destructor.
* Streams: what is read is what was written, string by string, over short reads
  and writes; a descriptor has an owner; a call ends by its time-out.

The hazards, each at the line where it bites, are the list `hazards` of
`PROJECT.json`; the properties below are what they are covered by.

## 2. The modules

```
RingCounters --- FixedSizeBuffer ---- MCFixedSizeBuffer
     |                  |  implements ByteQueue
     |
     |   SharedLemmas -+-- ByteOrderProofs (of FixedSizeBuffer and of Streams)
     |                 +-- EpollLoopProofs (of EpollLoop)
     |                 +-- UringTcpLoopProofs (of UringTcpLoop)
     |                 +-- KqueueLoopProofs (of KqueueLoop)
     |                 +-- TlsEpollLoopProofs (of TlsEpollLoop)
     |                 +-- UringTlsLoopProofs (of UringTlsLoop)
     |                 +-- KqueueTlsLoopProofs (of KqueueTlsLoop)
     |
     +-- BufferPool --------+--------------------+
                            |                    |
Sockets --+-- EpollSockets -+- EpollLoop --------|-- MCEpollLoop
          |                                      |
          +-- UringRing ------------------------ UringTcpLoop -- MCUringTcpLoop
          |      (these two loops implement ConnectionContract)
          +-- KqueueLoop -- MCKqueueLoop
          |
          +-- TlsSockets -+-- TlsEpollLoop -- MCTlsEpollLoop   (INSTANCE EpollSockets)
                          +-- UringTlsLoop -- MCUringTlsLoop
                          +-- KqueueTlsLoop -- MCKqueueTlsLoop
Streams --- MCStreams
                (every loop EXTENDS BufferPool)
```

### RingCounters, FixedSizeBuffer, ByteQueue

`RingCounters` has the arithmetic on `m_head` and `m_tail`: counters modulo
`CounterModulus` (2^64 in the program), positions modulo `BufferSize`, and what
a chunk or a region is.  `FixedSizeBuffer` has one action per call that returns
at once, and for `consume_free` and `consume_used`, which call back into the
loop for every chunk, one step to enter and one per chunk; the callback may
report fewer bytes than the chunk, which ends the loop.  The asynchronous pair
(`get_free_region`, later `advance_tail`; `get_used_region`, later
`advance_head`) is two steps: the kernel moves the bytes at some time between, and
the loop learns of it later.  No other call of the same buffer comes between the
two (`job`), since a connection waits for one operation at a time; that the loops
see to it is what `OpsAreCurrent` says of them.  `ByteQueue` says what all this promises: bytes leave in the
order they came, at most `Capacity` are inside.

### BufferPool

`m_pl` is the stack of free buffers, `ring` the two counters of every buffer made so
far.  Its definitions are parts of the loops' actions, not actions.

### Sockets, EpollSockets, UringRing: the environment

None of it is the repository's code.  `Sockets` has clients that connect once,
send, read, close and reset, and sockets with a receive queue, a bounded send
queue, and a peer that is up, has closed, or has reset.  `EpollSockets` adds edge-triggered
readiness as `tcp_poll` and `ep_poll_callback` define it (a rising edge queues
the descriptor, `epoll_ctl` ADD and MOD look at the socket again, output is an
edge only when a full send queue drains), and `errno`, which successful calls
and a `recv` that returns 0 leave alone.  `UringRing` has the submission queue,
the operations in the kernel, the completion queue, and the tags of
`uring_core.h`.

Bytes are counted here, not named: their order is `FixedSizeBuffer`'s matter,
the loops decide only how many move, and when.

### EpollLoop

One action per branch of the loop between two system calls on a socket.

| code (`linux/event_loop_impl.h`) | actions |
|---|---|
| `run`, its `while` and `epoll_wait` | `EpollWait`, `EpollInterrupted`, `EndOfBatch`, `LeaveLoop` |
| the `if`s on an event's flags | `DispatchAccept`, `DispatchRead`, `DispatchWrite`, `DispatchHangup` |
| `handle_accept`, a turn of its loop | `AcceptOne`, `AcceptRefused`, `AcceptFcntlFails`, `AcceptEnds` |
| the lambda of `handle_read` | `RecvSome`, `RecvAgain`, `RecvFails`; then `OnReadStep` |
| the lambda of `handle_write` | `SendSome`, `SendAgain`, `SendFails`; then `OnWriteStep` |
| `apply_state`, `remove_connection` | `ApplyState`, `RemoveConnection`, part of the above |
| a null buffer dereferenced | `Crash` |
| `stop`, any thread | `Stop` |

A callback is the set of its answers (`OnConnect`, `OnRead`, `OnWrite`, `OnErr`), any
of them at each call.

### UringTcpLoop

Handling a completion calls nothing that waits, so each is one step.

| code (`uring/uring_tcp_event_loop.h`) | actions |
|---|---|
| `run`, waiting and leaving | `WaitCqe`, `WaitFails`, `EndOfBatch`, `LeaveLoop` (with the clean-up, `Cleanup`) |
| the accept branch | `AcceptOne`, `AcceptRefused`, `AcceptFails`, `AcceptCrashes` |
| `res <= 0` | `ConnectionEnds` |
| `handle_recv_completion`, `handle_send_completion` | `RecvCompleted`, `SendCompleted` |
| `submit_recv`, `submit_send`, `remove_connection` | `GoOn` (through `CanSubmit`, `SqAfter`, `OpAfter`), `RemoveConnection` |

The batch goes on while there are completions, those that arrive meanwhile
included, as `io_uring_for_each_cqe` does; what was prepared is submitted when it ends.

### ConnectionContract

What the two TCP loops above promise of one connection: bytes enter the buffer only in
state `read` and leave it only in `write`, `on_read` is asked only about a buffer that
holds something, `on_write` only about one that is empty, `die` ends it.  It is
checked as a property of both loops under a refinement mapping.  In the
io_uring loop the bytes of the abstract buffer move when the kernel moves them,
which is before the loop handles the completion.

### TlsSockets: the TLS library and its clients

External like `Sockets`.  Cryptography is left out: a handshake is who spoke last
(`hs`: the client said hello, the server replied, the client is ready, the server is done; or
the client spoke nonsense), and `Handshakes` is what `SSL_do_handshake` answers.
A record is its bytes, which the library takes all at once though it is asked
for fewer: `inside` counts what it has taken and not given out, and `Visible` is what
a poll sees.  `SSL_write` sends a chunk whole or not at all (`WritesOne`); a
connection in `Ktls` whose TLS the kernel has taken over uses `recv` and `send`, and
has nothing inside.

In the TLS loops and the kqueue loops a handler is one step.  Nothing of what it
does is seen by another thread before it returns, and a client's action between
two of its system calls has the same effect as before the first of them, or
after the last: either it is noticed or it raises an event.  `EpollLoop` is the
one that goes call by call.  In its run `epoll_echo` a client sends its second byte
while the first fills the ring of one, between `recv` and the end of `handle_read` or
behind the full buffer, and has both back; the other loops do not repeat it.

### TlsEpollLoop

| code (`linux/tls_event_loop_impl.h`) | actions |
|---|---|
| `run` up to its loop, and what throws | `SetUp`, `SetUpFails` |
| `epoll_wait`, the batch, the end of `run`, the destructor | `EpollWait`, `EndOfBatch`, `LeaveLoop`, `Destroy` |
| the `if`s on an event | `DispatchHangup` (first of all), `DispatchAccept`, `DispatchPending`, `DispatchRead`, `DispatchWrite` |
| `handle_accept`, a turn of its loop | `AcceptEstablished`, `AcceptPending`, `AcceptFails`, `AcceptEnds` |
| `retry_handshake`, `register_connection` | `DispatchPending`, `Established`, `Greet` |
| `handle_read`, `handle_write`, `apply_state`, `remove_connection` | `HandleRead`, `HandleWrite`, `ApplyState`, `RemoveConnection`, `Done`: parts of the above |
| a null buffer dereferenced after a failed send | `Crash` |

### UringTlsLoop

Each turn of `run` accepts (from an epoll of its own, until nobody waits), waits for
completions (`WaitCqe`), handles those there are, and submits what was prepared (`Submit`).

| code (`uring/uring_tls_event_loop.h`) | actions |
|---|---|
| `run`, a turn; its end; the destructor | `Tick`, `Leave`, `WaitCqe`, `WaitFails`, `EndOfBatch`, `Destroy` |
| `handle_accept` | `AcceptEstablished`, `AcceptPending`, `AcceptFails` |
| `res < 0` | `ErrorCompleted`: removes whatever connection has the descriptor |
| a completion while a handshake is pending | `PendingCompleted` |
| `recv_ktls`, `send_ktls`, `poll_in`, `poll_out` | `RecvCompleted`, `SendCompleted`, `PollInCompleted`, `PollOutCompleted`; ignored unless it is what `active_op` expects |
| `handle_read` without a buffer | `Crash` |
| the kernel (external) | `KernelMove`: `CompletePoll`, `CompleteRecv`, `CompleteSend` |

A descriptor that is closed when the batch is submitted fails its operation at once; `Submit`
completes those in the order they were prepared (`InOrder`).
`flying` is the bag of operations in the kernel, each with the connection it was
submitted for: a poll holds that socket even when its descriptor has been closed,
and completes under the same tag.

### KqueueLoop, KqueueTlsLoop

A socket is reported as long as it is ready, its read and its write filter as
two events, which a batch may hold both (`Kevent` reports what is ready, in any
order).  `handled` keeps what of the batch is done, so that a property can tell
an event whose connection its sibling has closed.  `stop()` of the TCP loop is three
steps of another thread (`Stop`: the flag, the queue, the acceptor), between which the
loop runs; that of the TLS loop is the flag.  An assertion of the code that fails
ends the model in `pc = "asserted"`, the use of an erased connection in `"crashed"`.

| code (`nix/event_loop_impl.h`, `nix/tls_event_loop_impl.h`) | actions |
|---|---|
| `run`, its end, the destructor | `SetUp`, `SetUpFails`, `Kevent`, `KeventFails`, `EndOfBatch`, `LeaveLoop` (TCP), `Destroy` |
| the `if`s on an event | `DispatchEof` (first of all), `DispatchAccept`, `DispatchPending` (TLS), `DispatchRead`, `DispatchWrite`; `DispatchLost` where the acceptor is gone (TCP) |
| `handle_accept`, a turn of its loop | `AcceptOne` (TCP), `AcceptEstablished`, `AcceptPending` (TLS), `AcceptFails`, `AcceptEnds` |

### Streams

A client and a server, each a thread that calls its stream, and the connections
between them: bytes on the way, what has become of each end's descriptor, whose keys each end
uses.  A call is entered in one step, and each system call it makes is another.  An assertion that
fails ends the process of its end (`Dies`): the kernel closes its descriptors, and if it is the
server's its acceptor with whoever waits there.

| code | actions |
|---|---|
| `tcp_acceptor`, `tls_acceptor_impl`: open, close, accept | `AcceptorOpens`, `AcceptorCloses`, `Accept` |
| `tcp_stream::connect`, `tcp_tls_stream` connect and accept | `Connect` (`ConnectSucceeds`, `ConnectFails`, or the assertion of `:44`), `Handshake`, `HandshakeFails` |
| `try_enable_ktls`, `ktls_enable.cpp` | `KtlsOutcomes`, in `Handshake` |
| `set_options`, `disconnect`, the destructors | `SetOptions`, `Disconnect`, `Destroy` |
| `write`, `write_v`, `stream.h`'s strings | `WriteString`, then `SendStep`, `WriteNothing`, `SendFails`, `WriteEnds` |
| `read`, `stream_in`, `read_once`, `stream.h`'s strings | `ReadString`, `StreamIn`, then `RecvStep`, `RecvFails`, `StreamInEnds`; `ReadOnce` |

A read of an empty string leaves the caller's string alone (`stream.h:105`): what it then holds is
nothing, or what some earlier read has left in it (`Untouched`).  A second `close` of an acceptor has no step:
it is given a number that nothing in the server's process has, for it opens no descriptor
but by its acceptor.  A TLS acceptor that is open can be opened again, over its own listening socket;
that is left out (`AcceptorOpens`).

## 3. What the runs show

| run | checks | instance |
|---|---|---|
| `buffer` | `TypeOK`, `NoOverwrite`, `RegionIsUnread`, `FreeRegionUsable`, `RequestsAreGreedy`, and `QueueSpec`: the ring buffer implements `ByteQueue` | 4 bytes of 2 values, counters modulo 8, one operation at a time |
| `epoll` | buffers conserved and bounded, events current, bytes accounted for, contract implemented, with interrupted waits, failing `fcntl` and `epoll_ctl` | 2 clients, 2 descriptors, a ring of 2, 3 bytes each, any answer of any callback |
| `epoll_echo` | every byte sent to an echo server comes back, though the buffer fills; a reset connection is removed and `stop()` ends `run()` | 2 clients that may reset, 2 bytes each, sent before the first is back, a ring of 1 |
| `uring` | one operation per connection and it is the one the table says, one accept always armed, buffers conserved, bytes accounted for, contract implemented | 2 clients that may reset, failing accepts, interrupted waits, a submission queue of 2 |
| `uring_echo` | every byte comes back, closed and reset connections are removed, `stop()` ends `run()` | 1 client, 10 bytes over a ring of 4: regions split at the end of the array, counters wrap |
| `tls_epoll` | the tables agree with each other and with the sockets; a handshake is answered; every byte comes back; closed connections are removed; `stop()` ends `run()`, and nothing outlives the destructor | 2 clients, one with kernel TLS; failing handshakes, `fcntl`, set-up, closes |
| `uring_tls` | the same but for the echo, of resets instead of closes | 2 clients of one byte each, one with kernel TLS; also interrupted waits |
| `kqueue` | tables and bytes agree; events are current or their sibling closed the connection; the loop fails only for a cause; echo; removal; `stop()` | 2 clients that close, reset; interrupted waits, failing `fcntl`, set-up |
| `kqueue_tls` | as `tls_epoll` and `kqueue` | 2 clients that may close, a ring of 1 |
| `streams` | strings arrive as they were sent, but for empty ones; descriptors have owners; calls with a time-out end | TCP and TLS, kernel TLS at either end, 2 strings of 0 or 2 bytes, 2 bytes under way |
| `epoll_send_error`, `streams_options` | *violated*: see section 5 | 1 client; TCP, one connection, no strings |

`Consistent` is, in each of the last five modules, the conjunction of what must hold of
the tables at any moment: `TypeOK`, `BufferConservation`, `ByteAccount` and, where the loop has
such a thing, `TlsObjects` (SSL objects, pending handshakes, buffers and open
descriptors agree), `NothingOutlives` (the destructor), `EventsAreCurrent`,
`CrashesHaveCause`; in `Streams`, `StreamsTypeOK` and `DescriptorsHeld`.  `EverythingEnds` is
`StopEndsRun` and either `EndedIsRemoved` (closed or reset) or, where a closed
connection may stay, `ResetIsRemoved`.

Each property of a passing run is broken by a plausible bug in the code, listed
under `mutants`; the variants stand in the modules beside what they vary.

**Bounds and why they are enough.**

* `BufferSize` 2 or 4 has a position at the end of the array, split transfers,
  empty and full; 1 makes every byte fill the buffer.  `CounterModulus` is a small
  multiple of it so that counters wrap within a run.  The program has 2^64, for which
  no run would ever wrap.
* `MaxBytes` bounds what a client sends; 3 bytes fill a ring of 2 and leave one
  in the socket (`epoll`, `tls_epoll`); 2 over the ring of 1 in `epoll_echo` and
  `kqueue_tls` fill it and leave one waiting; 2 over the ring of 2 in `kqueue` go one at a time;
  10 over the ring of 4 in `uring_echo` wrap
  counters that are kept modulo 8.  In `uring_tls` it is 1, for each of two clients: what that run is
  for is which connection an operation finds.  Of its bytes `BytesAccounted` is proved for any
  number; that they come back is not checked of this loop.
* `Window` bounds what a client sends before it has read it back.  It is `MaxBytes`, which is
  no bound, in `epoll`, `epoll_echo`, `uring`, `tls_epoll`, `kqueue_tls` and `uring_tls`.
  `uring_echo` keeps it at 2, below a full buffer, since a full buffer stalls that loop;
  `kqueue` keeps it at 1, since that loop asserts that no input comes while it
  replies (section 5).
* `SendRoom` 1 makes sends short and send queues full.  With TLS it is at least
  `BufferSize` (`LoopAssumption`), else a chunk could never be sent whole.
* `Senders` are the clients that send anything; in `tls_epoll` and `kqueue_tls` the
  other one comes, shakes hands and goes, which is what descriptors and buffers are reused by.
* `Fds` has as many descriptors as clients; clients connect once, yet a descriptor and
  a buffer that one client left are given to the other.
* `Faults` names what may go wrong in a run: `fin`, `rst` (of clients), `eintr`, `fcntl`,
  `epoll_add`, `accept`, `handshake`, `setup`.
* `RingEntries` 2 fills the submission queue of `uring`; 4 and 8 never fill in the other runs.
* In `streams`, `LengthModulus` 3 stands for 2^16, and `Room` 2 makes sends of a frame short: one of
  3 bytes goes out in two parts at least, over TLS too.
  One connection is enough for what is checked of framing and time-outs.  That descriptors
  of several, one after the other or side by side, are kept apart is proved (`ConsistentAlways`).
* `MaxAccepts` 1 makes a batch of connections take several batches of events.  In `epoll_echo` it is 2, as
  many as clients: a smaller one strands those it leaves in the backlog of that loop's edge-triggered
  socket (`AcceptEnds`), of whom nothing is claimed.
* `Clients` are interchangeable in the safety runs of the TCP loops, which use symmetry; runs
  with liveness properties do not.

Deadlock is checked everywhere: a loop that waits for ever with nothing pending still has
`Stop`, and one that has ended stutters in `Halted` or `Rests`.

## 4. Fairness

* `WF(LoopStep)`: the thread in `run()` is scheduled.  `epoll_wait`, `kevent` and
  `wait_cqe_timeout` have time-outs and the handlers never block, so a step that
  is possible is taken.
* Weak fairness of the kernel's completions, per descriptor (both io_uring loops): an
  operation whose socket has what it waits for completes, and so does the poll of a closed one.
* Weak fairness of a client's `recv`: it reads what is sent to it.  Without it
  the send queue stays full and no server can echo.  Of a client that has closed, the
  kernel answers what is sent to it with a reset (`AnswersReset`), as fairly.
* In `KqueueLoop`, a `stop()` that has begun returns.
* In `Streams`, weak fairness of `CallStep`: a system call that can return does.  Whether
  it can is the model's: one without a time-out waits for the other end.

Nothing makes a client connect, speak, send, close or reset, no thread is obliged to call
its stream, and no callback to give a particular answer except through the constants of
the run.  `Stop` is not fair: `StopEndsRun` says what follows if it happens.  Nor is
anything assumed of which event of a batch comes first.

## 5. Where the code disagrees with what is written of it

Two runs end in a counterexample; `findings` in `PROJECT.json` quotes the lines.

1. `epoll_send_error`: after a failed `send` and an `on_err` that answers `die` the
   epoll loop dereferences the null buffer of the removed connection.
2. `streams_options`: an accepted TCP stream stores its options and never applies them
   (`nix/tcp_acceptor.cpp:45`), though `test/README.md:105` says that a Unix acceptor does apply them,
   and `test/test_platform_compatibility.cpp:284` that an accepted stream should have them.  Its reads have
   no time-out, and that of a silent client's server never ends.

What follows is in the models too, by the definitions named, and no run is a counterexample to it.  The
properties of the passing runs say, each at its place, what they except because of it.

**The TCP loops.**

* epoll: after a failed `recv` `handle_read` adds a chunk of bytes nobody received to a
  buffer that is back in the pool (`linux/event_loop_impl.h:193`); the next connection inherits
  them.  Therefore `epoll`, which counts bytes, has no resets; with them `ByteAccount` is violated.
* epoll: a peer's close is recognised only if `errno` is not EAGAIN, which an earlier call
  left there (`:189`): normally the connection is never removed.  Therefore `epoll_echo` has resets
  and no closes.
* io_uring: `get_used_region` of a full buffer is empty (`event_loop.h:148`, whose comment at `:142`
  speaks of an empty one), `submit_send` takes that for "nothing to send", and a client
  that fills the buffer is never answered (`UsedRegion`, `CanSubmit`): the `Window` of `uring_echo`.
* io_uring: a receive or send that finds the submission queue full is dropped
  (`CanSubmit`), and nothing retries it; the comment at `uring/uring_tcp_event_loop.h:190` says it is retried.  An accept
  that finds it full fails the assertion of `rearm_accept` (`AcceptCrashes`).
* io_uring: the accept tag of an even listening descriptor is the receive tag of the
  descriptor half of it (`TagAccept`, `TagRecv`; `uring_core.h:34` says it never
  collides).  The passing runs have an odd one; with 10 and a connection on 5 `OpsAreCurrent` is violated.
* kqueue: the read filter stays on in state `write`, and `handle_read` asserts state
  `read` (`nix/event_loop_impl.h:220`): a client that sends on before it has its reply
  ends the server, and a write event that reaches a reused descriptor does so at `:244`.
  `CrashesHaveCause` shows that neither happens to clients that stay and wait.
* kqueue: `stop()` closes the queue and deletes the acceptor under the running loop (`:136`),
  and after a failed `send` the connection is used after it was erased (`:256`).

**The TLS loops.**

* epoll: `handle_write` asks a null buffer whether it is empty after a failed send
  (`linux/tls_event_loop_impl.h:445`, action `Crash`): `tls_epoll` has no resets.
* epoll: a failed `bind` or `epoll_create` leaks the listening socket, and the descriptors of the
  connections stay open when `run()` ends (`NothingOutlives` says what else does not).
* io_uring: an operation that fails for its closed descriptor removes the connection that has the
  descriptor now (`ErrorCompleted`); a poll of a closed connection completes for the next
  (`Submit`, `flying`), and the loop reads into a null buffer if the handshake of that one has
  failed meanwhile (`Dangles`).
* io_uring: the end of the stream is neither an error nor progress: a closed connection may never be
  removed, hence `ResetIsRemoved`.  A full buffer stalls a connection with kernel TLS, as in the TCP loop, and
  then its reset is not noticed either; the run's clients send less.
  While a client waits and no descriptor is left the accept loop never ends: `uring_tls` has as many
  descriptors as clients.
* kqueue: the destructor redeems the buffers and never drains the pool, nor closes the
  listening socket; EV_EOF closes whatever connection has the descriptor now; both filters
  are on while a handshake is pending, so that the loop is busy all the while.
* All: bytes inside the library when the buffer was full are not announced by
  any event (`Echoed` of the epoll and kqueue loops excepts `inside[c] > 0`).

**Streams.**

* TLS reads and writes take a time-out for `WANT_*` and try again for ever
  (`tls/tcp_tls_stream.cpp:247-257`).  `CallsEnd` demands an end only of a call whose time-out counts
  (`Timed`), or whose other end has closed.
* The length of a string is cut to 16 bits and its bytes are not (`stream.h:113`).  The run, and the theorems,
  have lengths that fit (`LengthsFit`); with lengths that do not `FramesInOrder` is violated.
* `read` of an empty string leaves the caller's as it was, an earlier one's content included
  (`stream.h:105`; `Untouched` in `RecvStep`): `FramesInOrder` excepts strings that were sent empty.  `write` of an
  empty one over TLS asserts after the length was sent.
* A failed `connect` leaves `m_socket` set (`nix/tcp_stream.cpp:62`), and the next `connect` asserts that it
  is not (`:44`): the client's process ends (`Dies`).
* A failed handshake at the server
  leaks the stream and its descriptor (`tls/tls_acceptor_impl.cpp:89-95`).  It is then `"leaked"`, which
  `HandshakeFails` at the server alone makes it; `DescriptorsHeld` demands an owner of each that is
  `"open"`, without exception.
* `tls_server_stream::disconnect` frees the SSL object, and so does its
  destructor again (`:38-42`).
* `try_enable_ktls` installs the client's keys at either end (`tls/tcp_tls_stream.cpp:222`), and kernel
  TLS that succeeds for sending only counts as not enabled while the kernel encrypts
  (`tls/ktls_enable.cpp:68-74`): nothing can be read at the other end (`Readable`).

## 6. What is proved

### The ring buffer

The first half of `ByteOrderProofs` proves, for every `BufferSize` greater than 0 and every
`CounterModulus` that is a multiple of it (`RingAssumption`; 2^64 and a power of
two in the program):

* `TypeCorrect`, `CountBounded`, `LeftStaysCurrent`: the counters are counters,
  never more than a ring apart, and the local that the chunk loops count down is
  always what the counters say (the last two have no run of their own: the
  others would break with them);
* `NothingOverwritten`, `NothingInvented`, `FreeRegionFound`: no chunk or region
  given out to write into holds an unread byte, none given out to read from goes
  beyond what is there, and the free region is empty only when the buffer is full;
* `ImplementsQueue`: the ring implements `ByteQueue`;
* `RequestsMoved`: a `write` or `read` stops short only at a full or empty buffer.

The first group is not inductive by itself.  `CountBound` is kept by
`advance_tail` only if the region in flight still fits what is free, and by
`advance_head` only if it still is unread: a region is computed in one step and
used in a later one, when the bytes have moved.  So the invariant is
`BufferIInv == TypeOK /\ CountBound /\ LeftIsCurrent /\ RegionsFit`, where `RegionsFit`
says that of the regions in flight.  `BufferInvariance` proves it action by action;
the other theorems follow from it with the first lemmas of `SharedLemmas`, which hold
the modular arithmetic (what `Count` is after an `Advance`, when a slot is in a
region, that a chunk never passes the end of the array) and nothing else.

`ImplementsQueue` maps the state to the sequence of the bytes between the counters, slot by slot
(`Load`).  A chunk written at the tail is appended to it (`StoreAppends`) because the slots from the
tail on are none of those that are loaded; a chunk read from the head is its beginning
(`LoadTakes`).  Bytes
that a submitted `recv` has put into its region are not loaded until `advance_tail`, so
the queue stutters.  `RequestsMoved` needs that the number a loop counts down is the distance
between a counter before the call and now (`MovedBy`).

### The epoll loop

`EpollLoopProofs` proves, for any set of clients, any finite set of descriptors,
any buffer size and send queue, any of the faults, and callbacks that answer
anything (`SocketAssumption`, `RingAssumption`, `PoolAssumption`,
`LoopAssumption`):

* `TypeCorrect`;
* `BuffersConserved` and `PoolBounded`: each buffer is in exactly one place, the
  pool or one open connection, and no more are made than `Prepool` or the number of
  descriptors, whichever is larger;
* `EventsStayCurrent`: an event that waits in a batch is about the connection it
  was reported for, in the state its handler asserts.

None of these is inductive alone, and the invariant `IInv` ties them together:

* `PoolInv`: the pool, the table and the open descriptors agree.  It holds after
  `DispatchHangup` only if the event is of a connection that is still there: a
  second removal would put the null buffer into the pool.
* `EventsInv`: `EventsAreCurrent`, and a descriptor has one event in a batch at
  most.  Without the second part a handler that closes its connection would
  leave a stale event behind.
* `ArmedInv`: epoll watches open descriptors only, for what their states say.  It
  is what makes a new batch current.
* `HandlerInv`: between two system calls of `handle_read` or `handle_write` there is no
  further event of their connection; its buffer is the one they hold; what they
  still have to visit fits it; and if the connection is gone then `handle_read` knows
  of an error, so it does not ask `on_read`.
* `HeldInv`: no ring holds more than `BufferSize`.  It needs an exception, `Doomed`:
  when `on_err` answers die in `handle_write`, the head of a redeemed, empty buffer is
  advanced past its tail.  The exception never reaches another connection, for
  the loop crashes at its next step: the finding of the run `epoll_send_error`
  is what the proof had to step around.

The proof has one lemma per action or pair of actions, on top of lemmas about
what all of them do (`RemoveKeeps`, `ApplyKeeps`, `PushKeeps`, `HandlerContinues`).
`SharedLemmas` has what is about no loop, and all the proofs of loops share it: what giving a
buffer back, taking one and making one does to where the buffers are (`Conserved`), that one
is made only while a descriptor is free (`RoomForNew`, a cardinality argument), what moving
one counter does to the rings, what giving all of them back at once does (`AllRedeemed`), and what
the clients and the kernel do to the sockets.

The bytes are a second invariant, on top of the first:

* `BytesUntilDown`: as long as every client is up (`AllUp`), a connection's buffer holds
  what was received on it less what was sent.  Past that the property is false: when a
  receive or a send fails, the lambda of the chunk loop returns the size of its chunk, and
  the counters move over bytes that were never there - also those of a buffer
  that was redeemed and is the next client's (section 5).
* `BytesAccounted`: the same for ever, where clients do not close or reset
  (`{"fin", "rst"} \cap Faults = {}`, as in the run `epoll`); `AlwaysUp` is the step between.
* `KeepsContract`: under the same hypothesis the loop implements `ConnectionContract`.

`BInv` is `OneDescriptorEach` (an open connection has one descriptor, those in the backlog are
there once and have moved nothing) and, while `AllUp`, `Accounts`: the balance of each
connection is what its ring holds; the rings in the pool are empty (`PoolContents`), which
is why a connection starts with none of another's bytes; and a handler's connection is open, in the
state of that handler (`HandlesOpen`).  `OneDescriptorEach` is what keeps the bytes that one
descriptor moves out of another's balance.

The refinement maps a client to the contract's phase, state and number of bytes (`PhaseOf`,
`StateOf`, `HeldOf`).  A step changes the view of one client at most, and `View` says what that is
from the client's descriptor; then a chunk received is `Receive`, the answer of
`on_read` is `AskOnRead` or `End`, and so on.  `HandlesOpen` supplies the guards.

### The io_uring loop

`UringTcpLoopProofs` proves, for as general a system and any length of the submission queue:

* `TypeCorrect`;
* `BuffersConserved`: each buffer is in the pool or with one open connection, and
  when `run()` has ended all are in the pool;
* `OperationsStayCurrent`: a connection has at most one operation prepared, in the
  kernel or completed and not yet handled; it is the one `active_op` says, on the region
  that the connection's own buffer would give out now;
* `AcceptStaysArmed`: exactly one accept is on its way.

All of them assume `TagsDiffer`: the listening descriptor is not twice a descriptor of
a connection.  The program does not see to it.  Where it fails, a receive completes as an
accept (section 5), and none of these holds except by luck; an odd listening
descriptor is enough for it.

A completion carries a tag and nothing else of its connection, so that handling it is
right only if no other operation can have that tag.  `OpsAreCurrent` says so, but counts,
and is not inductive.  The invariant `IInv` is `TypeOK`, `PoolInv` and, until `run()`
ends, `QueuesInv`:

* `OneEach`: of the listening socket and of each connection that waits for something
  there is exactly one entry, in one of the submission queue, the kernel and the
  completion queue; of the others there is none.  It has one lemma for each move of an entry
  (`EachPrepared`, `EachSubmitted`, `EachCompleted` and so on), used by every
  action.  The counting properties follow from it.
* `OpCurrent`, `CompletionCurrent`: an operation works on the buffer its connection has, and
  its size is what the counters give out now.  It rests on `OneEach`: the counters
  move only when a completion of the same connection is handled, and then nothing else
  of it is on its way.  An accept that succeeded holds a descriptor that is open and not in
  the table.
* A connection that waits has a buffer, which makes its descriptor open (`PoolInv`), so that
  the kernel cannot give it to an accept.

`CleanupStep` is the case apart: the buffers return in one step, in the order of the table.
Operations stay in the kernel with their buffers back in the pool, so `QueuesInv` ends there.

* `BytesAccounted`: a connection's balance is what its buffer holds and what its one unhandled
  completion will move, with any faults: a completion that failed moves no counter here.
* `KeepsContract`: the loop implements `ConnectionContract`, also with any faults.

Their invariant `BInv` is as for epoll, with a difference: between a completion and its handling
the bytes have moved and the counters have not.  `Accounted` says so of one descriptor and the
completion queue, with lemmas for each move of an entry, and `OneEach` makes sure that it is
about one completion.  A connection that an accept has made and the loop has not heard of yet is
"new" to the contract (`IsOpen`), and `HeldOf` takes the balance, so that bytes count
when they arrive.

### The kqueue loop

`KqueueLoopProofs` proves, for as general a system as the epoll loop's and a `stop()` at
any time:

* `TypeCorrect`;
* `BuffersConserved`: as long as `run()` runs, the table is right about the descriptors
  and the buffers;
* `EventsStayCurrent`: an event is for the connection that has the descriptor now, unless its other
  filter's event closed that one;
* `CrashesExplained`: a crash has a cause;
* `BytesAccounted`: as long as no client has left, a buffer holds what came and did not go;
* `ConsistentAlways`: all of these and, for `Replies` and a `Window` of 1, that no handler
  finds a state it does not expect.  It is the invariant of the run `kqueue`, whose constants
  are among those it covers.

`IInv` is `TypeOK` and four parts.  `PoolInv` ties the pool to the table and the table to the
descriptors; it ends with the destructor.  `HeldInv` bounds what each ring holds: also those in the
pool, where the chunk of a failed receive counts as filled (`garbage`).  `EventsInv` is
`EventsAreCurrent` and that an event of a connection names it: without the second part an accept
could give a descriptor to a connection that an event left in the batch is then
not for.  `ObjectsInv` is the order of `stop()`: the queue is open until its second step, and the
acceptor until its third, so that whoever finds no acceptor finds no queue either.

A handler is one step, so its proof is one about a record: `Outcome` says what `HandleRead` and
`HandleWrite` may do to the connection in their hands (`Received`, `Delivered`, `AskOutcome`), and
`RemoveKeeps` and `BackKeeps` what putting it back into the table does to the rest.

`BInv` adds the bytes as for epoll: `OneDescriptorEach` and, while `AllUp`, `Accounts`.

The asserted states need a third invariant, `EchoInv`, and a hypothesis: `Replies`, by which
`on_connect` and `on_write` answer read or die (what `on_read` answers is free).  Then a
connection is in the state `read` or `write`, has its write filter on in `write` alone, and
holds something there (`ReplyHeld`).  A client has sent at most `Window` bytes that it has not read
back (`InWindow`), so that with a `Window` of 1 it has sent nothing more while the loop
holds its byte (`ReplyAlone`): the balance of `BInv` turns the content of a buffer into a
statement about the client.  So kevent reports one of the two filters of a connection, and in the
state for it (`EventsExpected`), which the batch keeps, since each connection has one event in it.
Without `Replies` the property is false: a connection that is idle, or writes nothing, has its
input reported all the same.  With a larger `Window` the code asserts, as section 5 says.

### The TLS loop over epoll

`TlsEpollLoopProofs` proves, for any clients, descriptors, ring, window of bytes, faults, results of
kernel TLS and answers of the callbacks, and a `stop()` at any time:

* `TypeCorrect`;
* `ObjectsAgree`: whichever way a handshake goes, the SSL objects, the pending handshakes and
  the buffers are those of the open descriptors that should have one;
* `BuffersConserved`: each buffer is in the pool or with one connection, from the constructor until the
  destructor frees the pool, also after `run()` has thrown, crashed or returned;
* `BytesAccounted`: a buffer holds what SSL_read returned and SSL_write has not taken;
* `NothingLeft`: the destructor leaves no SSL object, no context and no buffer out of the pool;
* `ConsistentAlways`: all of them, the invariant of the run `tls_epoll`.

The invariant `IInv` adds to these what they rest on.  `TablesInv`
is `TlsObjects` from before `run()` to its end, and `PoolInv` the places of the buffers.
`HandshakeInv` says of a client that its handshake is done only on an open connection, and that nothing
was read or written on one where it is not.  `EventsInv`: an event of the batch that is not of the
listening socket has a connection, and a descriptor has one event at most, so that closing its
connection leaves none behind.  `PoolContents`: the rings in the pool are empty, and none
holds more than fits; a connection starts with a ring of the pool, and its balance
(`ByteAccount`) with zero.  `EndInv` is what has been released when `run()` is over.

A handler takes a record of one connection and has several outcomes: bytes may come several times
in a call, a callback is asked in between, the connection may be given up.  `Outcome` says of
any sequence of these what it keeps of the balance (`ReadsGive`, `WritesTake`), `Leaves` what the next
state has of the record, and `Settled` that the rest of the tables is as it was; one lemma takes
these to `IInv`, whatever the handler.  When `run()` ends the buffers go back in the
order of the table, in one step (`AllRedeemed`).

### The TLS loop over io_uring

`UringTlsLoopProofs` proves `TypeCorrect`, `ObjectsAgree`, `BuffersConserved` (until the destructor,
though operations may still be in the kernel when `run()` ends), `BytesAccounted`,
`NothingLeft` and, of them all, `ConsistentAlways`, the invariant of the run `uring_tls`, for as
general a system and a ring of any length.  `TablesInv`, `HandshakeInv`, `PoolInv`, `PoolContents`
and `EndInv` are as in the TLS loop over epoll.  What is new are the operations:

* A receive or a send is prepared (`sq`), then in the kernel (`flying`), then a completion (`cq`).
  Nothing takes it back when its connection is removed and the descriptor given to another, and a
  completion names a descriptor only.  `ByteAccount` would be false if one that moved bytes of the
  former connection could be counted for the next.
* It cannot, and this is the invariant: an operation that is prepared or in the kernel, or a
  completion that says something moved, is of a connection that is established and waits for it
  (`WaitsFor`: `active_op` is its kind, its size fits what the buffer has room for, or holds), and a
  descriptor has one of these at most in all three places (`PreparedInv`, `FlyingInv`, `MovedInv`;
  `MovesInv` is all of them).
  Only its completion moves such a connection on, so that one which is gone had nothing in the
  kernel; what it had prepared in this batch fails at `Submit`.
* Polls are under no such rule, and need none: they move nothing.  A poll that completes for
  the next connection of its descriptor finds it in whatever state, and each outcome
  keeps the invariant.
* An error completion removes whoever has its descriptor.  `FlyingInv` and `MovedInv` say that none
  is waiting for the descriptor of an operation that is in the kernel or has moved bytes.

One lemma for each move of an entry keeps the invariant of the entries (prepared, submitted,
completed, handled), another takes the record that a handler leaves
to the tables, as in the TLS loop over epoll, and the actions combine the two.
`Unhandled`, which sums over the completions, is a fold over a set of one element at most.

### The TLS loop over kqueue

`KqueueTlsLoopProofs` proves `TypeCorrect`, `ObjectsAgree`, `BuffersConserved`, `BytesAccounted`,
`EventsStayCurrent` and, of them all, `ConsistentAlways`, the invariant of the run `kqueue_tls`, for
as general a system as that of the other TLS loops.  The invariant is the one above but for what
this loop does otherwise:

* Both filters of a connection report, so that a descriptor may have two events in a batch, and
  the second finds the connection established, closed, or another in its place.
  `EventsInv` cannot say that an event has a connection.  It is `EventsAreCurrent` and
  that an event of a connection names it, as in the TCP loop; the lemmas of the handlers (`HandleStep`,
  `EofStep`, `PendingSteps`) are about whichever connection has the descriptor.
* When SSL_write fails the connection is erased and then used, and the loop crashes (section 5).
  Whoever erased it had left the tables in order, so `IInv` holds there too.
* The loop leaves everything to the destructor, which gives back the buffers in any order and
  drains nothing: `PoolInv` and `PoolContents` hold to the end, `TablesInv` until the
  destructor takes the SSL objects away.

### The streams

The second half of `ByteOrderProofs` proves `ConsistentAlways` and `StringsInOrder`, the two invariants of the run
`streams`, for any number of connections, strings and bytes under way, any set of string lengths
and of ends that write or ask for kernel TLS, and both kinds of streams (`StreamAssumption`), if
16 bits can name each length (`LengthsFit`, an assumption of the two theorems; `StringsInOrder` is false without it).

`FramesInOrder` compares the strings that were written with what the reader's string held after
each read, where the string was not sent empty, and says nothing of
what is in between: part of a frame may be in the writer's call, part on the way, part in the
reader's call.  The invariant puts them together.  For each direction of each connection that is
not torn there are bytes and offsets (`Carried`) such that

* the bytes are the frames of the strings written, one after the other, and string `k` ends at
  offset `k` (`Frames`);
* the reader has the first of these strings, an empty one as nothing though its string kept what it
  held, and of the next one, once it knows its length, a part
  (`HasRead`); this gives its `Position` among the bytes;
* from there on, the bytes are those on the way, followed by those the writer's call has yet
  to write (`OnTheWay`) - as long as there is a writer.  When an end has closed or was reset,
  bytes are lost, but only from the end: what is on the way stays what comes next.

The bytes and offsets are a witness of each step, not a function of the strings, so that no recursive
definition is involved: a write makes them longer by one frame (`FramesGrow`), all other steps keep
them.  `SomeSent` is about `write_v`'s loop: what `Skip` leaves of one or two pieces, when a part
of them went out, is the rest of their bytes.  `Skip` and `FlattenSeq` are folds, which are evaluated
by hand for the lengths that occur (`SkipOne`, `SkipTwo`, `Flattened`).

Three more conjuncts are needed.  `CallsInv`: a call has a connection that is open at its end, and
a call that does not write has no pieces.  `BacklogInv`: who waits to be accepted waits once,
and has neither sent nor read.  `DescriptorsHeld`, for the descriptor that `disconnect`
closes to be the stream's own.  Most actions change one end and its connection; `OwnStep` proves
the invariant for all of these, from what the step makes of the two directions.

### Only model-checked

The liveness properties (`Echoed`, `EverythingEnds`, `HandshakeAnswered`, `CallsEnd`), which need
fairness and are out of TLAPS's reach, and the two findings.

## 7. What is left

In this order, the most important first:

1. `ConnectionContract` as a property of the TLS and kqueue loops.  It needs exceptions
   for what section 5 says of them.
2. UDP.

Abstract specifications: `ByteQueue` for the buffer, `ConnectionContract` for
the TCP loops over epoll and io_uring; for streams the two ends of `Streams` are each
other's specification (`FramesInOrder`).

## 8. Not modelled

* UDP: sockets without state between calls; what is lost or reordered on the way is the network's.
* HTTP (`request/request.h`) formats and parses text over a stream.
* The Windows streams repeat those of `nix`, with one difference that stands as a variant
  in `Streams` (`HearsTimeout`); its event loop and UDP are stubs.
* Initialisation and the factories (`init.h`, `nix/nix_init.cpp`) make objects and keep none;
  the samples, the web socket one among them, use the library and are not part of it.
* The kernel's part of TLS, certificates and ciphers: OpenSSL's and the kernel's.  Of `ktls_enable.cpp`
  what matters here is which of its two calls succeeds (`KtlsOutcomes`).
* Socket options other than time-outs and non-blocking mode are passed on.
* A custom acceptor given to the kqueue loop by the application.
* Opening the listening socket of the two TCP loops over epoll and io_uring, which comes before
  their initial state; `drain`, the destructor's, after their last.

**Assumed of the environment.**  SIGPIPE is ignored (`nix/nix_init.cpp:24`).  Assertions
(`HOPE_ASSERT`) are compiled in.  An io_uring receive on a non-blocking socket waits in the kernel
until there is something.  The listening descriptor of the io_uring TCP loop is odd (section 5).
