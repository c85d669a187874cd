SPECIFICATION FairSpec
CONSTANTS
    Clients = {c1, c2}
    Fds = {1, 2}
    Senders = {c1, c2}
    MaxBytes = 1
    Window = 1
    SendRoom = 2
    Faults = {"rst", "eintr", "fcntl", "handshake", "setup"}
    BufferSize = 2
    CounterModulus = 4
    RingEntries = 8
    Prepool = 1
    Ktls = {c2}
    OnConnect = {"read"}
    OnRead = {"write", "die"}
    OnWrite = {"read"}
    OnErr = {"die"}
INVARIANTS
    Consistent
PROPERTIES
    HandshakeAnswered
    EverythingEnds
