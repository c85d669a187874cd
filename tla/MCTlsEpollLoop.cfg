SPECIFICATION FairSpec
CONSTANTS
    Clients = {c1, c2}
    Fds = {1, 2}
    Senders = {c1}
    MaxBytes = 3
    Window = 3
    SendRoom = 2
    Faults = {"fin", "fcntl", "handshake", "setup"}
    BufferSize = 2
    CounterModulus = 4
    MaxAccepts = 1
    Prepool = 1
    Ktls = {c2}
    OnConnect = {"idle", "read"}
    OnRead = {"write"}
    OnWrite = {"read"}
INVARIANTS
    Consistent
PROPERTIES
    HandshakeAnswered
    Echoed
    EverythingEnds
