SPECIFICATION FairSpec
CONSTANTS
    Clients = {c1, c2}
    Fds = {1, 2}
    Senders = {c1}
    MaxBytes = 2
    Window = 2
    SendRoom = 1
    Faults = {"fin", "eintr", "fcntl", "setup"}
    BufferSize = 1
    CounterModulus = 2
    MaxAccepts = 1
    Prepool = 1
    OnConnect = {"idle", "read"}
    OnRead = {"write"}
    OnWrite = {"read"}
INVARIANTS
    Consistent
PROPERTIES
    HandshakeAnswered
    Echoed
    EverythingEnds
