SPECIFICATION FairSpec
CONSTANTS
    Clients = {c1, c2}
    Fds = {1, 2}
    MaxBytes = 2
    Window = 1
    SendRoom = 1
    Faults = {"fin", "rst", "eintr", "fcntl", "setup"}
    BufferSize = 2
    CounterModulus = 4
    MaxAccepts = 1
    Prepool = 1
    OnConnect = {"read", "die"}
    OnRead = {"write", "die"}
    OnWrite = {"read"}
INVARIANTS
    Consistent
PROPERTIES
    Echoed
    EverythingEnds
