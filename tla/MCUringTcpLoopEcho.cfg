SPECIFICATION FairSpec
CONSTANTS
    Clients = {c1}
    Fds = {4}
    ListenFd = 3
    MaxBytes = 10
    Window = 2
    SendRoom = 1
    Faults = {"fin", "rst"}
    BufferSize = 4
    CounterModulus = 8
    RingEntries = 4
    TableSize = 5
    Prepool = 2
    OnConnect = {"read"}
    OnRead = {"write"}
    OnWrite = {"read"}
PROPERTIES
    Echoed
    EverythingEnds
