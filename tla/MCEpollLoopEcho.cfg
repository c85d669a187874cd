SPECIFICATION FairSpec
CONSTANTS
    Clients = {c1, c2}
    Fds = {1, 2}
    MaxBytes = 2
    Window = 2
    SendRoom = 1
    Faults = {"rst"}
    BufferSize = 1
    CounterModulus = 2
    MaxAccepts = 2
    Prepool = 2
    OnConnect = {"idle", "read"}
    OnRead = {"write"}
    OnWrite = {"read"}
    OnErr = {"die"}
PROPERTIES
    Echoed
    EverythingEnds
