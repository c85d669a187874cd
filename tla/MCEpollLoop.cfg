SPECIFICATION Spec
CONSTANTS
    Clients = {c1, c2}
    Fds = {1, 2}
    MaxBytes = 3
    Window = 3
    SendRoom = 1
    Faults = {"eintr", "fcntl", "epoll_add"}
    BufferSize = 2
    CounterModulus = 4
    MaxAccepts = 1
    Prepool = 1
    OnConnect = {"idle", "read", "write", "die"}
    OnRead = {"idle", "read", "write", "die"}
    OnWrite = {"idle", "read", "write", "die"}
    OnErr = {"die"}
SYMMETRY ClientSymmetry
INVARIANTS
    TypeOK
    BufferConservation
    PoolBound
    EventsAreCurrent
    ByteAccount
PROPERTIES
    ContractSpec
