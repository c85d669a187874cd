SPECIFICATION Spec
CONSTANTS
    Clients = {c1, c2}
    Fds = {4, 5}
    ListenFd = 3
    MaxBytes = 2
    Window = 2
    SendRoom = 1
    Faults = {"rst", "accept", "eintr"}
    BufferSize = 4
    CounterModulus = 8
    RingEntries = 2
    TableSize = 6
    Prepool = 1
    OnConnect = {"idle", "read", "die"}
    OnRead = {"idle", "read", "write", "die"}
    OnWrite = {"idle", "read", "write", "die"}
SYMMETRY ClientSymmetry
INVARIANTS
    TypeOK
    BufferConservation
    OpsAreCurrent
    ByteAccount
    AcceptArmed
PROPERTIES
    ContractSpec
