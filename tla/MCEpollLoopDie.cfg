SPECIFICATION Spec
CONSTANTS
    Clients = {c1}
    Fds = {1}
    MaxBytes = 2
    Window = 2
    SendRoom = 1
    Faults = {"rst"}
    BufferSize = 2
    CounterModulus = 4
    MaxAccepts = 2
    Prepool = 1
    OnConnect = {"read"}
    OnRead = {"write"}
    OnWrite = {"read"}
    OnErr = {"die"}
INVARIANTS
    NeverCrashes
