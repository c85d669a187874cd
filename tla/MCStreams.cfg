SPECIFICATION FairSpec
CONSTANTS
    MaxConnections = 1
    MaxStrings = 2
    Lengths = {0, 2}
    Room = 2
    Writers = {"client"}
    LengthModulus = 3
    Kinds = {"tcp", "tls"}
    Ktls = {"client", "server"}
INVARIANTS
    Consistent
    FramesInOrder
PROPERTIES
    CallsEnd
