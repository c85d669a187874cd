SPECIFICATION FairSpec
CONSTANTS
    MaxConnections = 1
    MaxStrings = 0
    Lengths = {}
    Room = 2
    Writers = {}
    LengthModulus = 3
    Kinds = {"tcp"}
    Ktls = {"client", "server"}
PROPERTY
    EveryCallEnds
