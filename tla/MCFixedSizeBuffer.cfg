SPECIFICATION BufferSpec
CONSTANTS
    BufferSize <- MCBufferSize
    CounterModulus <- MCCounterModulus
    Byte <- MCByte
INVARIANTS
    TypeOK
    NoOverwrite
    RegionIsUnread
    FreeRegionUsable
PROPERTIES
    RequestsAreGreedy
    QueueSpec
