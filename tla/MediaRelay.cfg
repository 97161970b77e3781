CONSTANTS
    Workers = 2
    Buffers = 2
    QueueCapacity = 2
    Endpoints = 3
    MaxPackets = 3
SPECIFICATION FairSpec
INVARIANT
    SharesAreExact
PROPERTIES
    BuffersReturn
    ShutdownCompletes
