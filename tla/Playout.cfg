CONSTANTS
    Modulus = 16
    Capacity = 3
    MaxGapPlc = 1
    DropSlots = 2
    Packets = 4
    First = 14
    Target = 1
    BurstHeadroom = 1
    QueueLimit = 3
    PacketFrames = 2
    Callbacks <- MCCallbacks
    PcmFrames = 4
    EmptyLimit = 2
    MaxResets = 1
SPECIFICATION Spec
INVARIANTS
    TypeOK
    PlayedInOrder
    DeliveredNotLost
CHECK_DEADLOCK FALSE
