SPECIFICATION FairSpec
CONSTANTS
    Packet = {a, b}
    Null = nothing
    Max = 6
    BatchSizes <- Sizes
INVARIANTS
    RingInv
PROPERTIES
    ImplementsPlayback
    RoomIsMade
