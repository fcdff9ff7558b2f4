SPECIFICATION Spec
CONSTANTS
    TopQuality = 3
    Packets <- Sizes
    Chunk = 256
    Payload = 2660
    SizeWidth = 65536
    Longest = 65507
    Reorder = FALSE
    InitialQuality = 2
    Capacity = 6
    MeasurePeriod = 2
    TroubleCap = 4
    Budgets <- OneReplyLost
INVARIANTS
    WholeFileHeard
