SPECIFICATION FairSpec
CONSTANTS
    TopQuality = 3
    Packets <- Sizes
    Chunk = 256
    Payload = 3564
    SizeWidth = 65536
    Longest = 65507
    Reorder = TRUE
    InitialQuality = 3
    Capacity = 6
    MeasurePeriod = 1
    TroubleCap = 4
    Budgets <- LossyReplies
INVARIANTS
    InStep
    QuietAtRequest
    CountMatchesReceived
    RejectedBatchIsResent
    WritesStayInside
PROPERTIES
    ImplementsAudioStream
    OnlyRefusalsHang
    OnlyCutResendsLose
    OnlyRaisesGoBeyond
    OnlyRaisesBringItDown
