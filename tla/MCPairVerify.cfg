SPECIFICATION FairSpec
CONSTANTS
    a = a
    b = b
    Node = {a, b}
    NoAddr = NoAddr
    Bcast = Bcast
    InitLinks <- PairLinks
    Packets <- OnePacket
    DataTtl = 3
    TtlStart = 1
    TtlIncrement = 1
    TtlThreshold = 1
    NetDiameter = 2
    RreqRetries = 1
    RreqRateLimit = 2
    RerrRateLimit = 1
    MaxQueueLen = 1
    DestinationOnly = FALSE
    GratuitousReply = FALSE
    EnableHello = FALSE
    EnableRttWormholeDetect = TRUE
    EnableSecondProbeVerification = TRUE
    TimelyNetwork = FALSE
    MaxSeqNo = 2
    MaxEvents = 1
PROPERTIES
    VerificationDecided
