SPECIFICATION FairSpec
CONSTANTS
    a = a
    b = b
    c = c
    Node = {a, b, c}
    NoAddr = NoAddr
    Bcast = Bcast
    InitLinks <- ChainLinks
    Packets <- ChainPackets
    DataTtl = 3
    TtlStart = 2
    TtlIncrement = 1
    TtlThreshold = 1
    NetDiameter = 2
    RreqRetries = 2
    RreqRateLimit = 2
    RerrRateLimit = 1
    MaxQueueLen = 1
    DestinationOnly = FALSE
    GratuitousReply = TRUE
    EnableHello = FALSE
    EnableRttWormholeDetect = TRUE
    EnableSecondProbeVerification = TRUE
    TimelyNetwork = FALSE
    MaxSeqNo = 2
    MaxEvents = 0
PROPERTIES
    FreshRoutesStayFresh
    VerificationDecided
