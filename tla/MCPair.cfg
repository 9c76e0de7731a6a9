SPECIFICATION Spec
CONSTANTS
    a = a
    b = b
    Node = {a, b}
    NoAddr = NoAddr
    Bcast = Bcast
    InitLinks <- PairLinks
    Packets <- TwoPackets
    DataTtl = 3
    TtlStart = 2
    TtlIncrement = 1
    TtlThreshold = 1
    NetDiameter = 2
    RreqRetries = 1
    RreqRateLimit = 1
    RerrRateLimit = 1
    MaxQueueLen = 1
    DestinationOnly = FALSE
    GratuitousReply = FALSE
    EnableHello = TRUE
    EnableRttWormholeDetect = FALSE
    EnableSecondProbeVerification = FALSE
    TimelyNetwork = FALSE
    MaxSeqNo = 2
    MaxEvents = 1
VIEW Undelivered
INVARIANTS
    SeqNoBounded
    NoStrandedPacket
