SPECIFICATION FairSpec
CONSTANTS
    a = a
    b = b
    c = c
    Node = {a, b, c}
    NoAddr = NoAddr
    Bcast = Bcast
    InitLinks <- ChainLinks
    Packets <- ChainPackets
    DataTtl = 3
    TtlStart = 1
    TtlIncrement = 1
    TtlThreshold = 1
    NetDiameter = 2
    RreqRetries = 1
    RreqRateLimit = 1
    RerrRateLimit = 1
    MaxQueueLen = 1
    DestinationOnly = FALSE
    GratuitousReply = TRUE
    EnableHello = FALSE
    EnableRttWormholeDetect = TRUE
    EnableSecondProbeVerification = FALSE
    TimelyNetwork = FALSE
    MaxSeqNo = 3
    MaxEvents = 1
INVARIANTS
    TypeOK
    SeqNoBounded
    NoStrandedSearch
    NoStrandedPacket
    RouteHasNextHop
    OneHopIsDirect
PROPERTIES
    SuspectsGainNoRoutes
    QueueDrains
