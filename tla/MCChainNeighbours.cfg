SPECIFICATION Spec
CONSTANTS
    a = a
    b = b
    c = c
    Node = {a, b, c}
    NoAddr = NoAddr
    Bcast = Bcast
    InitLinks <- ChainLinks
    Packets <- BothEnds
    DataTtl = 3
    TtlStart = 2
    TtlIncrement = 1
    TtlThreshold = 1
    NetDiameter = 2
    RreqRetries = 1
    RreqRateLimit = 2
    RerrRateLimit = 1
    MaxQueueLen = 1
    DestinationOnly = FALSE
    GratuitousReply = FALSE
    EnableHello = FALSE
    EnableRttWormholeDetect = FALSE
    EnableSecondProbeVerification = FALSE
    TimelyNetwork = FALSE
    MaxSeqNo = 1
    MaxEvents = 1
INVARIANTS
    NeighboursAreNodes
