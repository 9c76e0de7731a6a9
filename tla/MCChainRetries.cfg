SPECIFICATION Spec
CONSTANTS
    a = a
    b = b
    c = c
    Node = {a, b, c}
    NoAddr = NoAddr
    Bcast = Bcast
    InitLinks <- NoLinks
    Packets <- TwoDestinations
    DataTtl = 3
    TtlStart = 2
    TtlIncrement = 1
    TtlThreshold = 1
    NetDiameter = 2
    RreqRetries = 1
    RreqRateLimit = 1
    RerrRateLimit = 1
    MaxQueueLen = 1
    DestinationOnly = FALSE
    GratuitousReply = FALSE
    EnableHello = FALSE
    EnableRttWormholeDetect = FALSE
    EnableSecondProbeVerification = FALSE
    TimelyNetwork = TRUE
    MaxSeqNo = 3
    MaxEvents = 0
INVARIANTS
    RetriesBounded
