SPECIFICATION OneInUseSpec
CONSTANTS
    c = c
    d = d
    m = m
    n1 = n1
    n2 = n2
    n3 = n3
    n4 = n4
    FloodNode = {n1, n2, n3, n4}
    Networks <- TwoNetworks
    Broadcasts <- Floods
    InitialTtl = 3
    MaxDelay = 1
    DpdLifetime = 3
    MaxLosses = 1
    TableTime = 4
    MaxTime = 7
    Packets <- ThreePackets
    QueueTimeouts = {1, 2}
    MaxQueueLens = {1, 2}
    MaxArrivals = 3
    Neighbour = {c, d}
    Mac = {m}
    NoMac = NoMac
    Intervals = {1, 2}
    Delay = 1
    EnableHello = FALSE
    Ids = {c, d}
    Lifetimes = {0, 2}
    Peer = {c}
    Dest = {d}
    Scale = 8
    NodeTraversalTime = 8
    CpuProcessBase = 4
    TransmissionTime = 0
    Pd = 2
    DefaultVariation = 4
    SmallVariation = 1
    MuHalves = 5
    BufferLimit = 2
    BlackListTimeout = 2
    MaxRequests = 3
    Samples = {0, 3, 8}
    InitialEstimation = 5
    AlphaValues <- Alphas
    BetaValues <- Betas
    i1 = i1
    i2 = i2
    a1 = a1
    a2 = a2
    a3 = a3
    lo = lo
    net1 = net1
    net2 = net2
    r = r
    Interface = {i1, i2}
    Address <- Addresses
    Loopback <- Lo
    HomeOf <- Homes
    Remote = {r}
    Socket = {1, 2, 3, 4, 5, 6}
CHECK_DEADLOCK FALSE
INVARIANT
    FirstProbeIsTimed
