----------------------------- MODULE AodvState ------------------------------
(***************************************************************************)
(* The state of a network of nodes that run ns3::aodv::RoutingProtocol     *)
(* (src/aodv/model/aodv-routing-protocol.{h,cc}), the messages of AODV     *)
(* (aodv-packet.{h,cc}) and how they are put on the network.               *)
(***************************************************************************)
EXTENDS AodvRoutingTable, FiniteSets

CONSTANTS
    Bcast,                   \* the subnet-directed broadcast address
    InitLinks,               \* the links, sets of two nodes, that are up at first
    Packets,                 \* the packets applications send: [src, dst, id]
    DataTtl,                 \* IP's default time to live
    TtlStart, TtlIncrement, TtlThreshold, NetDiameter,
    RreqRetries, RreqRateLimit, RerrRateLimit, MaxQueueLen,
    DestinationOnly, GratuitousReply, EnableHello,
    EnableRttWormholeDetect, EnableSecondProbeVerification,
    TimelyNetwork,           \* TRUE: no retry timer fires while a frame is in flight
    MaxSeqNo,                \* bound on the sequence number of a node
    MaxEvents                \* bound on the events of the environment

ASSUME BcastAssumption == Bcast \notin Addr

ASSUME LinksAssumption ==
    /\ InitLinks \subseteq SUBSET Node
    /\ \A l \in InitLinks : Cardinality(l) = 2

ASSUME PacketsAssumption ==
    \A p \in Packets : /\ p.src \in Node
                       /\ p.dst \in Node \ {p.src}
                       /\ p.id \in Nat

ASSUME ParameterAssumption ==
    /\ {DataTtl, TtlStart, TtlIncrement, TtlThreshold, NetDiameter} \subseteq Nat
    /\ {RreqRetries, RreqRateLimit, RerrRateLimit, MaxSeqNo, MaxEvents} \subseteq Nat
    /\ MaxQueueLen \in Nat \ {0}
    /\ {DestinationOnly, GratuitousReply, EnableHello, TimelyNetwork} \subseteq BOOLEAN
    /\ {EnableRttWormholeDetect, EnableSecondProbeVerification} \subseteq BOOLEAN

\* The ring of a search for a destination that was known before is at least two.
ASSUME RingAssumption == TtlIncrement >= 1 /\ NetDiameter >= 2

VARIABLES
    rt,                 \* m_routingTable
    nb,                 \* m_nb: the addresses of the neighbours
    seqNo,              \* m_seqNo
    requestId,          \* m_requestId
    rreqIdCache,        \* m_rreqIdCache: pairs of an originator and a request ID
    queue,              \* m_queue: IP packets that wait for a route
    addressReqTimer,    \* m_addressReqTimer: is the retry timer running?
    delayedRequest,     \* calls of SendRequest scheduled by the rate limiter
    rreqCount,          \* m_rreqCount
    rerrCount,          \* m_rerrCount
    up,                 \* ~m_socketAddresses.empty()
    helloTimer,         \* is m_htimer running?
    lastBcast,          \* m_lastBcastTime > 0
    rttProbe,           \* m_rttProbeStartTime: the destinations probed
    underVerification,  \* m_underVerification
    verificationProbe,  \* m_verificationProbeStartTime: the neighbours probed
    suspect,            \* m_suspectUntil, without the entries that are over
    net,                \* frames in flight
    links,              \* the links that are up
    sent,               \* packets that applications have sent
    delivered,          \* packets handed to the application at their destination
    events              \* events of the environment so far

vars == <<rt, nb, seqNo, requestId, rreqIdCache, queue, addressReqTimer,
          delayedRequest, rreqCount, rerrCount, up, helloTimer, lastBcast,
          rttProbe, underVerification, verificationProbe, suspect,
          net, links, sent, delivered, events>>

ownVars == <<seqNo, requestId, rreqIdCache, rreqCount>>
searchVars == <<addressReqTimer, delayedRequest>>
helloVars == <<helloTimer, lastBcast>>
detectorVars == <<rttProbe, underVerification, verificationProbe, suspect>>
worldVars == <<links, events>>
appVars == <<sent, delivered>>

-----------------------------------------------------------------------------
(* Messages.  An IP packet travels in frames; a frame from a node to itself *)
(* is one on the loopback device, on its way to DeferredRouteOutput.        *)

Rreq == [type : {"RREQ"}, id : Nat, dst : Node, dstSeqNo : Nat,
         unknownSeqNo : BOOLEAN, origin : Node, originSeqNo : Nat, hopCount : Nat]

\* A hello message is a RREP whose destination is its originator.
Rrep == [type : {"RREP"}, dst : Node, dstSeqNo : Nat, origin : Node,
         hopCount : Nat, ackRequired : BOOLEAN]

Rerr == [type : {"RERR"}, unreachable : SUBSET Node]

RrepAck == [type : {"RREP_ACK"}]

\* A verification probe of the wormhole detector, or the answer to one.
Rverify == [type : {"RVERIFY"}, response : BOOLEAN]

Data == [type : {"DATA"}, id : Nat]

Body == Rreq \cup Rrep \cup Rerr \cup RrepAck \cup Rverify \cup Data

IpPacket == [src : Node, dst : Node \cup {Bcast}, ttl : Nat, body : Body]

UnicastPacket == {p \in IpPacket : p.dst # Bcast}

\* Only unicast packets go over the loopback device.
Frame == {f \in [from : Node, to : Node, ip : IpPacket] :
              f.from = f.to => f.ip \in UnicastPacket}

Ip(src, dst, ttl, body) == [src |-> src, dst |-> dst, ttl |-> ttl, body |-> body]

Transmit(n, m, ip) == [from |-> n, to |-> m, ip |-> ip]

IsLoopback(f) == f.from = f.to

NewRrep(dst, dstSeqNo, origin, hopCount, ackRequired) ==
    [type |-> "RREP", dst |-> dst, dstSeqNo |-> dstSeqNo, origin |-> origin,
     hopCount |-> hopCount, ackRequired |-> ackRequired]

NewRerr(unreachable) == [type |-> "RERR", unreachable |-> unreachable]

\* Mutant: the echo does not say that it is a response.
NewRverifyAlwaysProbe(response) == [type |-> "RVERIFY", response |-> FALSE]

NewRverify(response) == [type |-> "RVERIFY", response |-> response]

\* A broadcast is heard by the nodes in range when it is sent.
Broadcast(n, ttl, body) ==
    {Transmit(n, m, Ip(n, Bcast, ttl, body)) : m \in {x \in Node \ {n} : {n, x} \in links}}

\* UdpSocket::SendTo calls RouteOutput again: the datagram takes the valid
\* route of table t to h or, without one, the loopback device.
SendTo(t, n, h, ttl, body) ==
    IF LookupValidRoute(t, h) THEN {Transmit(n, t[h].nextHop, Ip(n, h, ttl, body))}
                              ELSE {Transmit(n, n, Ip(n, h, ttl, body))}

-----------------------------------------------------------------------------
Init ==
    /\ rt = [n \in Node |-> EmptyTable]
    /\ nb = [n \in Node |-> {}]
    /\ seqNo = [n \in Node |-> 0]
    /\ requestId = [n \in Node |-> 0]
    /\ rreqIdCache = [n \in Node |-> {}]
    /\ queue = [n \in Node |-> {}]
    /\ addressReqTimer = [n \in Node |-> [d \in Node |-> FALSE]]
    /\ delayedRequest = [n \in Node |-> [d \in Node |-> 0]]
    /\ rreqCount = [n \in Node |-> 0]
    /\ rerrCount = [n \in Node |-> 0]
    /\ up = [n \in Node |-> TRUE]
    /\ helloTimer = [n \in Node |-> EnableHello]
    /\ lastBcast = [n \in Node |-> FALSE]
    /\ rttProbe = [n \in Node |-> {}]
    /\ underVerification = [n \in Node |-> {}]
    /\ verificationProbe = [n \in Node |-> {}]
    /\ suspect = [n \in Node |-> {}]
    /\ net = {}
    /\ links = InitLinks
    /\ sent = {}
    /\ delivered = {}
    /\ events = 0
=============================================================================
