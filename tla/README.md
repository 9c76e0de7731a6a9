# AODV with the RTT wormhole detector: a TLA+ development

The repository is ns-3 with one subsystem changed: `src/aodv`, the Ad hoc
On-demand Distance Vector routing protocol, to which an RTT-based wormhole
detector with a second, verifying probe was added. `scratch/` holds the
simulations that use it. Everything else is the upstream simulator. This
directory models the AODV protocol as the code implements it, checks it with TLC
on small networks and proves its invariants with TLAPS for networks of any size.

It does so at two levels. The *protocol modules* follow all nodes of a network
through route discovery and leave time out: what has a deadline may happen at any
moment. The *part modules* look at one part of one node, with the clock: the queue,
the neighbours, the id cache, the detector, the sockets, and the flooding of broadcasts.

Paths below are relative to `src/aodv/model/`; RP stands for
`aodv-routing-protocol.cc`.

## The system

| part | state | operations |
|---|---|---|
| routing protocol (RP) | sequence number, request id, retry timers, rate limit counters, sockets | `RouteOutput`, `RouteInput`, `Forwarding`, `DeferredRouteOutput`, `SendRequest`, `RecvRequest`, `SendReply`, `SendReplyByIntermediateNode`, `RecvReply`, `RecvReplyAck`, `RecvError`, `ProcessHello`, `SendRerr*`, `RouteRequestTimerExpire`, `HelloTimerExpire`, `NotifyInterfaceUp/Down`, `NotifyAdd/RemoveAddress` |
| routing table (`aodv-rtable`) | map from destination to entry (flag, sequence number and its validity, hop count, next hop, precursors, RREQ count, lifetime, blacklist) | `LookupRoute`, `LookupValidRoute`, `AddRoute`, `Update`, `DeleteRoute`, `InvalidateRoutesWithDst`, `GetListOfDestinationWithNextHop`, `Purge`, `Clear` |
| request queue (`aodv-rqueue`) | packets that wait for a route, with expiry times | `Enqueue`, `Dequeue`, `DropPacketWithDst`, `Purge` |
| neighbours (`aodv-neighbor`) | neighbours with hardware address and expiry time | `Update`, `Purge`, `ProcessTxError`, `Clear`, the link failure callback |
| RREQ id cache, duplicate detection (`aodv-id-cache`, `aodv-dpd`) | recently seen ids | `IsDuplicate`, `GetSize`, `SetLifetime` |
| RTT estimator of TCP (`internet/model/rtt-estimator.cc`) | mean and deviation of round trips | `Measurement` with two arithmetics, `Reset`, the gains |
| messages (`aodv-packet`) | RREQ, RREP, RERR, RREP_ACK, RVERIFY | serialisation |
| wormhole detector (in RP) | start times of probes, RTT averages, neighbours under verification, suspects | `StartRttProbe`, `EvaluateRttProbe`, `SendVerificationTestPacket`, `EvaluateVerificationProbe`, `IsNeighborTemporarilySuspect` |

How they interact. IP asks `RouteOutput` for a route; without one the packet
goes over the loopback device into `DeferredRouteOutput`, which queues it and
calls `SendRequest`. RREQs flood and leave reverse routes behind, RREPs come back
along them and leave forward routes. A RREP at the originator, or the retry
timer, empties the queue. The neighbour table reports broken links, which
invalidates routes and sends RERRs to their precursors. The detector sits in
`RecvReply`, before a route is installed.

What is hard. One node is sequential (the simulator runs one event at a time),
but a route discovery is a distributed computation: frames are lost, delayed and
overtake each other, timers race with late answers, rings are repeated while
answers to earlier rings are under way, lifetimes end anywhere in between, and an
interface may go down and take the table, but not the queue and the timers, with
it. The list of hazards, with lines and the properties aimed at each, is in
`PROJECT.json`.

## Modules

The protocol modules; each extends the one above it.

| module | models |
|---|---|
| `AodvRoutingTable` | class `RoutingTable`: operations as functions from tables to tables |
| `AodvState` | the variables of all nodes, messages, frames, `SendTo` and broadcasts, `Init` |
| `AodvDiscovery` | `SendRequest`, rate limit, expanding ring, retry timer, queue |
| `AodvForwarding` | `RouteOutput`, `DeferredRouteOutput`, `RouteInput` for data, `Forwarding`, the three senders of RERRs |
| `AodvControl` | `RecvAodv`: all handlers of control messages, the detector |
| `AodvRoutingProtocol` | hello and rate limit timers, the environment, `Next`, fairness, the properties |
| `AodvTableProofs` | what table operations preserve (extends `AodvControl`) |
| `AodvInvariantProofs` | the inductive invariant, types, next hops, sequence numbers |
| `AodvSearchProofs` | no search and no packet is stranded, how a search passes its last retry, which routes may follow which |
| `MCChain`, `MCPair` | three nodes in a row, two nodes; scenarios for TLC |
| `MCRerrRate` | the chain with a history variable that counts RERRs |

The part modules. They share the clock (`AodvClock`) and nothing else.

| module | models |
|---|---|
| `AodvRequestQueue` | class `RequestQueue`: expiry, order, limit, both settings |
| `AodvPacketBuffer` | what the protocol modules expect of the queue: the abstract specification |
| `AodvNeighbors` | class `Neighbors`: expiry, `m_ntimer`, hardware addresses from ARP |
| `AodvIdCache` | class `IdCache`, for RREQs and (by `DuplicatePacketDetection`) for broadcasts |
| `AodvWormholeDetector` | both probes with their start times, thresholds, moving averages, suspects |
| `AodvSoftState` | the four above under one clock, the refinement `QueueIsBuffer`, their properties |
| `AodvInterfaces` | sockets, end points and routes when interfaces go up and down and addresses come and go |
| `AodvBroadcast` | the broadcast branch of `RouteInput` in a network, with delays, losses and duplicate detection |
| `RttEstimator` | class `RttMeanDeviation` |
| `AodvSoftStateProofs`, `AodvQueueProofs` | theorems about `AodvSoftState` |
| `AodvInterfacesProofs`, `AodvBroadcastProofs`, `RttEstimatorProofs` | theorems about the other three |
| `MCInterfaces`, `MCNodeParts` | two interfaces with three addresses; all parts for TLC |

Definitions whose comment begins with "Mutant" are deliberately wrong variants of the
definition that follows them. They occur in no specification: replacing the definition
by the variant must violate the property that `PROJECT.json` pairs it with, which
shows that the property depends on that piece of code.

### State

The variables are named after the members of the class: `rt`
(`m_routingTable`), `nb` (`m_nb`), `seqNo`, `requestId`, `rreqIdCache`, `queue`,
`addressReqTimer`, `rreqCount`, `rerrCount`, `lastBcast`, `rttProbe`,
`underVerification`, `verificationProbe`, `suspect`, each a function of the node.
`delayedRequest` counts the calls of `SendRequest` that the rate limiter has
scheduled, `up` says whether the node has sockets, `helloTimer` whether `m_htimer`
runs. `net` is the set of frames in flight, `links` the links that are up; `sent` and
`delivered` belong to the applications.

### What an action is

One run of one event handler to its end, with all the table updates, queue
flushes and messages it causes. `RecvAodv` updates the route to the neighbour
before it dispatches, so each handler works on `TableAfterRecvAodv(f)`.
Unicast control messages leave through `UdpSocket::SendTo`, which calls
`RouteOutput` again; `SendTo` looks the route up in the table the handler has
reached at that moment, and falls back to loopback as the code does. A RERR leaves after
a jitter: a unicast one is therefore routed with the table that the handler
leaves. A frame from a node to itself is a packet on the loopback device.

### Abstractions

* Time. A timer that is armed may fire at any moment and a lifetime may end at
  any moment. This covers every setting of the time-outs and also combinations that a
  given setting excludes. `TimelyNetwork = TRUE` restricts it: no retry timer fires while
  a frame is in flight. It is used only for delivery, which needs it.
* The ends of lifetimes, lost frames, links that change and interfaces that go down
  are counted, and at most `MaxEvents` of them happen in a behaviour. Losing a frame on
  a link that is down is free.
* `net` is a set: two identical frames in flight at the same time are one, and there is
  no order between frames.
* The queue is a set, and a full queue drops any one of its packets, of which dropping
  the oldest is one case; a failed search drops all packets for its destination. These are
  steps of `AodvPacketBuffer`, which the real queue is shown to implement.
* One interface and hence one address per node.
* Whether a round trip is anomalous is a free choice whenever the code compares one;
  `AodvWormholeDetector` has the comparison.
* The RREQ id cache does not forget (`AodvIdCache` does). Sequence numbers stay below 2^31, so that the signed
  difference compares exactly.
* `Neighbors::Update` purges the table before it updates; an expiry is the action
  `NeighbourExpire`, which may happen at the same moments. A transmission error for a
  neighbour without a known hardware address goes unnoticed (`LoseFrame`).
* Left out because it has no effect: the blacklist and the ack timer (RP:2084 sets the
  delay of the timer of a copy of the entry and nothing schedules it, so that
  `AckTimerExpire` never runs).

In the part modules:

* Time is in whole units and passes by `Tick`, never past a timer or a frame that is due; any number
  of calls may happen at one time. Calls of a part come in any order and with any of the
  arguments the constants allow: every caller is covered.
* An entry of the queue has the number of its arrival instead of a position in the vector.
  `AodvPacketBuffer` uses these numbers as identities of waits. `MaxQueueLen` 0 is excluded: `Enqueue`
  would read the front of an empty vector.
* Round trips are integers, `Scale` parts to a unit. A product with a double is modelled by what
  `Time::FromDouble` does, rounding half away from zero; the integer arithmetic of the
  estimator by division that rounds down.
* Maps from sockets to addresses are ordered by pointers, so a search by address returns any
  entry that fits. `GetAddress(i, 0)` ends the program if there is no address, so
  interfaces go up and down only while they have one (`AodvInterfaces`).
* The lifetime in the caches is a parameter. RP:292 copies `PathDiscoveryTime` into both
  caches when the object is made and setting the attribute later does not reach them.
  `FloodAssumption` asks for a lifetime that covers the network, which the default
  does for the default diameter.
* Histories (`sent`, `failed`, `accepted`, `misread`, `repeated`, `received`...) record what the
  properties speak of; no action reads them.

## Runs

| run | instance | what it shows |
|---|---|---|
| `chain` | a-b-c, a sends to c, gratuitous RREPs, rings 1 and 2, one RREQ per window, detector without second probe, one event | `TypeOK`, `SeqNoBounded`, `NoStrandedSearch`, `NoStrandedPacket`, `RouteHasNextHop`, `OneHopIsDirect`, `SuspectsGainNoRoutes`, and the liveness property `QueueDrains` |
| `deferred` | chain, two packets a to c and one to b, one RREQ per window, full-range requests, one retry, any delays, no failure | `OverrunsAreDeferred` (action property); searches do pass `RreqRetries` in this instance |
| `overtaking` | chain, one packet a to c, full-range requests, two retries, both probes, no loss | `FreshRoutesStayFresh`, and `VerificationDecided` (liveness) |
| `pair` | a-b with hello messages, one RREQ per window | `NoStrandedPacket`, `SeqNoBounded` when requests are deferred and hello messages end searches |
| `deliver` | chain, a and c send to each other, no failure, timely network | `EventuallyDelivered` (liveness) |
| `parts` | each part by itself: three packets and three arrivals; two neighbours; two ids; one peer with three requests; six sockets; two networks of four nodes | `QueueIsBuffer` (refinement), `SentInOrder`, `OverdueNeighboursLeave`, `AcceptedOnce`, `SecondProbeIsTimed`, `LearnedRttWithinAccepted`, `EstimateWithinSamples`, `ActiveInterfacesTakePart`, `ReceivingSocketsKnown`, `RoutesUseOwnAddresses`, `BroadcastDeliveredOnce`, `FloodIsComplete` |

States visited: `pair` 760,000 (with a view that leaves out what was delivered, which nothing there depends on), `parts` 630,000, `deferred` 270,000, `chain` 47,000, `overtaking` and `deliver` 10,000 and 7,000, the last three with
liveness. In `parts` a behaviour uses one of
the parts (`inUse`): they share nothing but the clock, and a product of their states would show nothing new.
Among the passing runs only this one may stop, since behaviours end at the bounds on time, arrivals and sockets.
The bounds of the parts: the time is long enough for an entry to expire, to be replaced and to expire again
(`TableTime`), and for three probes with learning in between (`MaxTime`); three arrivals with a limit of one or
two overflow the queue and, when the limit is lowered, exceed it; six sockets
are three generations of an address. The two networks for broadcasts are the smallest in which the
second copy of a packet takes as long as it can (a ring with a node that does not forward) and
in which a detour may overtake the direct way (a triangle with a tail).

Bounds. Three nodes in a row are the smallest network with a relay, an
intermediate reply, precursors and a ring that does not reach; two nodes are enough for
what happens at one node and its neighbour. `MaxSeqNo` bounds the requests of a node:
one more than the retries in most runs. A request that the bound suppresses cannot make a
liveness property hold: the retry timer stays armed and unable to fire, so that its packet would stay.
`QueueDrains` is checked with one packet: `deferred` requests beside fresh ones need several, and then a search may pass its last
retry and never end (`retries`). `deferred` asks which steps can do that; two packets for one destination are not enough
to make it happen, hence the third for another. It has no failures, which the theorem `OverrunsDeferred` covers.
One event reaches every failure handler; the runs that are small enough have more.
Together the runs take every action and every alternative of `Next`.
In the runs of the protocol modules deadlock checking is on, but says little, since the rate limit timers are always enabled.

Fairness. `FairSpec` asks that the simulator does not stop while it has events:
weak fairness of the disjunction of all frame receptions, losses and timers. No handler,
frame or timer is singled out, but for one: the timer that resets the RREQ count once a second
(`RreqRateLimitTimerExpire`). `Start` schedules it and it schedules itself, so that it
expires as surely as simulated time passes, while the disjunction alone would let other timers run for ever in no time.
The simulator's event loop runs until its queue is empty, which is just this. The environment's events and the applications' sends are not fair.

### Disagreements between code and comments

Each of these runs checks one property that a comment in the code states, and TLC finds
a behaviour of the code that breaks it. The branch that RP:2260 calls "Impossible!" is another
one: `RecvReplyImpossible` is taken in `chain`, by a relay that was down and up again between RREQ and RREP.

| run | comment | what happens |
|---|---|---|
| `retries` | RP:2453, retries are limited | the retry count is compared with `==`; a request deferred by the rate limit and a fresh one both count, the value is jumped over, and the search goes on without end |
| `neighbours` | `aodv-neighbor.h`:51 "active neighbors" | `Forwarding` ignores a failed lookup of the origin and adds the default address. The trace shows a data packet that overtakes the RREP of its sender; a lost RREP does the same |
| `rerr_rate` | RP:2643 limit of RERRs per second | `SendRerrWhenNoRouteToForward` and the broadcast branch of `SendRerrMessage` do not count |
| `lost_probe` | RP:1460, 1476 the decision is deferred | no time-out: a lost probe or answer keeps the neighbour under verification, and later anomalies do nothing |
| `probe_restart` | RP:1324, 1410 the probe measures the round trip | a repeated RREQ overwrites the start time; the RREP to the earlier one is measured from it and looks too fast |
| `stale_socket` | `aodv-routing-protocol.h`:317 one broadcast socket per interface, with its address | RP:1075 erases the broadcast socket from the map of the unicast ones; closed sockets pile up, a later lookup finds one of them, and the open socket of a removed address goes on receiving |

Noticed while modelling, without a run of their own: `NotifyInterfaceDown` of the last interface clears the table (RP:999) and with
it the route to 127.0.0.1 that only `SetIpv4` adds (RP:883), so that a packet to the loopback address would start a
discovery after the interface is up again, which no document rules out; for a RREQ straight from its originator RP:1925 undoes
what the comment at RP:1852 says of the sequence number; the unicast socket that RP:1024 opens for a new
address lacks `SetIpRecvTtl`, which the others have; `aodv-rqueue.cc`:63 compares the size with `==`, so that a queue
whose limit was lowered stays above it (`AodvPacketBuffer` allows just this).

## Proofs

`tlapm` checks every proof. They hold for any set of nodes, links, packets and parameters
that satisfy the named assumptions of `AodvRoutingTable` and `AodvState`: the
default and broadcast addresses are not addresses of nodes, links join two nodes, no packet is
sent to its own source, parameters are naturals, `MaxQueueLen` is not zero, and
`TtlIncrement >= 1`, `NetDiameter >= 2`.

| theorem | property |
|---|---|
| `TypeCorrect` | `TypeOK` |
| `NextHopsExist` | `RouteHasNextHop` |
| `OneHopRoutesAreDirect` | `OneHopIsDirect` |
| `SequenceNumbersBounded` | `SeqNoBounded` |
| `NoSearchIsStranded` | `NoStrandedSearch` |
| `NoPacketIsStranded` | `NoStrandedPacket` |
| `QueueImplementsBuffer` | `QueueIsBuffer` |
| `PacketsSentInOrder` | `SentInOrder` |
| `OverdueLeave` | `OverdueNeighboursLeave` |
| `IdsAcceptedOnce` | `AcceptedOnce` |
| `SecondProbesTimed` | `SecondProbeIsTimed` |
| `LearnedRttBounded` | `LearnedRttWithinAccepted` |
| `RoutesStayFresh` | `FreshRoutesStayFresh` (action property) |
| `SuspectsAreAvoided` | `SuspectsGainNoRoutes` (action property) |
| `OverrunsDeferred` | `OverrunsAreDeferred` (action property) |
| `ReceiversAreKnown` | `ReceivingSocketsKnown` |
| `RoutesUseOwn` | `RoutesUseOwnAddresses` |
| `ActiveTakePart` | `ActiveInterfacesTakePart` |
| `BroadcastsDeliveredOnce` | `BroadcastDeliveredOnce` |
| `FloodsAreComplete` | `FloodIsComplete` |
| `EstimateStaysWithinSamples` | `EstimateWithinSamples` |

The six from `QueueImplementsBuffer` to `LearnedRttBounded` are about `AodvSoftState` and use `QueueAssumption`,
`NeighbourAssumption`, `IdCacheAssumption` and `DetectorAssumption`: parameters are naturals, the limit of the queue and
the delay of the neighbours' timer are not zero. The last six rest on the assumptions of their modules:

* `InterfaceAssumption`: interfaces are in different subnets, and nobody has the broadcast address of a subnet as
  its own. Two interfaces in one subnet would have one broadcast route between them. The bound on sockets is finite.
* `FloodAssumption`: there are finitely many nodes, `PathDiscoveryTime` is at least one delay for each
  node but one, and the TTL reaches across the network. The default of the former is twice `NetTraversalTime` (RP:379).
* `EstimatorAssumption`: samples are not negative, gains lie between 0 and 1 (which the attributes' checkers ask for).

The argument. None of the properties is inductive, because tables make messages and
messages make tables. `IInv` describes both:

* `TablesOK`: each entry is in `GoodEntry(n, d, seqNo)`. An entry that is valid or invalid, *or
  whose sequence number is valid*, has a next hop other than the node itself, at least one
  hop, and its destination as next hop if it is one hop. A valid number is not ahead of the
  destination's. The node is not its own precursor. The second disjunct is
  what makes it inductive: an entry in search may be made valid again by a RREP_ACK or by
  a RREQ that leaves its flag alone.
* `NetOK` and `QueuesOK`: each RREQ and RREP in flight or in a queue describes a
  route a receiver may install: no number ahead of its node, a hop count of zero only
  straight from the node in question, no loopback of broadcasts, no packet to its own source.
* `OtherOK`: the types of the rest, and that no node searches for itself.

`GoodEntry` and its companions are sets that grow with the sequence numbers
(`GoodTableMonotonic`, `GoodFrameMonotonic`), so that a handler has to be examined only at the node that runs it and for
the frames it sends. `AodvTableProofs` has a lemma for each table operation,
`AodvInvariantProofs` one for each handler. `RingAssumption` is used in one place: the hop count of an
entry in search holds the ring of the last request, and a RREP_ACK turns the entry VALID
as it is; a ring of one would make it claim to be a neighbour.

For stranded searches, a table change is *calm* if it puts no entry into search, and a
step is *quiet* if it is calm and takes away no timer, no scheduled request and adds no
packet to a queue. All handlers are quiet but the six that touch searches (`SendRequest` from its three
callers, the two ends of a search in the retry timer, and a RREP at the originator),
which have lemmas of their own.

For the action properties of routes a table *succeeds* another if it may follow it: no route has an older number unless it was
heard from its destination, and no route leads to a suspect that did not before (`Succeeds`). `AodvTableProofs` has a
lemma for each table operation again, this time about what it does to one entry, since a handler applies several in a row.
`Steady` says it of every table in a step. With the detector on, a RREP of a suspect is dropped before a route is installed;
`DetectorOff`, an invariant, says that nobody is suspect without it. `NewOrigins` are the originators of RREQs seen for the first time, the
exception in the property.

`FreshRoutesStayFresh` exempts routes heard from the destination itself. `UpdateRouteToNeighbor` forgets the number of
a longer route when the destination turns up as a neighbour, and `ProcessHello` overwrites the number without looking.
On a triangle a, b, c, a hello message of c that was sent before c reached number 1 may arrive at a after b's RREP taught a
that number. Without the exemption the property is false there; the chain is too small to show it.

`OverrunsAreDeferred` is what is left of the limit that RP:2453 promises and the run `retries` refutes. It needs to know that a search
at the limit has a running timer, which `NoStrandedSearch` does not say (a deferred call would do). `CountsOK` says it, and that
an entry that is not in search has count 0. `SendRequest` arms the timer whenever it counts; `RequestTimerRetry`
stops it, but does nothing to a search at the limit; and whatever else stops it takes the entry out of search (`EndCounts`).

For the parts, a step is one of the part's own operations or leaves it alone (`Steps`), and each part has its own
inductive invariant:

* `QueueInv`: entries and past waits have numbers of their own below the next one. It makes waits and
  entries correspond one to one (`WaitsMinus`, `WaitsCardinality`), which both the refinement and the
  order need, and with finiteness gives a most aged entry (`MostAgedExists`, from `LeastElement`). Each operation is then shown
  to be one step of the buffer: `GiveUp` for whatever only purges or drops, `Take` for a new packet, `HandOut` for `Dequeue`.
* `NeighborsInv`: the timer runs while there is a neighbour, has not been missed, and expires no later than
  the delay after any neighbour is due. That `Purge` restarts the timer for all is what makes it inductive.
* `IdCacheInv`: an acceptance that still counts has an entry with the same time.
* `DetectorInv`: a probe that is out started in the past, and an echo under way belongs to the verification of its
  neighbour and carries its start time; hence there is one echo per neighbour (`OneEcho`). For the averages, the rounded part of a
  difference lies between zero and the difference (`PartBetween`), so that each update moves the mean between
  its old value and the sample, and the deviation between its old value and the new error.
* `InterfaceInv`: each address has at most one unicast socket, of an interface that is up and has the address first; each end
  point belongs to a known socket and to the interface of its address (`EndpointsOwned`); each route but the loopback one uses
  such an address (`RoutesOwned`). Of several broadcast sockets for an address a lookup may find a closed one and leave the open one as it
  is; hence `ActiveServed` asks for an entry with the address and for an end point that receives, and not that the two belong together.
* `FloodInv`: an induction over paths turned into counting. Each copy of a packet was caused by a chain of acceptances, each by
  another node, so that the number of nodes that have the packet bounds both how late a copy may come (`CopiesAreBounded`) and how
  far its TTL has been counted down (`TtlCountsReceivers`). The first gives delivery at most once, the second that no node
  stops forwarding too early; `NeighboursServed` says that a neighbour of a forwarding node has the packet or a copy on its way.
* `EstimatorInvariant`: for each of the two arithmetics, the part of an error that is added lies between zero and the error
  (`ScaledBounds` for the product, `Quotient` and `QuotientAtMost` for the shift, which rounds down).

Only model-checked: liveness (`QueueDrains`, `EventuallyDelivered`, `VerificationDecided`), which TLAPS cannot
prove here. The invariants and action properties that the passing runs check are all proved.

## Not modelled

* The attack switches (`IsMalicious`, `EnableWrmAttack`), which are off by default and which no handler needs.
* The bytes of messages (`aodv-packet`): the fields are modelled, their serialisation is a fixed list of reads and
  writes without state.
* The blacklist and the ack timer, which have no effect (see above); `Print` and traces.
* `AodvHelper`, which builds objects, and the simulations in `scratch/`, which are straight-line set-up and plots.
* The rest of ns-3: the simulator core, IP, TCP, Wi-Fi, LTE, the other routing protocols, some 760,000 lines that
  this repository takes unchanged from the upstream distribution. The models cover what the repository adds and
  changes, and the code around it that AODV is made of; of the rest, the parts that AODV touches appear as environment
  (frames, links, sockets, end points, ARP, the clock). Measured against the whole tree the share of modelled lines is
  therefore small, and it cannot be otherwise without turning to programs that are not this one.

## Plan

Done: the protocol's core; the parts with their times; the refinement of the queue; broadcasts; the theorems above. Left:

1. The id cache and the neighbours as refinements of what the protocol modules use of them, with proofs.
2. Larger topologies (a square, four in a row) for precursors, RERRs and loops, where TLC's time allows.
