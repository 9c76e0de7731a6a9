---------------------------- MODULE AodvBroadcast ----------------------------
(***************************************************************************)
(* Broadcast data packets in a network: the branch of                      *)
(* RoutingProtocol::RouteInput (src/aodv/model/aodv-routing-protocol.cc)   *)
(* that delivers and forwards them, with the duplicate detection of each   *)
(* node.  IP and the channel are external: a frame arrives within          *)
(* MaxDelay, in any order, or is lost, and IP counts the TTL down.         *)
(***************************************************************************)
EXTENDS AodvClock, FiniteSets

CONSTANTS
    FloodNode,
    Networks,       \* Records [links, silent]: sets of two nodes, and the nodes
                    \* with EnableBroadcast off.
    Broadcasts,     \* Records [src, scope].
    InitialTtl,
    MaxDelay,
    DpdLifetime,    \* The lifetime in m_dpd: PathDiscoveryTime.
    MaxLosses       \* Bound: the number of frames lost.

\* "limited" is 255.255.255.255, "aodv" a packet to the AODV port.
Scopes == {"subnet", "limited", "aodv"}

\* PathDiscoveryTime covers the traversal of the network, and so does the TTL.
ASSUME FloodAssumption ==
    /\ IsFiniteSet(FloodNode)
    /\ Broadcasts \subseteq [src : FloodNode, scope : Scopes]
    /\ {MaxDelay, DpdLifetime, InitialTtl} \subseteq Nat
    /\ DpdLifetime >= (Cardinality(FloodNode) - 1) * MaxDelay
    /\ InitialTtl >= Cardinality(FloodNode) - 1

VARIABLES
    network,        \* The one of Networks in which all this happens.
    air,            \* The frames under way.
    known,          \* Until when the m_dpd of a node knows a packet, or -1.
    losses,         \* The frames lost.
    started,        \* History: the packets that were sent,
    received,       \* the deliveries, pairs of a node and a packet,
    redelivered     \* and whether one of them was repeated.

floodVars == <<network, air, known, losses, started, received, redelivered>>

FloodInit ==
    /\ network \in Networks
    /\ air = {}
    /\ known = [n \in FloodNode |-> [p \in Broadcasts |-> -1]]
    /\ losses = 0
    /\ started = {}
    /\ received = {}
    /\ redelivered = FALSE

Adjacent(n) == {m \in FloodNode : {n, m} \in network.links}

Frames(n, p, ttl) ==
    {[from |-> n, to |-> m, packet |-> p, ttl |-> ttl, due |-> now + MaxDelay] : m \in Adjacent(n)}

\* Time does not pass a frame that has to arrive.
FramesInTime == \A f \in air : now < f.due

-----------------------------------------------------------------------------
\* RouteOutput finds the route to the broadcast address of the subnet; IP sends
\* a limited broadcast, and AODV's own, without it.
SendBroadcast(p) ==
    /\ p \notin started
    /\ started' = started \cup {p}
    /\ air' = air \cup Frames(p.src, p, InitialTtl)
    /\ UNCHANGED <<network, known, losses, received, redelivered>>

\* Mutant: an entry of the cache goes at the end of its lifetime, not after it.
IsDuplicateBroadcastShort(f) == now < known[f.to][f.packet]

\* m_dpd.IsDuplicate; AodvIdCache is the cache behind it.
IsDuplicateBroadcast(f) == now <= known[f.to][f.packet]

\* Mutant: the packet is forwarded if two more hops are left.
ForwardsBroadcastEarlier(f) ==
    /\ f.to \notin network.silent
    /\ f.packet.scope = "subnet"
    /\ f.ttl > 2

\* There is a route to the broadcast address of a subnet (NotifyInterfaceUp adds
\* it) and none to 255.255.255.255.
ForwardsBroadcast(f) ==
    /\ f.to \notin network.silent
    /\ f.packet.scope = "subnet"
    /\ f.ttl > 1

\* The node's own packet comes back, or one that it has had.
DropBroadcast(f) ==
    /\ f.to = f.packet.src \/ IsDuplicateBroadcast(f)
    /\ air' = air \ {f}
    /\ UNCHANGED <<network, known, losses, started, received, redelivered>>

\* The packet is delivered and, perhaps, forwarded.  That the route to its source
\* lives longer now is no concern of this module.
DeliverBroadcast(f) ==
    /\ f.to # f.packet.src
    /\ ~IsDuplicateBroadcast(f)
    /\ known' = [known EXCEPT ![f.to][f.packet] = now + DpdLifetime]
    /\ received' = received \cup {<<f.to, f.packet>>}
    /\ redelivered' = (redelivered \/ <<f.to, f.packet>> \in received)
    /\ air' = (air \ {f}) \cup
              (IF ForwardsBroadcast(f) THEN Frames(f.to, f.packet, f.ttl - 1) ELSE {})
    /\ UNCHANGED <<network, losses, started>>

LoseBroadcast(f) ==
    /\ losses < MaxLosses
    /\ losses' = losses + 1
    /\ air' = air \ {f}
    /\ UNCHANGED <<network, known, started, received, redelivered>>

FloodNext ==
    \/ \E p \in Broadcasts : SendBroadcast(p)
    \/ \E f \in air : DropBroadcast(f) \/ DeliverBroadcast(f) \/ LoseBroadcast(f)

FloodTick ==
    /\ FramesInTime
    /\ now' = now + 1
    /\ UNCHANGED floodVars

FloodSpec ==
    /\ now = 0 /\ FloodInit
    /\ [][(FloodNext /\ UNCHANGED now) \/ FloodTick]_<<now, floodVars>>

-----------------------------------------------------------------------------
\* No node delivers a broadcast packet twice: the entries of the duplicate
\* detection, which are not renewed, outlive all copies of the packet, those that a
\* node caused itself and gets back over a detour included.
BroadcastDeliveredOnce == ~redelivered

\* When the copies of a packet are gone and none was lost, each neighbour of a
\* node that forwards it has it, in whatever order the copies came: the TTL of the
\* copy that came first, over a detour perhaps, is the one that counts.
FloodIsComplete ==
    \A p \in started :
        (losses = 0 /\ \A f \in air : f.packet # p) =>
            \A n \in FloodNode :
                n = p.src \/ (p.scope = "subnet" /\ n \notin network.silent /\ <<n, p>> \in received)
                => \A m \in Adjacent(n) \ {p.src} : <<m, p>> \in received
=============================================================================
