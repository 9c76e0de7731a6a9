------------------------- MODULE AodvBroadcastProofs -------------------------
(***************************************************************************)
(* Broadcasts are delivered once, and to everyone they can reach, in every *)
(* network, for every delay and every order in which the frames arrive.    *)
(***************************************************************************)
EXTENDS AodvBroadcast, FiniteSetTheorems, TLAPS

-----------------------------------------------------------------------------
\* The inductive invariant.

\* The nodes that have had p.
Got(p) == {n \in FloodNode : <<n, p>> \in received}

FrameType ==
    [from : FloodNode, to : FloodNode, packet : Broadcasts, ttl : Nat, due : Nat]

FloodTypeOK ==
    /\ now \in Nat
    /\ air \subseteq FrameType
    /\ known \in [FloodNode -> [Broadcasts -> Int]]
    /\ losses \in Nat
    /\ started \subseteq Broadcasts
    /\ received \subseteq FloodNode \X Broadcasts
    /\ redelivered \in BOOLEAN

\* Frames are under way for MaxDelay at most, and only of packets that were sent.
FramesOnTime ==
    \A f \in air : now <= f.due /\ f.due <= now + MaxDelay /\ f.packet \in started

\* A node that has had p accepted it DpdLifetime before its entry ends.
EntriesOfReceivers ==
    \A n \in FloodNode, p \in Broadcasts :
        IF <<n, p>> \in received
        THEN /\ DpdLifetime <= known[n][p] /\ known[n][p] <= now + DpdLifetime
             /\ n # p.src
             /\ p \in started
        ELSE known[n][p] = -1

\* After a node has accepted p, each copy of p was caused by a chain of acceptances
\* by other nodes, each within MaxDelay of the one before.
CopiesAreBounded ==
    \A n \in FloodNode, f \in air :
        <<n, f.packet>> \in received =>
            f.due + DpdLifetime <=
                known[n][f.packet] + (1 + Cardinality(Got(f.packet) \ {n})) * MaxDelay

\* The nodes that pass p on to their neighbours.
Spreads(n, p) ==
    n = p.src \/ (p.scope = "subnet" /\ n \notin network.silent /\ <<n, p>> \in received)

\* Each hop costs one of the TTL and is the first copy for some node.
TtlCountsReceivers == \A f \in air : f.ttl + Cardinality(Got(f.packet)) >= InitialTtl

\* Without losses, a neighbour of a node that passes p on has p or is about to get it.
NeighboursServed ==
    losses = 0 =>
        \A p \in started, n \in FloodNode : Spreads(n, p) =>
            \A m \in Adjacent(n) \ {p.src} :
                <<m, p>> \in received \/ \E f \in air : f.to = m /\ f.packet = p

FloodInv ==
    /\ FloodTypeOK
    /\ FramesOnTime
    /\ EntriesOfReceivers
    /\ CopiesAreBounded
    /\ TtlCountsReceivers
    /\ NeighboursServed
    /\ ~redelivered

-----------------------------------------------------------------------------
\* Counting receivers.

LEMMA FloodConstants ==
    /\ MaxDelay \in Nat /\ DpdLifetime \in Nat /\ InitialTtl \in Nat
    /\ IsFiniteSet(FloodNode) /\ Cardinality(FloodNode) \in Nat
    /\ \A p \in Broadcasts : p.src \in FloodNode
BY FloodAssumption, FS_CardinalityType

LEMMA GotFinite ==
    ASSUME NEW S, S \subseteq FloodNode
    PROVE  IsFiniteSet(S) /\ Cardinality(S) \in Nat
BY FloodConstants, FS_Subset, FS_CardinalityType

\* The source of a packet and another node are no receivers of it but one.
LEMMA TwoLess ==
    ASSUME NEW S, S \subseteq FloodNode, NEW a \in FloodNode \ S, NEW b \in FloodNode \ S, a # b
    PROVE  Cardinality(S) + 2 <= Cardinality(FloodNode)
<1>1. IsFiniteSet(S) /\ Cardinality(S) \in Nat
    BY GotFinite
<1>2. IsFiniteSet(S \cup {a}) /\ Cardinality(S \cup {a}) = Cardinality(S) + 1
    BY <1>1, FS_AddElement
<1>3. Cardinality((S \cup {a}) \cup {b}) = Cardinality(S \cup {a}) + 1
    BY <1>2, FS_AddElement
<1>4. Cardinality((S \cup {a}) \cup {b}) <= Cardinality(FloodNode)
    <2>1. (S \cup {a}) \cup {b} \subseteq FloodNode
        OBVIOUS
    <2> QED
        BY <2>1, FloodConstants, FS_Subset
<1> QED
    BY <1>1, <1>2, <1>3, <1>4, FloodConstants

\* So many delays of MaxDelay.
LEMMA Delays ==
    ASSUME NEW c \in Nat, NEW d \in Nat
    PROVE  /\ c * MaxDelay \in Nat
           /\ (c + 1) * MaxDelay = c * MaxDelay + MaxDelay
           /\ c <= d => c * MaxDelay <= d * MaxDelay
<1>1. MaxDelay \in Nat
    BY FloodConstants
<1>2. c * MaxDelay \in Nat /\ (c + 1) * MaxDelay = c * MaxDelay + MaxDelay
    BY <1>1, SMT
<1>3. ASSUME c <= d PROVE c * MaxDelay <= d * MaxDelay
    <2>1. PICK k \in Nat : d = c + k
        <3>1. d - c \in Nat
            BY <1>3
        <3> QED
            BY <3>1
    <2>2. d * MaxDelay = c * MaxDelay + k * MaxDelay
        BY <1>1, <2>1, SMT
    <2>3. k * MaxDelay \in Nat
        BY <1>1, SMT
    <2> QED
        BY <1>2, <2>2, <2>3
<1> QED
    BY <1>2, <1>3

\* The chain is too short to outlive the entry: what a receiver gets again is a
\* duplicate.
LEMMA CopyIsDuplicate ==
    ASSUME FloodInv, NEW f \in air, <<f.to, f.packet>> \in received
    PROVE  IsDuplicateBroadcast(f)
<1> DEFINE p == f.packet
           n == f.to
           c == Cardinality(Got(p) \ {n})
           all == Cardinality(FloodNode)
<1>1. p \in Broadcasts /\ n \in FloodNode /\ f.due \in Nat /\ known[n][p] \in Int /\ now \in Nat
    BY DEF FloodInv, FloodTypeOK, FrameType
<1>2. p.src \in FloodNode /\ n # p.src /\ p.src \notin Got(p)
    BY <1>1, FloodConstants DEF FloodInv, EntriesOfReceivers, Got
<1>3. c \in Nat /\ all \in Nat /\ c + 2 <= all
    <2>1. Got(p) \ {n} \subseteq FloodNode
        BY DEF Got
    <2> QED
        BY <1>1, <1>2, <2>1, TwoLess, GotFinite, FloodConstants
<1>4. f.due + DpdLifetime <= known[n][p] + (1 + c) * MaxDelay
    BY <1>1 DEF FloodInv, CopiesAreBounded
<1>5. now <= f.due
    BY DEF FloodInv, FramesOnTime
<1> HIDE DEF c, all
<1>6. (1 + c) * MaxDelay \in Nat /\ (all - 1) * MaxDelay \in Nat
      /\ (1 + c) * MaxDelay <= (all - 1) * MaxDelay
    BY <1>3, Delays
<1>7. DpdLifetime \in Nat /\ (all - 1) * MaxDelay <= DpdLifetime
    BY FloodAssumption, FloodConstants DEF all
<1>8. now <= known[n][p]
    BY <1>1, <1>4, <1>5, <1>6, <1>7
<1> QED
    BY <1>8 DEF IsDuplicateBroadcast

-----------------------------------------------------------------------------
\* The steps.

LEMMA FramesAre ==
    ASSUME FloodTypeOK, NEW n \in FloodNode, NEW p \in Broadcasts, NEW ttl \in Nat
    PROVE  /\ Frames(n, p, ttl) \subseteq FrameType
           /\ \A f \in Frames(n, p, ttl) :
                 f.packet = p /\ f.ttl = ttl /\ f.due = now + MaxDelay
           /\ \A m \in Adjacent(n) : \E f \in Frames(n, p, ttl) : f.to = m /\ f.packet = p
<1>1. now + MaxDelay \in Nat
    BY FloodConstants DEF FloodTypeOK
<1>2. Adjacent(n) \subseteq FloodNode
    BY DEF Adjacent
<1>3. ASSUME NEW m \in Adjacent(n)
      PROVE  \E f \in Frames(n, p, ttl) : f.to = m /\ f.packet = p
    <2> DEFINE f == [from |-> n, to |-> m, packet |-> p, ttl |-> ttl, due |-> now + MaxDelay]
    <2>1. f \in Frames(n, p, ttl) /\ f.to = m /\ f.packet = p
        BY <1>3 DEF Frames
    <2> QED
        BY <2>1
<1> QED
    BY <1>1, <1>2, <1>3 DEF Frames, FrameType

\* What a step that only takes frames away does to the invariant.
LEMMA FrameGone ==
    ASSUME FloodInv, NEW f \in air, air' = air \ {f}, UNCHANGED now,
           UNCHANGED <<network, known, started, received, redelivered>>,
           losses' \in Nat,
           losses' # 0 \/ (losses' = losses /\
               (f.to = f.packet.src \/ <<f.to, f.packet>> \in received))
    PROVE  FloodInv'
<1> USE DEF FloodInv
<1>1. FloodTypeOK'
    BY DEF FloodTypeOK
<1>2. FramesOnTime' /\ EntriesOfReceivers' /\ TtlCountsReceivers' /\ CopiesAreBounded'
    BY DEF FramesOnTime, EntriesOfReceivers, TtlCountsReceivers, CopiesAreBounded, Got
<1>3. NeighboursServed'
    <2> SUFFICES ASSUME losses = 0, losses' = losses,
                        f.to = f.packet.src \/ <<f.to, f.packet>> \in received,
                        NEW p \in started, NEW n \in FloodNode, Spreads(n, p),
                        NEW m \in Adjacent(n) \ {p.src}, <<m, p>> \notin received
                 PROVE  \E g \in air' : g.to = m /\ g.packet = p
        BY DEF NeighboursServed, Spreads, Adjacent
    <2>1. PICK g \in air : g.to = m /\ g.packet = p
        BY DEF NeighboursServed
    <2>2. g # f
        BY <2>1
    <2> QED
        BY <2>1, <2>2
<1> QED
    BY <1>1, <1>2, <1>3

LEMMA DropBroadcastStep ==
    ASSUME FloodInv, NEW f \in air, DropBroadcast(f), UNCHANGED now
    PROVE  FloodInv'
<1>1. f.to \in FloodNode /\ f.packet \in Broadcasts /\ now \in Nat
    BY DEF FloodInv, FloodTypeOK, FrameType
<1>2. f.to = f.packet.src \/ <<f.to, f.packet>> \in received
    BY <1>1 DEF DropBroadcast, IsDuplicateBroadcast, FloodInv, EntriesOfReceivers
<1>3. losses' = losses /\ losses' \in Nat
    BY DEF DropBroadcast, FloodInv, FloodTypeOK
<1> QED
    BY <1>2, <1>3, FrameGone DEF DropBroadcast

LEMMA LoseBroadcastStep ==
    ASSUME FloodInv, NEW f \in air, LoseBroadcast(f), UNCHANGED now
    PROVE  FloodInv'
<1>1. losses' \in Nat /\ losses' # 0
    BY DEF LoseBroadcast, FloodInv, FloodTypeOK
<1> QED
    BY <1>1, FrameGone DEF LoseBroadcast

LEMMA FloodTickStep ==
    ASSUME FloodInv, FloodTick
    PROVE  FloodInv'
<1> USE DEF FloodInv, FloodTick, floodVars
<1>1. FloodTypeOK'
    BY DEF FloodTypeOK
<1>2. FramesOnTime'
    BY FloodConstants DEF FramesOnTime, FramesInTime, FloodTypeOK, FrameType
<1>3. EntriesOfReceivers'
    <2>1. \A n \in FloodNode, p \in Broadcasts : known[n][p] \in Int
        BY DEF FloodTypeOK
    <2>2. known' = known /\ received' = received /\ started' = started /\ now' = now + 1
        OBVIOUS
    <2>3. now \in Nat
        BY DEF FloodTypeOK
    <2> SUFFICES ASSUME NEW n \in FloodNode, NEW p \in Broadcasts
                 PROVE  IF <<n, p>> \in received
                        THEN /\ DpdLifetime <= known[n][p]
                             /\ known[n][p] <= (now + 1) + DpdLifetime
                             /\ n # p.src
                             /\ p \in started
                        ELSE known[n][p] = -1
        BY <2>2 DEF EntriesOfReceivers
    <2>4. CASE <<n, p>> \in received
        <3>1. known[n][p] <= now + DpdLifetime
            BY <2>4 DEF EntriesOfReceivers
        <3>2. known[n][p] <= (now + 1) + DpdLifetime
            BY <3>1, <2>1, <2>3, FloodConstants
        <3> QED
            BY <2>4, <3>2 DEF EntriesOfReceivers
    <2> QED
        BY <2>4 DEF EntriesOfReceivers
<1>4. CopiesAreBounded' /\ TtlCountsReceivers' /\ NeighboursServed'
    BY DEF CopiesAreBounded, TtlCountsReceivers, NeighboursServed, Got, Spreads, Adjacent
<1> QED
    BY <1>1, <1>2, <1>3, <1>4

LEMMA SendBroadcastStep ==
    ASSUME FloodInv, NEW p \in Broadcasts, SendBroadcast(p), UNCHANGED now
    PROVE  FloodInv'
<1> DEFINE new == Frames(p.src, p, InitialTtl)
<1> USE DEF FloodInv, SendBroadcast
<1>1. p.src \in FloodNode /\ InitialTtl \in Nat
    BY FloodConstants
<1>2. /\ new \subseteq FrameType
      /\ \A f \in new : f.packet = p /\ f.ttl = InitialTtl /\ f.due = now + MaxDelay
      /\ \A m \in Adjacent(p.src) : \E f \in new : f.to = m /\ f.packet = p
    BY <1>1, FramesAre
<1> HIDE DEF new
<1>3. air' = air \cup new
    BY DEF new
<1>4. \A n \in FloodNode : <<n, p>> \notin received
    BY DEF EntriesOfReceivers
<1>5. FloodTypeOK'
    BY <1>2, <1>3 DEF FloodTypeOK
<1>6. FramesOnTime'
    BY <1>2, <1>3, FloodConstants DEF FramesOnTime, FloodTypeOK
<1>7. EntriesOfReceivers'
    BY DEF EntriesOfReceivers
<1>8. CopiesAreBounded'
    BY <1>2, <1>3, <1>4 DEF CopiesAreBounded, Got
<1>9. TtlCountsReceivers'
    <2>1. \A q : Got(q)' = Got(q) /\ Cardinality(Got(q)) \in Nat
        BY GotFinite DEF Got
    <2> QED
        BY <1>1, <1>2, <1>3, <2>1 DEF TtlCountsReceivers
<1>10. NeighboursServed'
    <2> SUFFICES ASSUME losses = 0, NEW q \in started', NEW n \in FloodNode, Spreads(n, q),
                        NEW m \in Adjacent(n) \ {q.src}, <<m, q>> \notin received
                 PROVE  \E f \in air' : f.to = m /\ f.packet = q
        BY DEF NeighboursServed, Spreads, Adjacent
    <2>1. CASE q \in started
        BY <2>1, <1>3 DEF NeighboursServed
    <2>2. CASE q = p
        <3>1. n = p.src
            BY <2>2, <1>4 DEF Spreads
        <3> QED
            BY <2>2, <3>1, <1>2, <1>3
    <2> QED
        BY <2>1, <2>2
<1> QED
    BY <1>5, <1>6, <1>7, <1>8, <1>9, <1>10

\* The node that delivers p did not have it, and is one more that has.
LEMMA DeliverBroadcastStep ==
    ASSUME FloodInv, NEW f \in air, DeliverBroadcast(f), UNCHANGED now
    PROVE  FloodInv'
<1> DEFINE p == f.packet
           o == f.to
           new == IF ForwardsBroadcast(f) THEN Frames(o, p, f.ttl - 1) ELSE {}
<1> USE DEF FloodInv
<1>1. /\ p \in Broadcasts /\ o \in FloodNode /\ f.ttl \in Nat /\ f.due \in Nat
      /\ p.src \in FloodNode /\ now \in Nat /\ p \in started
    BY FloodConstants DEF FloodTypeOK, FrameType, FramesOnTime
<1>2. <<o, p>> \notin received /\ o # p.src
    BY CopyIsDuplicate DEF DeliverBroadcast
<1>3. /\ known' = [known EXCEPT ![o][p] = now + DpdLifetime]
      /\ received' = received \cup {<<o, p>>}
      /\ redelivered' = redelivered
      /\ air' = (air \ {f}) \cup new
      /\ network' = network /\ losses' = losses /\ started' = started /\ now' = now
    BY <1>2 DEF DeliverBroadcast, FloodTypeOK
<1>4. /\ new \subseteq FrameType
      /\ \A g \in new : /\ g.packet = p /\ g.due = now + MaxDelay
                        /\ g.ttl = f.ttl - 1
      /\ ForwardsBroadcast(f) =>
            \A m \in Adjacent(o) : \E g \in new : g.to = m /\ g.packet = p
    <2>1. CASE ForwardsBroadcast(f)
        <3>1. f.ttl - 1 \in Nat
            BY <1>1, <2>1 DEF ForwardsBroadcast
        <3> QED
            BY <1>1, <2>1, <3>1, FramesAre
    <2>2. CASE ~ForwardsBroadcast(f)
        BY <2>2
    <2> QED
        BY <2>1, <2>2
<1>5. \A q \in Broadcasts : /\ Got(q) \subseteq FloodNode
                            /\ q # p => Got(q)' = Got(q)
    BY <1>3 DEF Got
<1>6. Got(p)' = Got(p) \cup {o} /\ o \notin Got(p) /\ p.src \notin Got(p)
    BY <1>1, <1>2, <1>3 DEF Got, EntriesOfReceivers
<1>7. /\ Cardinality(Got(p)) \in Nat
      /\ Cardinality(Got(p)') = Cardinality(Got(p)) + 1
    BY <1>1, <1>5, <1>6, GotFinite, FS_AddElement
<1> HIDE DEF new
<1>8. /\ known' \in [FloodNode -> [Broadcasts -> Int]]
      /\ known'[o][p] = now + DpdLifetime
      /\ \A n \in FloodNode, q \in Broadcasts :
            <<n, q>> # <<o, p>> => known'[n][q] = known[n][q]
    BY <1>1, <1>3, FloodConstants DEF FloodTypeOK
<1>9. FloodTypeOK'
    BY <1>1, <1>3, <1>4, <1>8 DEF FloodTypeOK
<1>10. FramesOnTime'
    BY <1>1, <1>3, <1>4, FloodConstants DEF FramesOnTime, FloodTypeOK
<1>11. EntriesOfReceivers'
    <2> SUFFICES ASSUME NEW n \in FloodNode, NEW q \in Broadcasts
                 PROVE  IF <<n, q>> \in received'
                        THEN /\ DpdLifetime <= known'[n][q] /\ known'[n][q] <= now + DpdLifetime
                             /\ n # q.src
                             /\ q \in started
                        ELSE known'[n][q] = -1
        BY <1>3 DEF EntriesOfReceivers
    <2>1. CASE <<n, q>> = <<o, p>>
        BY <2>1, <1>1, <1>2, <1>3, <1>8, FloodConstants
    <2>2. CASE <<n, q>> # <<o, p>>
        BY <2>2, <1>3, <1>8 DEF EntriesOfReceivers
    <2> QED
        BY <2>1, <2>2
<1>12. CopiesAreBounded'
    <2> SUFFICES ASSUME NEW n \in FloodNode, NEW g \in air', <<n, g.packet>> \in received'
                 PROVE  g.due + DpdLifetime <=
                            known'[n][g.packet]
                                + (1 + Cardinality(Got(g.packet)' \ {n})) * MaxDelay
        BY DEF CopiesAreBounded
    <2>1. g.packet \in Broadcasts /\ g.due \in Nat /\ g.due <= now + MaxDelay
        BY <1>3, <1>9, <1>10 DEF FloodTypeOK, FrameType, FramesOnTime
    <2>2. CASE g.packet # p
        <3>1. g \in air /\ <<n, g.packet>> \in received
            BY <2>2, <1>3, <1>4
        <3>2. Got(g.packet)' = Got(g.packet) /\ known'[n][g.packet] = known[n][g.packet]
            BY <2>1, <2>2, <1>5, <1>8
        <3> QED
            BY <3>1, <3>2 DEF CopiesAreBounded
    <2>3. CASE g.packet = p /\ n = o
        <3> DEFINE c == Cardinality(Got(p)' \ {n})
        <3>1. c \in Nat
            BY <1>1, <1>5, <1>6, GotFinite
        <3> HIDE DEF c
        <3>2. (1 + c) * MaxDelay \in Nat /\ (c + 1) * MaxDelay = c * MaxDelay + MaxDelay
              /\ c * MaxDelay \in Nat /\ 1 + c = c + 1
            BY <3>1, Delays
        <3>3. known'[n][p] = now + DpdLifetime
            BY <2>3, <1>8
        <3>4. g.due + DpdLifetime <= known'[n][p] + (1 + c) * MaxDelay
            BY <2>1, <3>2, <3>3, <1>1, FloodConstants
        <3> QED
            BY <2>3, <3>4 DEF c
    <2>4. CASE g.packet = p /\ n # o
        <3> DEFINE c == Cardinality(Got(p) \ {n})
                   k == known[n][p]
        <3>1. <<n, p>> \in received /\ known'[n][p] = k /\ k \in Int
            BY <2>4, <1>1, <1>3, <1>8 DEF FloodTypeOK
        <3>2. c \in Nat /\ Cardinality(Got(p)' \ {n}) = c + 1
            <4>1. IsFiniteSet(Got(p) \ {n}) /\ c \in Nat
                BY <1>1, <1>5, GotFinite
            <4>2. Got(p)' \ {n} = (Got(p) \ {n}) \cup {o} /\ o \notin Got(p) \ {n}
                BY <2>4, <1>6
            <4> QED
                BY <4>1, <4>2, FS_AddElement
        <3>3. \A h \in air : h.packet = p => h.due + DpdLifetime <= k + (1 + c) * MaxDelay
            BY <3>1 DEF CopiesAreBounded
        <3>4. f.due + DpdLifetime <= k + (1 + c) * MaxDelay
            BY <3>3
        <3> HIDE DEF c, k
        <3>5. /\ (1 + c) * MaxDelay \in Nat
              /\ (1 + (c + 1)) * MaxDelay = (1 + c) * MaxDelay + MaxDelay
            <4>1. 1 + c \in Nat /\ (1 + c) + 1 = 1 + (c + 1)
                BY <3>2
            <4> QED
                BY <4>1, Delays
        <3>6. g.due + DpdLifetime <= k + (1 + (c + 1)) * MaxDelay
            <4>1. CASE g \in air
                BY <4>1, <2>1, <2>4, <3>1, <3>3, <3>5, FloodConstants
            <4>2. CASE g \in new
                <5>1. g.due = now + MaxDelay /\ now <= f.due
                    BY <4>2, <1>4 DEF FramesOnTime
                <5> QED
                    BY <5>1, <1>1, <3>1, <3>4, <3>5, FloodConstants
            <4> QED
                BY <4>1, <4>2, <1>3
        <3> QED
            BY <2>4, <3>1, <3>2, <3>6
    <2> QED
        BY <2>2, <2>3, <2>4
<1>13. TtlCountsReceivers'
    <2> SUFFICES ASSUME NEW g \in air'
                 PROVE  g.ttl + Cardinality(Got(g.packet)') >= InitialTtl
        BY DEF TtlCountsReceivers
    <2>1. g.packet \in Broadcasts /\ g.ttl \in Nat
        BY <1>9 DEF FloodTypeOK, FrameType
    <2>2. CASE g \in new
        <3>1. f.ttl + Cardinality(Got(p)) >= InitialTtl
            BY DEF TtlCountsReceivers
        <3>2. g.ttl = f.ttl - 1 /\ g.packet = p
            BY <2>2, <1>4
        <3> QED
            BY <3>1, <3>2, <1>1, <1>7, FloodConstants
    <2>3. CASE g \in air
        <3>1. g.ttl + Cardinality(Got(g.packet)) >= InitialTtl
            BY <2>3 DEF TtlCountsReceivers
        <3>2. CASE g.packet = p
            BY <2>1, <3>1, <3>2, <1>7, FloodConstants
        <3>3. CASE g.packet # p
            BY <2>1, <3>1, <3>3, <1>5
        <3> QED
            BY <3>2, <3>3
    <2> QED
        BY <2>2, <2>3, <1>3
<1>14. NeighboursServed'
    <2> SUFFICES ASSUME losses = 0, NEW q \in started, NEW n \in FloodNode, Spreads(n, q)',
                        NEW m \in Adjacent(n) \ {q.src}, <<m, q>> \notin received'
                 PROVE  \E g \in air' : g.to = m /\ g.packet = q
        BY <1>3 DEF NeighboursServed, Adjacent
    <2>1. CASE Spreads(n, q)
        <3>1. PICK g \in air : g.to = m /\ g.packet = q
            BY <2>1, <1>3 DEF NeighboursServed
        <3>2. g # f
            BY <3>1, <1>3
        <3> QED
            BY <3>1, <3>2, <1>3
    <2>2. CASE ~Spreads(n, q)
        <3>1. n = o /\ q = p /\ p.scope = "subnet" /\ o \notin network.silent
            BY <2>2, <1>3 DEF Spreads
        <3>2. ForwardsBroadcast(f)
            <4> SUFFICES ASSUME ~(f.ttl > 1) PROVE FALSE
                BY <3>1 DEF ForwardsBroadcast
            <4>1. f.ttl + Cardinality(Got(p)) >= InitialTtl
                BY DEF TtlCountsReceivers
            <4>2. m \in FloodNode \ Got(p)' /\ p.src \in FloodNode \ Got(p)' /\ m # p.src
                BY <1>1, <1>2, <1>6, <3>1 DEF Got, Adjacent
            <4>3. Got(p)' \subseteq FloodNode
                BY <1>1, <1>5, <1>6
            <4>4. Cardinality(Got(p)') + 2 <= Cardinality(FloodNode)
                BY <4>2, <4>3, TwoLess
            <4> QED
                BY <4>1, <4>4, <1>1, <1>7, FloodConstants, FloodAssumption
        <3> QED
            BY <3>1, <3>2, <1>3, <1>4
    <2> QED
        BY <2>1, <2>2
<1> QED
    BY <1>3, <1>9, <1>10, <1>11, <1>12, <1>13, <1>14

-----------------------------------------------------------------------------
LEMMA FloodInitial == now = 0 /\ FloodInit => FloodInv
<1> SUFFICES ASSUME now = 0, FloodInit PROVE FloodInv
    OBVIOUS
<1>1. FloodTypeOK
    <2>1. known \in [FloodNode -> [Broadcasts -> Int]]
        BY DEF FloodInit
    <2> QED
        BY <2>1 DEF FloodInit, FloodTypeOK
<1>2. FramesOnTime /\ CopiesAreBounded /\ TtlCountsReceivers /\ NeighboursServed /\ ~redelivered
    BY DEF FloodInit, FramesOnTime, CopiesAreBounded, TtlCountsReceivers, NeighboursServed
<1>3. EntriesOfReceivers
    BY DEF FloodInit, EntriesOfReceivers
<1> QED
    BY <1>1, <1>2, <1>3 DEF FloodInv

LEMMA FloodStuttering ==
    ASSUME FloodInv, UNCHANGED <<now, floodVars>>
    PROVE  FloodInv'
<1> USE DEF FloodInv, floodVars
<1>1. FloodTypeOK' /\ FramesOnTime' /\ ~redelivered'
    BY DEF FloodTypeOK, FramesOnTime
<1>2. EntriesOfReceivers'
    BY DEF EntriesOfReceivers
<1>3. CopiesAreBounded' /\ TtlCountsReceivers'
    BY DEF CopiesAreBounded, TtlCountsReceivers, Got
<1>4. NeighboursServed'
    BY DEF NeighboursServed, Spreads, Adjacent
<1> QED
    BY <1>1, <1>2, <1>3, <1>4

LEMMA FloodInvariant == FloodSpec => []FloodInv
<1> DEFINE Step == (FloodNext /\ UNCHANGED now) \/ FloodTick
<1>1. FloodInv /\ [Step]_<<now, floodVars>> => FloodInv'
    <2> SUFFICES ASSUME FloodInv, [Step]_<<now, floodVars>> PROVE FloodInv'
        OBVIOUS
    <2>1. ASSUME NEW p \in Broadcasts, SendBroadcast(p), UNCHANGED now PROVE FloodInv'
        BY <2>1, SendBroadcastStep
    <2>2. ASSUME NEW f \in air, DropBroadcast(f) \/ DeliverBroadcast(f) \/ LoseBroadcast(f),
                 UNCHANGED now
          PROVE  FloodInv'
        BY <2>2, DropBroadcastStep, DeliverBroadcastStep, LoseBroadcastStep
    <2>3. CASE FloodTick
        BY <2>3, FloodTickStep
    <2>4. CASE UNCHANGED <<now, floodVars>>
        BY <2>4, FloodStuttering
    <2> QED
        BY <2>1, <2>2, <2>3, <2>4 DEF FloodNext
<1> QED
    BY FloodInitial, <1>1, PTL DEF FloodSpec

\* No node delivers a broadcast packet twice.  An entry of m_dpd lives for
\* PathDiscoveryTime and is not renewed, and each further copy a node gets was
\* caused by a chain of first deliveries at other nodes, which is shorter.
THEOREM BroadcastsDeliveredOnce == FloodSpec => []BroadcastDeliveredOnce
BY FloodInvariant, PTL DEF FloodInv, BroadcastDeliveredOnce

LEMMA ServedIsComplete == FloodInv => FloodIsComplete
<1> SUFFICES ASSUME FloodInv, NEW p \in started, losses = 0, \A f \in air : f.packet # p,
                    NEW n \in FloodNode, Spreads(n, p), NEW m \in Adjacent(n) \ {p.src}
             PROVE  <<m, p>> \in received
    BY DEF FloodIsComplete, Spreads
<1> QED
    BY DEF FloodInv, NeighboursServed

\* Without losses a broadcast reaches every neighbour of every node that forwards
\* it: the copy a node gets first may have taken a detour, but each hop of it was
\* the first delivery at another node, so that its TTL ends only when all have it.
THEOREM FloodsAreComplete == FloodSpec => []FloodIsComplete
BY FloodInvariant, ServedIsComplete, PTL
=============================================================================
