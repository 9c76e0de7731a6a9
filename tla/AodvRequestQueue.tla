-------------------------- MODULE AodvRequestQueue --------------------------
(***************************************************************************)
(* ns3::aodv::RequestQueue (src/aodv/model/aodv-rqueue.cc): the packets    *)
(* that wait for a route.  The code keeps them in a vector, in the order   *)
(* of their arrival, and no operation changes that order; here an entry    *)
(* carries the number of its arrival instead of a position.                *)
(***************************************************************************)
EXTENDS AodvClock, FiniteSets

CONSTANTS
    Packets,          \* Records [uid, dst]; what Enqueue compares.
    QueueTimeouts,    \* The values that MaxQueueTime is set to.
    MaxQueueLens,     \* The values that MaxQueueLen is set to.
    MaxArrivals       \* Bound: the number of entries made.

ASSUME QueueAssumption ==
    /\ QueueTimeouts \subseteq Nat
    /\ MaxQueueLens \subseteq Nat \ {0}

VARIABLES
    queue,          \* m_queue.
    arrivals,       \* The number of entries made so far.
    maxLen,         \* m_maxLen.
    queueTimeout,   \* m_queueTimeout.
    sent,           \* History: the waits that Dequeue has ended,
    failed          \* and those that an error callback has ended.

queueVars == <<queue, arrivals, maxLen, queueTimeout, sent, failed>>

QueueEntries == [packet : Packets, expire : Int, arrival : Nat]

\* A wait: the packet and the number of its arrival.
Wait(e) == <<e.packet, e.arrival>>

Waits(E) == {Wait(e) : e \in E}

QueueInit ==
    /\ queue = {}
    /\ arrivals = 0
    /\ maxLen \in MaxQueueLens
    /\ queueTimeout \in QueueTimeouts
    /\ sent = {}
    /\ failed = {}

QueueIsExpired(e) == e.expire - now < 0

Expired == {e \in queue : QueueIsExpired(e)}

\* The queue after Purge().
Live == queue \ Expired

\* Mutant: Purge() forgets the error callbacks.
DropUnlessOutdated(E) == failed' = failed \cup Waits({e \in E : ~QueueIsExpired(e)})

\* Drop(): the error callback of each entry.
Drop(E) == failed' = failed \cup Waits(E)

WithDst(E, d) == {e \in E : e.packet.dst = d}

\* Mutant: the entry that came last.
MostRecent(E) == CHOOSE e \in E : \A f \in E : f.arrival <= e.arrival

\* The entry that came first.
MostAged(E) == CHOOSE e \in E : \A f \in E : e.arrival <= f.arrival

-----------------------------------------------------------------------------
\* The packet is there already: Purge() and nothing else.
EnqueueDuplicate(p) ==
    /\ \E e \in Live : e.packet = p
    /\ queue' = Live
    /\ Drop(Expired)
    /\ UNCHANGED <<arrivals, maxLen, queueTimeout, sent>>

\* A full queue drops its most aged packet; one that is past its limit does not,
\* since the comparison is ==.
EnqueueNew(p) ==
    LET aged == IF Cardinality(Live) = maxLen THEN {MostAged(Live)} ELSE {}
        entry == [packet |-> p, expire |-> now + queueTimeout, arrival |-> arrivals]
    IN  /\ arrivals < MaxArrivals
        /\ \A e \in Live : e.packet # p
        /\ queue' = (Live \ aged) \cup {entry}
        /\ arrivals' = arrivals + 1
        /\ Drop(Expired \cup aged)
        /\ UNCHANGED <<maxLen, queueTimeout, sent>>

DropPacketWithDst(d) ==
    /\ queue' = Live \ WithDst(Live, d)
    /\ Drop(Expired \cup WithDst(Live, d))
    /\ UNCHANGED <<arrivals, maxLen, queueTimeout, sent>>

\* SendPacketFromQueue repeats this until it finds no packet.
DequeueFound(d) ==
    /\ WithDst(Live, d) # {}
    /\ queue' = Live \ {MostAged(WithDst(Live, d))}
    /\ sent' = sent \cup {Wait(MostAged(WithDst(Live, d)))}
    /\ Drop(Expired)
    /\ UNCHANGED <<arrivals, maxLen, queueTimeout>>

\* GetSize, and Dequeue for a destination without packets.
PurgeQueue ==
    /\ queue' = Live
    /\ Drop(Expired)
    /\ UNCHANGED <<arrivals, maxLen, queueTimeout, sent>>

SetQueueTimeout(t) ==
    /\ queueTimeout' = t
    /\ UNCHANGED <<queue, arrivals, maxLen, sent, failed>>

\* The limit may be set below the number of packets that wait.
SetMaxQueueLen(len) ==
    /\ maxLen' = len
    /\ UNCHANGED <<queue, arrivals, queueTimeout, sent, failed>>

QueueNext ==
    \/ \E p \in Packets : EnqueueDuplicate(p) \/ EnqueueNew(p)
    \/ \E p \in Packets : DropPacketWithDst(p.dst) \/ DequeueFound(p.dst)
    \/ PurgeQueue
    \/ \E t \in QueueTimeouts : SetQueueTimeout(t)
    \/ \E len \in MaxQueueLens : SetMaxQueueLen(len)
=============================================================================
