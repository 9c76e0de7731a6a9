---------------------------- MODULE AodvNeighbors ----------------------------
(***************************************************************************)
(* ns3::aodv::Neighbors (src/aodv/model/aodv-neighbor.cc): the neighbours  *)
(* a node has heard of, until when it believes in each, and the timer that *)
(* looks for the ones that are overdue.                                    *)
(***************************************************************************)
EXTENDS AodvClock

CONSTANTS
    Neighbour,      \* IP addresses.
    Mac, NoMac,     \* Hardware addresses, and Mac48Address().
    Intervals,      \* For how long Update believes in a neighbour.
    Delay,          \* The delay of m_ntimer: the hello interval.
    EnableHello

ASSUME NeighbourAssumption ==
    /\ Intervals \subseteq Nat
    /\ Delay \in Nat \ {0}
    /\ NoMac \notin Mac

VARIABLES
    nb,         \* m_nb.
    ntimer,     \* When m_ntimer expires, or Off.
    attached,   \* m_arp holds the ARP cache of the interface.
    arp         \* The hardware addresses in this cache.

nbVars == <<nb, ntimer, attached, arp>>

Off == -1

NeighbourEntries == [addr : Neighbour, mac : Mac \cup {NoMac}, expire : Nat]

\* Start schedules the timer if hello messages are on.
NeighborsInit ==
    /\ nb = {}
    /\ ntimer = IF EnableHello THEN Delay ELSE Off
    /\ attached = FALSE
    /\ arp = [a \in Neighbour |-> NoMac]

LookupMacAddress(a) == IF attached THEN arp[a] ELSE NoMac

\* Neighbours in E that are closed or have not been heard of in time.
CloseNeighbor(E, closed) == {e \in E : e.expire < now \/ e \in closed}

\* Purge() of the entries E, some of them closed, when the timer is at t: the
\* handler of link failures is called for the ones that go (CloseNeighbour of
\* AodvRoutingProtocol).  The timer starts again unless there was no entry.
PurgeNeighbors(E, closed, t) ==
    /\ nb' = E \ CloseNeighbor(E, closed)
    /\ ntimer' = IF E = {} THEN t ELSE now + Delay

-----------------------------------------------------------------------------
\* A neighbour in the table, which may be overdue, is believed in for longer.
UpdateKnown(e, interval) ==
    LET until == IF now + interval > e.expire THEN now + interval ELSE e.expire
        mac == IF e.mac = NoMac THEN LookupMacAddress(e.addr) ELSE e.mac
    IN  /\ nb' = (nb \ {e}) \cup {[e EXCEPT !.expire = until, !.mac = mac]}
        /\ UNCHANGED <<ntimer, attached, arp>>

\* Mutant: a new neighbour is added and nothing else.
UpdateNewNoPurge(a, interval) ==
    /\ \A e \in nb : e.addr # a
    /\ nb' = nb \cup {[addr |-> a, mac |-> LookupMacAddress(a), expire |-> now + interval]}
    /\ UNCHANGED <<ntimer, attached, arp>>

UpdateNew(a, interval) ==
    LET entry == [addr |-> a, mac |-> LookupMacAddress(a), expire |-> now + interval]
    IN  /\ \A e \in nb : e.addr # a
        /\ PurgeNeighbors(nb \cup {entry}, {}, ntimer)
        /\ UNCHANGED <<attached, arp>>

\* IsNeighbor, GetExpireTime.
QueryNeighbors ==
    /\ PurgeNeighbors(nb, {}, ntimer)
    /\ UNCHANGED <<attached, arp>>

NeighborTimerExpire ==
    /\ ntimer = now
    /\ PurgeNeighbors(nb, {}, Off)
    /\ UNCHANGED <<attached, arp>>

\* A frame to the hardware address m was not acknowledged.
ProcessTxError(m) ==
    /\ PurgeNeighbors(nb, {e \in nb : e.mac = m}, ntimer)
    /\ UNCHANGED <<attached, arp>>

\* The last interface goes down.
ClearNeighbors ==
    /\ nb' = {}
    /\ UNCHANGED <<ntimer, attached, arp>>

\* AddArpCache, DelArpCache: an interface goes up or down.
SetArpCache(on) ==
    /\ attached' = on
    /\ UNCHANGED <<nb, ntimer, arp>>

\* The ARP cache learns or forgets a hardware address.
ArpChange(a, m) ==
    /\ arp' = [arp EXCEPT ![a] = m]
    /\ UNCHANGED <<nb, ntimer, attached>>

NeighborsNext ==
    \/ \E e \in nb, t \in Intervals : UpdateKnown(e, t)
    \/ \E a \in Neighbour, t \in Intervals : UpdateNew(a, t)
    \/ QueryNeighbors
    \/ NeighborTimerExpire
    \/ \E m \in Mac : ProcessTxError(m)
    \/ ClearNeighbors
    \/ \E on \in BOOLEAN : SetArpCache(on)
    \/ \E a \in Neighbour, m \in Mac \cup {NoMac} : ArpChange(a, m)
=============================================================================
