--------------------------- MODULE AodvInterfaces ---------------------------
(***************************************************************************)
(* The sockets of one node, in RoutingProtocol                             *)
(* (src/aodv/model/aodv-routing-protocol.cc): what it opens, closes and    *)
(* deletes as interfaces go up and down and addresses come and go.  It     *)
(* uses the first address of an interface.                                 *)
(*                                                                         *)
(* The interfaces, their addresses and the end points of UDP are external. *)
(* Ipv4 calls NotifyInterfaceUp for an interface that is down and          *)
(* NotifyInterfaceDown for one that is up, and only if it has an address:  *)
(* GetAddress ends the program otherwise.  The hello timer and the         *)
(* neighbours, which end with the last interface, are in                   *)
(* AodvRoutingProtocol and AodvNeighbors.                                  *)
(***************************************************************************)
EXTENDS Naturals, FiniteSets, Sequences, SequencesExt

CONSTANTS
    Interface,
    Address,        \* Ipv4InterfaceAddress: records [local, broadcast].
    Loopback,       \* The one of the loopback interface.
    HomeOf,         \* The interface an address may be given to.
    Remote,         \* Destinations that routes are learned to.
    Socket          \* Bound: the sockets that can be in use at a time.

\* Interfaces are in different subnets, and no host has a subnet's broadcast
\* address.
ASSUME InterfaceAssumption ==
    /\ HomeOf \in [Address -> Interface]
    /\ Loopback \notin Address
    /\ IsFiniteSet(Socket)
    /\ \A a \in Address : a.broadcast \notin Remote \cup {Loopback.local}
    /\ \A a, b \in Address :
          IF HomeOf[a] = HomeOf[b] THEN a.local # b.broadcast ELSE a.broadcast # b.broadcast

VARIABLES
    up, addresses,              \* External: Ipv4Interface.
    endpoints,                  \* External: the sockets that can receive.
    socketAddresses,            \* m_socketAddresses,
    socketBroadcastAddresses,   \* m_socketSubnetBroadcastAddresses: pairs as records.
    routes                      \* m_routingTable: destination and own address.

interfaceVars ==
    <<up, addresses, endpoints, socketAddresses, socketBroadcastAddresses, routes>>

LoopbackEntry == [dst |-> Loopback.local, iface |-> Loopback]

\* SetIpv4 adds the route to the loopback interface.
InterfacesInit ==
    /\ up = [i \in Interface |-> FALSE]
    /\ addresses = [i \in Interface |-> <<>>]
    /\ endpoints = {}
    /\ socketAddresses = {}
    /\ socketBroadcastAddresses = {}
    /\ routes = {LoopbackEntry}

-----------------------------------------------------------------------------
\* The entries of a map with address a.  Find...WithInterfaceAddress returns the
\* first one in the order of the pointers, which is any of them.
WithAddress(map, a) == {s \in map : s.iface = a}

\* Socket::Bind fails if there is such an end point.
Bind(E, s, i, dst) ==
    IF \E e \in E : e.device = i /\ e.dst = dst THEN E
    ELSE E \cup {[socket |-> s, device |-> i, dst |-> dst]}

\* Mutant: the sockets are not closed.
CloseNothing(E, S) == E

Close(E, S) == {e \in E : \A s \in S : e.socket # s.socket}

AddRoute(R, r) == IF \E q \in R : q.dst = r.dst THEN R ELSE R \cup {r}

\* Mutant: the route for broadcasts goes, and the others stay.
DeleteBroadcastRoute(R, a) == {r \in R : r.iface # a \/ r.dst # a.broadcast}

DeleteAllRoutesFromInterface(R, a) == {r \in R : r.iface # a}

InUse ==
    {s.socket : s \in socketAddresses \cup socketBroadcastAddresses}
        \cup {e.socket : e \in endpoints}

\* Opens the two sockets of address a of interface i, given the maps, the end
\* points and the routes left so far.
OpenSockets(i, a, unicast, broadcast, E, R) ==
    LET u == CHOOSE s \in Socket \ InUse : TRUE
        b == CHOOSE s \in Socket \ (InUse \cup {u}) : TRUE
    IN  /\ Cardinality(Socket \ InUse) > 1
        /\ socketAddresses' = unicast \cup {[socket |-> u, iface |-> a]}
        /\ socketBroadcastAddresses' = broadcast \cup {[socket |-> b, iface |-> a]}
        /\ endpoints' = Bind(Bind(E, u, i, a.local), b, i, a.broadcast)
        /\ routes' = AddRoute(R, [dst |-> a.broadcast, iface |-> a])

\* Mutant: the table is cleared although another interface is up.
LeftRoutesNone(unicast, R) == {}

\* Without sockets there is nothing left to route: the whole table is cleared.
LeftRoutes(unicast, R) == IF unicast = {} THEN {} ELSE R

-----------------------------------------------------------------------------
NotifyInterfaceUp(i) ==
    /\ ~up[i]
    /\ addresses[i] # <<>>
    /\ up' = [up EXCEPT ![i] = TRUE]
    /\ OpenSockets(i, Head(addresses[i]), socketAddresses, socketBroadcastAddresses,
                   endpoints, routes)
    /\ UNCHANGED addresses

\* An assertion says that both sockets are found.
NotifyInterfaceDown(i) ==
    /\ up[i]
    /\ addresses[i] # <<>>
    /\ up' = [up EXCEPT ![i] = FALSE]
    /\ \E s \in WithAddress(socketAddresses, Head(addresses[i])),
          b \in WithAddress(socketBroadcastAddresses, Head(addresses[i])) :
          /\ endpoints' = Close(endpoints, {s, b})
          /\ socketAddresses' = socketAddresses \ {s}
          /\ socketBroadcastAddresses' = socketBroadcastAddresses \ {b}
          /\ routes' = LeftRoutes(socketAddresses',
                           DeleteAllRoutesFromInterface(routes, Head(addresses[i])))
    /\ UNCHANGED addresses

Free(a) == \A i \in Interface : ~Contains(addresses[i], a)

\* The first address of an interface that is up.
NotifyAddAddressUsed(a) ==
    LET i == HomeOf[a]
    IN  /\ Free(a)
        /\ up[i] /\ addresses[i] = <<>>
        /\ WithAddress(socketAddresses, a) = {}
        /\ addresses' = [addresses EXCEPT ![i] = <<a>>]
        /\ OpenSockets(i, a, socketAddresses, socketBroadcastAddresses, endpoints, routes)
        /\ UNCHANGED up

\* Another address, or one of an interface that is down.
NotifyAddAddressIgnored(a) ==
    LET i == HomeOf[a]
    IN  /\ Free(a)
        /\ ~up[i] \/ addresses[i] # <<>>
        /\ addresses' = [addresses EXCEPT ![i] = Append(@, a)]
        /\ UNCHANGED <<up, endpoints, socketAddresses, socketBroadcastAddresses, routes>>

\* Ipv4 removes the k-th address of interface i first.
NotifyRemoveAddressIgnored(i, k) ==
    /\ WithAddress(socketAddresses, addresses[i][k]) = {}
    /\ addresses' = [addresses EXCEPT ![i] = RemoveAt(@, k)]
    /\ UNCHANGED <<up, endpoints, socketAddresses, socketBroadcastAddresses, routes>>

\* The map of the broadcast sockets after both sockets were closed: the code
\* erases b from the other map, where it is not.
ErasedBroadcast(b) == socketBroadcastAddresses

\* The sockets of the address are closed, and opened for the one that is next.
NotifyRemoveAddressUsed(i, k) ==
    /\ addresses' = [addresses EXCEPT ![i] = RemoveAt(@, k)]
    /\ \E s \in WithAddress(socketAddresses, addresses[i][k]),
          b \in WithAddress(socketBroadcastAddresses, addresses[i][k]) :
          LET unicast == socketAddresses \ {s}
              left == DeleteAllRoutesFromInterface(routes, addresses[i][k])
          IN  IF addresses'[i] # <<>>
              THEN OpenSockets(i, Head(addresses'[i]), unicast, ErasedBroadcast(b),
                               Close(endpoints, {s, b}), left)
              ELSE /\ socketAddresses' = unicast
                   /\ socketBroadcastAddresses' = ErasedBroadcast(b)
                   /\ endpoints' = Close(endpoints, {s, b})
                   /\ routes' = LeftRoutes(unicast, left)
    /\ UNCHANGED up

\* RouteInput hands datagrams to UDP that are for an address of the interface.
Receives(e) ==
    /\ up[e.device]
    /\ socketAddresses # {}
    /\ \E a \in Range(addresses[e.device]) : e.dst \in {a.local, a.broadcast}

\* The receiver that RecvAodv takes for the destination of a datagram on socket s.
ReceiverOf(s) ==
    (CHOOSE r \in socketAddresses \cup socketBroadcastAddresses : r.socket = s).iface

\* A message of d leaves a route to it, out of the first address of the interface.
UpdateRouteToNeighbor(e, d) ==
    /\ Receives(e)
    /\ \E i \in Interface :
          /\ Contains(addresses[i], ReceiverOf(e.socket))
          /\ routes' = {r \in routes : r.dst # d}
                           \cup {[dst |-> d, iface |-> Head(addresses[i])]}
    /\ UNCHANGED <<up, addresses, endpoints, socketAddresses, socketBroadcastAddresses>>

\* A route that was learned is deleted; the others do not expire.
PurgeRoute(r) ==
    /\ r.dst \in Remote
    /\ routes' = routes \ {r}
    /\ UNCHANGED <<up, addresses, endpoints, socketAddresses, socketBroadcastAddresses>>

InterfacesNext ==
    \/ \E i \in Interface : NotifyInterfaceUp(i) \/ NotifyInterfaceDown(i)
    \/ \E a \in Address : NotifyAddAddressUsed(a) \/ NotifyAddAddressIgnored(a)
    \/ \E i \in Interface : \E k \in DOMAIN addresses[i] :
          NotifyRemoveAddressIgnored(i, k) \/ NotifyRemoveAddressUsed(i, k)
    \/ \E e \in endpoints, d \in Remote : UpdateRouteToNeighbor(e, d)
    \/ \E r \in routes : PurgeRoute(r)

InterfacesSpec == InterfacesInit /\ [][InterfacesNext]_interfaceVars

-----------------------------------------------------------------------------
Active(i) == up[i] /\ addresses[i] # <<>>

\* An interface that is up and has an address takes part: there is one unicast
\* socket for it and it can receive, something receives its broadcasts, a
\* broadcast socket is found for it (so that the assertions in
\* NotifyInterfaceDown hold) and there is a route for its broadcasts.  This is
\* in spite of the closed sockets that stay in the broadcast map, which lookups
\* may find first.
ActiveInterfacesTakePart ==
    \A i \in Interface : Active(i) =>
        LET a == Head(addresses[i])
        IN  /\ Cardinality(WithAddress(socketAddresses, a)) = 1
            /\ \E s \in socketAddresses, e \in endpoints :
                  s.iface = a /\ e.socket = s.socket /\ e.dst = a.local
            /\ WithAddress(socketBroadcastAddresses, a) # {}
            /\ \E e \in endpoints : e.device = i /\ e.dst = a.broadcast
            /\ \E r \in routes : r.dst = a.broadcast /\ r.iface = a

\* What receives is in one of the maps: RecvAodv never meets the "unknown
\* socket" it has an assertion about, although maps and end points change in
\* different orders and places.
ReceivingSocketsKnown ==
    \A e \in endpoints :
        \E s \in socketAddresses \cup socketBroadcastAddresses : s.socket = e.socket

\* No route is left that goes out of an address the node does not use any more.
RoutesUseOwnAddresses ==
    \A r \in routes \ {LoopbackEntry} : WithAddress(socketAddresses, r.iface) # {}

\* "Raw subnet directed broadcast socket per each IP interface, map socket ->
\* iface address": who receives for an interface stands for an address it has.
ReceiverIsOwn ==
    \A e \in endpoints : Receives(e) =>
        Contains(addresses[e.device], ReceiverOf(e.socket))
=============================================================================
