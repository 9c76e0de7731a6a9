------------------------ MODULE AodvInterfacesProofs ------------------------
(***************************************************************************)
(* The sockets and the routes of a node follow its interfaces and their    *)
(* addresses, for any number of them and in whatever order they change.    *)
(***************************************************************************)
EXTENDS AodvInterfaces, FiniteSetTheorems, TLAPS

-----------------------------------------------------------------------------
\* RemoveAt takes one element out of a sequence.
LEMMA RemoveAtProperties ==
    ASSUME NEW S, NEW s \in Seq(S), NEW k \in DOMAIN s
    PROVE  /\ RemoveAt(s, k) \in Seq(S)
           /\ Len(RemoveAt(s, k)) = Len(s) - 1
           /\ \A j \in 1..(Len(s) - 1) :
                 RemoveAt(s, k)[j] = IF j < k THEN s[j] ELSE s[j + 1]
<1> DEFINE a == SubSeq(s, 1, k - 1)
           b == SubSeq(s, k + 1, Len(s))
<1>1. k \in 1..Len(s) /\ Len(s) \in Nat
    OBVIOUS
<1>2. a \in Seq(S) /\ Len(a) = k - 1 /\ \A j \in 1..(k - 1) : a[j] = s[j]
    BY <1>1
<1>3. b \in Seq(S) /\ Len(b) = Len(s) - k /\ \A j \in 1..(Len(s) - k) : b[j] = s[k + j]
    BY <1>1
<1> HIDE DEF a, b
<1>4. /\ a \o b \in Seq(S)
      /\ Len(a \o b) = Len(s) - 1
      /\ \A j \in 1..(Len(s) - 1) : (a \o b)[j] = IF j < k THEN s[j] ELSE s[j + 1]
    BY <1>1, <1>2, <1>3
<1> QED
    BY <1>4 DEF RemoveAt, a, b

-----------------------------------------------------------------------------
\* The inductive invariant.

SocketEntry == [socket : Socket, iface : Address]

InterfaceTypeOK ==
    /\ up \in [Interface -> BOOLEAN]
    /\ addresses \in [Interface -> Seq(Address)]
    /\ socketAddresses \subseteq SocketEntry
    /\ socketBroadcastAddresses \subseteq SocketEntry

AddressesAtHome ==
    \A i \in Interface : \A k \in DOMAIN addresses[i] : HomeOf[addresses[i][k]] = i

\* A socket is in one of the maps only, and once: one that is closed and stays in
\* the map of the broadcast sockets is not given out again.
SocketsDistinct ==
    /\ \A s, t \in socketAddresses : s.socket = t.socket => s = t
    /\ \A s, t \in socketBroadcastAddresses : s.socket = t.socket => s = t
    /\ \A s \in socketAddresses, b \in socketBroadcastAddresses : s.socket # b.socket

\* The unicast sockets are those of the first addresses of the active interfaces.
UnicastOfActive ==
    /\ \A s, t \in socketAddresses : s.iface = t.iface => s = t
    /\ \A s \in socketAddresses :
          /\ Active(HomeOf[s.iface])
          /\ s.iface = Head(addresses[HomeOf[s.iface]])

\* End point e is the one of an entry of the two maps.
Owned(e, unicast, broadcast) ==
    \/ \E s \in unicast :
          e.socket = s.socket /\ e.dst = s.iface.local /\ e.device = HomeOf[s.iface]
    \/ \E b \in broadcast :
          e.socket = b.socket /\ e.dst = b.iface.broadcast /\ e.device = HomeOf[b.iface]

EndpointsOwned ==
    \A e \in endpoints : Owned(e, socketAddresses, socketBroadcastAddresses)

\* What ActiveInterfacesTakePart says of interface i with first address a, with a
\* witness instead of the count.
Served(i, a) ==
    /\ \E s \in socketAddresses : s.iface = a /\
          \E e \in endpoints : e.socket = s.socket /\ e.dst = a.local
    /\ \E b \in socketBroadcastAddresses : b.iface = a
    /\ \E e \in endpoints : e.device = i /\ e.dst = a.broadcast
    /\ \E r \in routes : r.dst = a.broadcast /\ r.iface = a

ActiveServed == \A i \in Interface : Active(i) => Served(i, Head(addresses[i]))

RoutesOwned ==
    \A r \in routes \ {LoopbackEntry} :
        /\ \E s \in socketAddresses : s.iface = r.iface
        /\ r.dst \in Remote \/ r.dst = r.iface.broadcast

InterfaceInv ==
    /\ InterfaceTypeOK
    /\ AddressesAtHome
    /\ SocketsDistinct
    /\ UnicastOfActive
    /\ EndpointsOwned
    /\ ActiveServed
    /\ RoutesOwned

LEMMA InterfaceConstants ==
    /\ \A a \in Address : HomeOf[a] \in Interface /\ a # Loopback
    /\ LoopbackEntry.iface = Loopback /\ LoopbackEntry.dst = Loopback.local
    /\ \A a \in Address : a.broadcast \notin Remote /\ a.broadcast # Loopback.local
    /\ \A a, b \in Address : HomeOf[a] = HomeOf[b] => a.local # b.broadcast
    /\ \A a, b \in Address : HomeOf[a] # HomeOf[b] => a.broadcast # b.broadcast
BY InterfaceAssumption DEF LoopbackEntry

\* The first address of an active interface, and where it belongs.
LEMMA FirstAddress ==
    ASSUME InterfaceTypeOK, AddressesAtHome, NEW i \in Interface, addresses[i] # <<>>
    PROVE  Head(addresses[i]) \in Address /\ HomeOf[Head(addresses[i])] = i
<1>1. addresses[i] \in Seq(Address)
    BY DEF InterfaceTypeOK
<1>2. 1 \in DOMAIN addresses[i] /\ Head(addresses[i]) = addresses[i][1] /\ addresses[i][1] \in Address
    BY <1>1
<1> QED
    BY <1>2 DEF AddressesAtHome

-----------------------------------------------------------------------------
\* Closing and opening the sockets of one interface.

\* What is left without the sockets of interface i.
LeftOver(i, unicast, broadcast, E, R) ==
    /\ unicast \subseteq socketAddresses
    /\ broadcast \subseteq socketBroadcastAddresses
    /\ E \subseteq endpoints
    /\ R \subseteq routes
    /\ \A s \in unicast : HomeOf[s.iface] # i
    /\ \A s \in socketAddresses : HomeOf[s.iface] # i => s \in unicast
    /\ \A b \in socketBroadcastAddresses : HomeOf[b.iface] # i => b \in broadcast
    /\ \A e \in E : Owned(e, unicast, broadcast)
    /\ \A e \in endpoints : e.device # i => e \in E
    /\ \A r \in R \ {LoopbackEntry} : \E s \in unicast : s.iface = r.iface
    /\ \A r \in routes \ {LoopbackEntry} : HomeOf[r.iface] # i => r \in R

\* The other interfaces stay as they are.
OthersKept(i) ==
    /\ up' \in [Interface -> BOOLEAN]
    /\ addresses' \in [Interface -> Seq(Address)]
    /\ AddressesAtHome'
    /\ \A j \in Interface \ {i} : up'[j] = up[j] /\ addresses'[j] = addresses[j]

LEMMA NothingToClose ==
    ASSUME InterfaceInv, NEW i \in Interface, ~Active(i)
    PROVE  LeftOver(i, socketAddresses, socketBroadcastAddresses, endpoints, routes)
<1>1. \A s \in socketAddresses : HomeOf[s.iface] # i
    BY DEF InterfaceInv, UnicastOfActive
<1>2. \A e \in endpoints : Owned(e, socketAddresses, socketBroadcastAddresses)
    BY DEF InterfaceInv, EndpointsOwned
<1>3. \A r \in routes \ {LoopbackEntry} : \E s \in socketAddresses : s.iface = r.iface
    BY DEF InterfaceInv, RoutesOwned
<1> QED
    BY <1>1, <1>2, <1>3 DEF LeftOver

LEMMA SocketsClosed ==
    ASSUME InterfaceInv, NEW i \in Interface, Active(i),
           NEW s \in WithAddress(socketAddresses, Head(addresses[i])),
           NEW b \in WithAddress(socketBroadcastAddresses, Head(addresses[i])),
           NEW broadcast \in {socketBroadcastAddresses, socketBroadcastAddresses \ {b}}
    PROVE  LeftOver(i, socketAddresses \ {s}, broadcast, Close(endpoints, {s, b}),
                    DeleteAllRoutesFromInterface(routes, Head(addresses[i])))
<1> DEFINE a == Head(addresses[i])
           unicast == socketAddresses \ {s}
           E == Close(endpoints, {s, b})
           R == DeleteAllRoutesFromInterface(routes, a)
<1> USE DEF InterfaceInv
<1>1. a \in Address /\ HomeOf[a] = i
    BY FirstAddress DEF Active
<1> HIDE DEF a
<1>2. s \in socketAddresses /\ s.iface = a /\ b \in socketBroadcastAddresses /\ b.iface = a
    BY DEF WithAddress, a
<1>3. \A t \in unicast : HomeOf[t.iface] # i
    BY <1>2 DEF UnicastOfActive, a
<1>4. \A t \in socketAddresses : HomeOf[t.iface] # i => t \in unicast
    BY <1>1, <1>2
<1>5. \A t \in socketBroadcastAddresses : HomeOf[t.iface] # i => t \in broadcast
    BY <1>1, <1>2
<1>6. broadcast \subseteq socketBroadcastAddresses
    OBVIOUS
<1>7. E = {e \in endpoints : e.socket # s.socket /\ e.socket # b.socket}
    BY DEF Close
<1>8. ASSUME NEW e \in E PROVE Owned(e, unicast, broadcast)
    <2>1. Owned(e, socketAddresses, socketBroadcastAddresses)
        BY <1>7, <1>8 DEF EndpointsOwned
    <2>2. e.socket # s.socket /\ e.socket # b.socket
        BY <1>7, <1>8
    <2> QED
        BY <2>1, <2>2 DEF Owned
<1>9. ASSUME NEW e \in endpoints, e.device # i PROVE e \in E
    <2>1. Owned(e, socketAddresses, socketBroadcastAddresses)
        BY DEF EndpointsOwned
    <2>2. e.socket # s.socket /\ e.socket # b.socket
        BY <1>1, <1>2, <1>9, <2>1 DEF Owned, SocketsDistinct
    <2> QED
        BY <1>7, <2>2
<1>10. ASSUME NEW r \in R \ {LoopbackEntry} PROVE \E t \in unicast : t.iface = r.iface
    BY <1>2 DEF DeleteAllRoutesFromInterface, RoutesOwned
<1>11. \A r \in routes \ {LoopbackEntry} : HomeOf[r.iface] # i => r \in R
    BY <1>1 DEF DeleteAllRoutesFromInterface
<1>12. E \subseteq endpoints /\ R \subseteq routes
    BY <1>7 DEF DeleteAllRoutesFromInterface
<1> HIDE DEF E, R
<1>13. LeftOver(i, unicast, broadcast, E, R)
    BY <1>3, <1>4, <1>5, <1>6, <1>8, <1>9, <1>10, <1>11, <1>12 DEF LeftOver
<1> QED
    BY <1>13 DEF E, R, a

\* An interface other than i is still served.
LEMMA OthersServed ==
    ASSUME InterfaceInv, NEW i \in Interface, OthersKept(i),
           NEW unicast, NEW broadcast, NEW E, NEW R, LeftOver(i, unicast, broadcast, E, R),
           unicast \subseteq socketAddresses', broadcast \subseteq socketBroadcastAddresses',
           E \subseteq endpoints', R \subseteq routes',
           NEW j \in Interface \ {i}, Active(j)'
    PROVE  Served(j, Head(addresses[j]))'
<1> DEFINE a == Head(addresses[j])
<1>1. up'[j] = up[j] /\ addresses'[j] = addresses[j]
    BY DEF OthersKept
<1>2. Active(j) /\ a' = a
    BY <1>1 DEF Active
<1>3. a \in Address /\ HomeOf[a] = j
    BY <1>2, FirstAddress DEF Active, InterfaceInv
<1>4. Served(j, a)
    BY <1>2 DEF InterfaceInv, ActiveServed
<1> HIDE DEF a
<1>5. PICK s \in socketAddresses :
          s.iface = a /\ \E e \in endpoints : e.socket = s.socket /\ e.dst = a.local
    BY <1>4 DEF Served
<1>6. PICK e \in endpoints : e.socket = s.socket /\ e.dst = a.local
    BY <1>5
<1>7. e.device = j
    <2>1. Owned(e, socketAddresses, socketBroadcastAddresses)
        BY DEF InterfaceInv, EndpointsOwned
    <2> QED
        BY <2>1, <1>3, <1>5, <1>6 DEF Owned, InterfaceInv, SocketsDistinct
<1>8. s \in unicast /\ e \in E
    BY <1>3, <1>5, <1>7 DEF LeftOver
<1>9. \E b \in broadcast : b.iface = a
    BY <1>3, <1>4 DEF Served, LeftOver
<1>10. \E g \in E : g.device = j /\ g.dst = a.broadcast
    BY <1>4 DEF Served, LeftOver
<1>11. \E r \in R : r.dst = a.broadcast /\ r.iface = a
    <2>1. PICK r \in routes : r.dst = a.broadcast /\ r.iface = a
        BY <1>4 DEF Served
    <2>2. r # LoopbackEntry
        BY <2>1, <1>3, InterfaceConstants
    <2> QED
        BY <2>1, <2>2, <1>3 DEF LeftOver
<1>12. Served(j, a)'
    BY <1>2, <1>5, <1>6, <1>8, <1>9, <1>10, <1>11 DEF Served
<1> QED
    BY <1>12 DEF a

\* The parts of the invariant about the sockets, for the maps that are left.
LEMMA LeftOverUnicast ==
    ASSUME InterfaceInv, NEW i \in Interface, OthersKept(i),
           NEW unicast, NEW broadcast, NEW E, NEW R, LeftOver(i, unicast, broadcast, E, R),
           NEW s \in unicast
    PROVE  /\ HomeOf[s.iface] \in Interface \ {i}
           /\ Active(HomeOf[s.iface])'
           /\ s.iface = Head(addresses'[HomeOf[s.iface]])
<1>1. s \in socketAddresses /\ HomeOf[s.iface] # i
    BY DEF LeftOver
<1>2. s.iface \in Address
    BY <1>1 DEF InterfaceInv, InterfaceTypeOK, SocketEntry
<1>3. HomeOf[s.iface] \in Interface \ {i}
    BY <1>1, <1>2, InterfaceConstants
<1>4. Active(HomeOf[s.iface]) /\ s.iface = Head(addresses[HomeOf[s.iface]])
    BY <1>1 DEF InterfaceInv, UnicastOfActive
<1> QED
    BY <1>3, <1>4 DEF OthersKept, Active

\* The sockets of i are closed and i is not active any more.
LEMMA ClosedStep ==
    ASSUME InterfaceInv, NEW i \in Interface, OthersKept(i), ~Active(i)',
           NEW unicast, NEW broadcast, NEW E, NEW R, LeftOver(i, unicast, broadcast, E, R),
           socketAddresses' = unicast, socketBroadcastAddresses' = broadcast,
           endpoints' = E, routes' = LeftRoutes(unicast, R)
    PROVE  InterfaceInv'
<1>1. unicast \subseteq socketAddresses /\ broadcast \subseteq socketBroadcastAddresses
    BY DEF LeftOver
<1>2. InterfaceTypeOK' /\ AddressesAtHome'
    BY <1>1 DEF InterfaceInv, InterfaceTypeOK, OthersKept
<1>3. SocketsDistinct'
    BY <1>1 DEF InterfaceInv, SocketsDistinct
<1>4. UnicastOfActive'
    <2>1. \A s, t \in unicast : s.iface = t.iface => s = t
        BY <1>1 DEF InterfaceInv, UnicastOfActive
    <2> QED
        BY <2>1, LeftOverUnicast DEF UnicastOfActive
<1>5. EndpointsOwned'
    BY DEF EndpointsOwned, LeftOver, Owned
<1>6. ActiveServed'
    <2> SUFFICES ASSUME NEW j \in Interface, Active(j)' PROVE Served(j, Head(addresses[j]))'
        BY DEF ActiveServed
    <2>1. j # i
        OBVIOUS
    <2>2. unicast # {}
        <3>1. Active(j)
            BY <2>1 DEF OthersKept, Active
        <3>2. HomeOf[Head(addresses[j])] = j
            BY <3>1, FirstAddress DEF Active, InterfaceInv
        <3>3. \E s \in socketAddresses : s.iface = Head(addresses[j])
            BY <3>1 DEF InterfaceInv, ActiveServed, Served
        <3> QED
            BY <2>1, <3>2, <3>3 DEF LeftOver
    <2>3. R \subseteq routes'
        BY <2>2 DEF LeftRoutes
    <2> QED
        BY <2>1, <2>3, OthersServed
<1>7. RoutesOwned'
    <2> SUFFICES ASSUME NEW r \in routes', r # LoopbackEntry
                 PROVE  /\ \E s \in unicast : s.iface = r.iface
                        /\ r.dst \in Remote \/ r.dst = r.iface.broadcast
        BY DEF RoutesOwned, LoopbackEntry
    <2>1. r \in R /\ r \in routes
        BY DEF LeftRoutes, LeftOver
    <2> QED
        BY <2>1 DEF LeftOver, InterfaceInv, RoutesOwned
<1> QED
    BY <1>2, <1>3, <1>4, <1>5, <1>6, <1>7 DEF InterfaceInv

\* Two sockets that are not in use.
LEMMA TwoFreeSockets ==
    ASSUME Cardinality(Socket \ InUse) > 1,
           NEW u, u = CHOOSE s \in Socket \ InUse : TRUE,
           NEW b, b = CHOOSE s \in Socket \ (InUse \cup {u}) : TRUE
    PROVE  u \in Socket \ InUse /\ b \in Socket \ InUse /\ u # b
<1> DEFINE F == Socket \ InUse
<1>1. IsFiniteSet(F)
    BY InterfaceAssumption, FS_Subset
<1> HIDE DEF F
<1>2. F # {}
    BY <1>1, FS_EmptySet DEF F
<1>3. u \in F
    BY <1>2 DEF F
<1>4. Cardinality(F \ {u}) = Cardinality(F) - 1 /\ IsFiniteSet(F \ {u})
    BY <1>1, <1>3, FS_RemoveElement
<1>5. Cardinality(F) \in Nat
    BY <1>1, FS_CardinalityType
<1>6. F \ {u} # {}
    <2>1. Cardinality(F \ {u}) > 0
        BY <1>4, <1>5 DEF F
    <2> QED
        BY <2>1, <1>4, FS_EmptySet
<1>7. b \in F \ {u}
    <2>1. Socket \ (InUse \cup {u}) = F \ {u}
        BY DEF F
    <2> QED
        BY <1>6, <2>1
<1> QED
    BY <1>3, <1>7 DEF F

\* The sockets of address a, the first one of i, are opened.
LEMMA OpenedStep ==
    ASSUME InterfaceInv, NEW i \in Interface, OthersKept(i), Active(i)',
           NEW a \in Address, HomeOf[a] = i, Head(addresses'[i]) = a,
           NEW unicast, NEW broadcast, NEW E, NEW R, LeftOver(i, unicast, broadcast, E, R),
           OpenSockets(i, a, unicast, broadcast, E, R)
    PROVE  InterfaceInv'
<1> DEFINE u == CHOOSE s \in Socket \ InUse : TRUE
           b == CHOOSE s \in Socket \ (InUse \cup {u}) : TRUE
           su == [socket |-> u, iface |-> a]
           sb == [socket |-> b, iface |-> a]
           eu == [socket |-> u, device |-> i, dst |-> a.local]
           eb == [socket |-> b, device |-> i, dst |-> a.broadcast]
           ra == [dst |-> a.broadcast, iface |-> a]
<1>1. u \in Socket \ InUse /\ b \in Socket \ InUse /\ u # b
    BY TwoFreeSockets DEF OpenSockets
<1>2. /\ socketAddresses' = unicast \cup {su}
      /\ socketBroadcastAddresses' = broadcast \cup {sb}
      /\ endpoints' = Bind(Bind(E, u, i, a.local), b, i, a.broadcast)
      /\ routes' = AddRoute(R, ra)
    BY DEF OpenSockets
<1> HIDE DEF u, b
<1>3. /\ unicast \subseteq socketAddresses /\ broadcast \subseteq socketBroadcastAddresses
      /\ E \subseteq endpoints /\ R \subseteq routes
    BY DEF LeftOver
<1>4. \A s \in socketAddresses \cup socketBroadcastAddresses : s.socket # u /\ s.socket # b
    BY <1>1 DEF InUse
<1>5. su \in SocketEntry /\ sb \in SocketEntry
    BY <1>1 DEF SocketEntry
<1>6. InterfaceTypeOK' /\ AddressesAtHome'
    BY <1>2, <1>3, <1>5 DEF InterfaceInv, InterfaceTypeOK, OthersKept
<1>7. SocketsDistinct'
    <2>1. /\ \A s, t \in unicast : s.socket = t.socket => s = t
          /\ \A s, t \in broadcast : s.socket = t.socket => s = t
          /\ \A s \in unicast, t \in broadcast : s.socket # t.socket
        BY <1>3 DEF InterfaceInv, SocketsDistinct
    <2>2. /\ \A s \in unicast \cup broadcast : s.socket # u /\ s.socket # b
          /\ su.socket = u /\ sb.socket = b
        BY <1>3, <1>4
    <2> QED
        BY <1>1, <1>2, <2>1, <2>2 DEF SocketsDistinct
<1>8. UnicastOfActive'
    <2>1. \A s \in unicast : s.iface # a
        BY DEF LeftOver
    <2>2. \A s, t \in unicast : s.iface = t.iface => s = t
        BY <1>3 DEF InterfaceInv, UnicastOfActive
    <2>3. \A s, t \in socketAddresses' : s.iface = t.iface => s = t
        BY <1>2, <2>1, <2>2
    <2>4. \A s \in socketAddresses' :
              Active(HomeOf[s.iface])' /\ s.iface = Head(addresses'[HomeOf[s.iface]])
        BY <1>2, LeftOverUnicast
    <2> QED
        BY <2>3, <2>4 DEF UnicastOfActive
<1>9. \A e \in E : ~(e.device = i /\ e.dst = a.local)
    <2> SUFFICES ASSUME NEW e \in E, e.device = i, e.dst = a.local PROVE FALSE
        OBVIOUS
    <2>1. Owned(e, unicast, broadcast) /\ \A s \in unicast : HomeOf[s.iface] # i
        BY DEF LeftOver
    <2>2. PICK t \in broadcast : e.dst = t.iface.broadcast /\ e.device = HomeOf[t.iface]
        BY <2>1 DEF Owned
    <2>3. t.iface \in Address
        BY <1>3 DEF InterfaceInv, InterfaceTypeOK, SocketEntry
    <2> QED
        BY <2>2, <2>3, InterfaceConstants
<1>10. Bind(E, u, i, a.local) = E \cup {eu}
    BY <1>9 DEF Bind
<1>11. /\ endpoints' \subseteq E \cup {eu, eb}
       /\ E \cup {eu} \subseteq endpoints'
       /\ \E e \in endpoints' : e.device = i /\ e.dst = a.broadcast
    <2>1. CASE \E e \in E \cup {eu} : e.device = i /\ e.dst = a.broadcast
        BY <1>2, <1>10, <2>1 DEF Bind
    <2>2. CASE ~\E e \in E \cup {eu} : e.device = i /\ e.dst = a.broadcast
        <3>1. endpoints' = (E \cup {eu}) \cup {eb}
            BY <1>2, <1>10, <2>2 DEF Bind
        <3>2. eb \in endpoints' /\ eb.device = i /\ eb.dst = a.broadcast
            BY <3>1
        <3> QED
            BY <3>1, <3>2
    <2> QED
        BY <2>1, <2>2
<1>12. EndpointsOwned'
    <2> SUFFICES ASSUME NEW e \in endpoints'
                 PROVE  Owned(e, socketAddresses', socketBroadcastAddresses')
        BY DEF EndpointsOwned, Owned
    <2>1. CASE e \in E
        BY <2>1, <1>2 DEF LeftOver, Owned
    <2>2. CASE e = eu
        <3>1. e.socket = su.socket /\ e.dst = su.iface.local /\ e.device = HomeOf[su.iface]
            BY <2>2
        <3> QED
            BY <3>1, <1>2 DEF Owned
    <2>3. CASE e = eb
        <3>1. e.socket = sb.socket /\ e.dst = sb.iface.broadcast /\ e.device = HomeOf[sb.iface]
            BY <2>3
        <3> QED
            BY <3>1, <1>2 DEF Owned
    <2> QED
        BY <2>1, <2>2, <2>3, <1>11
<1>13. \A r \in R : r.dst # a.broadcast
    <2> SUFFICES ASSUME NEW r \in R, r.dst = a.broadcast PROVE FALSE
        OBVIOUS
    <2>1. r # LoopbackEntry /\ r.dst \notin Remote
        BY InterfaceConstants
    <2>2. PICK s \in unicast : s.iface = r.iface
        BY <2>1 DEF LeftOver
    <2>3. r.dst = r.iface.broadcast
        BY <1>3, <2>1 DEF InterfaceInv, RoutesOwned
    <2>4. s.iface \in Address /\ HomeOf[s.iface] # i
        BY <1>3 DEF LeftOver, InterfaceInv, InterfaceTypeOK, SocketEntry
    <2> QED
        BY <2>2, <2>3, <2>4, InterfaceConstants
<1>14. routes' = R \cup {ra}
    BY <1>2, <1>13 DEF AddRoute
<1>15. ActiveServed'
    <2> SUFFICES ASSUME NEW j \in Interface, Active(j)' PROVE Served(j, Head(addresses[j]))'
        BY DEF ActiveServed
    <2>1. CASE j = i
        <3>1. \E s \in socketAddresses' : s.iface = a /\
                  \E e \in endpoints' : e.socket = s.socket /\ e.dst = a.local
            <4>1. su \in socketAddresses' /\ su.iface = a
                BY <1>2
            <4>2. eu \in endpoints' /\ eu.socket = su.socket /\ eu.dst = a.local
                BY <1>11
            <4> QED
                BY <4>1, <4>2
        <3>2. \E t \in socketBroadcastAddresses' : t.iface = a
            <4>1. sb \in socketBroadcastAddresses' /\ sb.iface = a
                BY <1>2
            <4> QED
                BY <4>1
        <3>3. \E r \in routes' : r.dst = a.broadcast /\ r.iface = a
            <4>1. ra \in routes' /\ ra.dst = a.broadcast /\ ra.iface = a
                BY <1>14
            <4> QED
                BY <4>1
        <3> QED
            BY <2>1, <3>1, <3>2, <3>3, <1>11 DEF Served
    <2>2. CASE j # i
        BY <2>2, <1>2, <1>11, <1>14, OthersServed
    <2> QED
        BY <2>1, <2>2
<1>16. RoutesOwned'
    <2> SUFFICES ASSUME NEW r \in routes', r # LoopbackEntry
                 PROVE  /\ \E s \in socketAddresses' : s.iface = r.iface
                        /\ r.dst \in Remote \/ r.dst = r.iface.broadcast
        BY DEF RoutesOwned, LoopbackEntry
    <2>1. CASE r \in R
        BY <2>1, <1>2, <1>3 DEF LeftOver, InterfaceInv, RoutesOwned
    <2>2. CASE r = ra
        <3>1. su \in socketAddresses' /\ su.iface = a
            BY <1>2
        <3>2. r.iface = a /\ r.dst = a.broadcast
            BY <2>2
        <3> QED
            BY <3>1, <3>2
    <2> QED
        BY <2>1, <2>2, <1>14
<1> QED
    BY <1>6, <1>7, <1>8, <1>12, <1>15, <1>16 DEF InterfaceInv

\* The addresses change and neither sockets nor first addresses of active
\* interfaces do.
LEMMA SocketsKeptStep ==
    ASSUME InterfaceInv,
           up' \in [Interface -> BOOLEAN], addresses' \in [Interface -> Seq(Address)],
           AddressesAtHome',
           \A j \in Interface : /\ Active(j)' = Active(j)
                                /\ Active(j) => Head(addresses'[j]) = Head(addresses[j]),
           UNCHANGED <<endpoints, socketAddresses, socketBroadcastAddresses, routes>>
    PROVE  InterfaceInv'
<1> USE DEF InterfaceInv
<1>1. InterfaceTypeOK' /\ SocketsDistinct' /\ EndpointsOwned'
    BY DEF InterfaceTypeOK, SocketsDistinct, EndpointsOwned, Owned
<1>2. UnicastOfActive'
    <2>1. \A s \in socketAddresses : HomeOf[s.iface] \in Interface
        BY InterfaceConstants DEF InterfaceTypeOK, SocketEntry
    <2> QED
        BY <2>1 DEF UnicastOfActive
<1>3. ActiveServed'
    BY DEF ActiveServed, Served
<1>4. RoutesOwned'
    BY DEF RoutesOwned, LoopbackEntry
<1> QED
    BY <1>1, <1>2, <1>3, <1>4

\* One interface gets another sequence of addresses, all its own.
LEMMA NewAddresses ==
    ASSUME InterfaceInv, NEW i \in Interface, NEW q \in Seq(Address),
           \A k \in DOMAIN q : HomeOf[q[k]] = i,
           addresses' = [addresses EXCEPT ![i] = q], UNCHANGED up
    PROVE  OthersKept(i) /\ addresses'[i] = q
<1>1. addresses \in [Interface -> Seq(Address)] /\ up \in [Interface -> BOOLEAN]
    BY DEF InterfaceInv, InterfaceTypeOK
<1>2. /\ addresses' \in [Interface -> Seq(Address)] /\ addresses'[i] = q
      /\ \A j \in Interface \ {i} : addresses'[j] = addresses[j]
    BY <1>1
<1>3. AddressesAtHome'
    BY <1>2 DEF AddressesAtHome, InterfaceInv
<1> QED
    BY <1>1, <1>2, <1>3 DEF OthersKept

-----------------------------------------------------------------------------
\* The operations.

LEMMA NotifyInterfaceUpStep ==
    ASSUME InterfaceInv, NEW i \in Interface, NotifyInterfaceUp(i)
    PROVE  InterfaceInv'
<1> DEFINE a == Head(addresses[i])
<1>1. up' = [up EXCEPT ![i] = TRUE] /\ addresses' = addresses /\ addresses[i] # <<>> /\ ~up[i]
    BY DEF NotifyInterfaceUp
<1>2. OthersKept(i) /\ Active(i)'
    BY <1>1 DEF OthersKept, Active, InterfaceInv, InterfaceTypeOK, AddressesAtHome
<1>3. a \in Address /\ HomeOf[a] = i /\ Head(addresses'[i]) = a
    BY <1>1, FirstAddress DEF InterfaceInv
<1>4. LeftOver(i, socketAddresses, socketBroadcastAddresses, endpoints, routes)
    BY <1>1, NothingToClose DEF Active
<1>5. OpenSockets(i, a, socketAddresses, socketBroadcastAddresses, endpoints, routes)
    BY DEF NotifyInterfaceUp
<1> HIDE DEF a
<1> QED
    BY <1>2, <1>3, <1>4, <1>5, OpenedStep

LEMMA NotifyInterfaceDownStep ==
    ASSUME InterfaceInv, NEW i \in Interface, NotifyInterfaceDown(i)
    PROVE  InterfaceInv'
<1> DEFINE a == Head(addresses[i])
<1>1. up' = [up EXCEPT ![i] = FALSE] /\ addresses' = addresses /\ Active(i)
    BY DEF NotifyInterfaceDown, Active
<1>2. OthersKept(i) /\ ~Active(i)'
    BY <1>1 DEF OthersKept, Active, InterfaceInv, InterfaceTypeOK, AddressesAtHome
<1>3. PICK s \in WithAddress(socketAddresses, a), b \in WithAddress(socketBroadcastAddresses, a) :
          /\ endpoints' = Close(endpoints, {s, b})
          /\ socketAddresses' = socketAddresses \ {s}
          /\ socketBroadcastAddresses' = socketBroadcastAddresses \ {b}
          /\ routes' = LeftRoutes(socketAddresses', DeleteAllRoutesFromInterface(routes, a))
    BY DEF NotifyInterfaceDown
<1>4. LeftOver(i, socketAddresses \ {s}, socketBroadcastAddresses \ {b},
               Close(endpoints, {s, b}), DeleteAllRoutesFromInterface(routes, a))
    BY <1>1, SocketsClosed
<1>5. routes' = LeftRoutes(socketAddresses \ {s}, DeleteAllRoutesFromInterface(routes, a))
    BY <1>3
<1> HIDE DEF a
<1> QED
    BY <1>2, <1>3, <1>4, <1>5, ClosedStep

LEMMA NotifyAddAddressUsedStep ==
    ASSUME InterfaceInv, NEW a \in Address, NotifyAddAddressUsed(a)
    PROVE  InterfaceInv'
<1> DEFINE i == HomeOf[a]
<1>1. i \in Interface
    BY InterfaceConstants
<1>2. /\ up[i] /\ addresses[i] = <<>> /\ addresses' = [addresses EXCEPT ![i] = <<a>>]
      /\ up' = up
      /\ OpenSockets(i, a, socketAddresses, socketBroadcastAddresses, endpoints, routes)
    BY DEF NotifyAddAddressUsed
<1>3. <<a>> \in Seq(Address) /\ (\A k \in DOMAIN <<a>> : HomeOf[<<a>>[k]] = i)
      /\ <<a>> # <<>> /\ Head(<<a>>) = a
    OBVIOUS
<1> HIDE DEF i
<1>4. OthersKept(i) /\ addresses'[i] = <<a>>
    BY <1>1, <1>2, <1>3, NewAddresses
<1>5. Active(i)' /\ Head(addresses'[i]) = a
    BY <1>2, <1>3, <1>4 DEF Active
<1>6. LeftOver(i, socketAddresses, socketBroadcastAddresses, endpoints, routes)
    BY <1>1, <1>2, NothingToClose DEF Active
<1>7. HomeOf[a] = i
    BY DEF i
<1> QED
    BY <1>1, <1>2, <1>4, <1>5, <1>6, <1>7, OpenedStep

LEMMA NotifyAddAddressIgnoredStep ==
    ASSUME InterfaceInv, NEW a \in Address, NotifyAddAddressIgnored(a)
    PROVE  InterfaceInv'
<1> DEFINE i == HomeOf[a]
           q == Append(addresses[i], a)
<1>1. i \in Interface /\ addresses[i] \in Seq(Address)
    BY InterfaceConstants DEF InterfaceInv, InterfaceTypeOK
<1>2. /\ ~up[i] \/ addresses[i] # <<>>
      /\ addresses' = [addresses EXCEPT ![i] = q] /\ up' = up
      /\ UNCHANGED <<endpoints, socketAddresses, socketBroadcastAddresses, routes>>
    BY DEF NotifyAddAddressIgnored
<1>3. q \in Seq(Address) /\ q # <<>> /\ (addresses[i] # <<>> => Head(q) = Head(addresses[i]))
    BY <1>1
<1>4. \A k \in DOMAIN q : HomeOf[q[k]] = i
    <2> SUFFICES ASSUME NEW k \in DOMAIN q PROVE HomeOf[q[k]] = i
        OBVIOUS
    <2>1. q[k] = a \/ (k \in DOMAIN addresses[i] /\ q[k] = addresses[i][k])
        BY <1>1
    <2> HIDE DEF q
    <2> QED
        BY <1>1, <2>1 DEF InterfaceInv, AddressesAtHome
<1> HIDE DEF i, q
<1>5. OthersKept(i) /\ addresses'[i] = q
    BY <1>1, <1>2, <1>3, <1>4, NewAddresses
<1>6. \A j \in Interface : /\ Active(j)' = Active(j)
                           /\ Active(j) => Head(addresses'[j]) = Head(addresses[j])
    BY <1>2, <1>3, <1>5 DEF OthersKept, Active
<1> QED
    BY <1>2, <1>5, <1>6, SocketsKeptStep DEF OthersKept

\* What is left when the k-th address of an interface is removed.
LEMMA AddressRemoved ==
    ASSUME InterfaceInv, NEW i \in Interface, NEW k \in DOMAIN addresses[i],
           addresses' = [addresses EXCEPT ![i] = RemoveAt(@, k)], UNCHANGED up
    PROVE  /\ OthersKept(i)
           /\ addresses'[i] = RemoveAt(addresses[i], k)
           /\ k # 1 => addresses'[i] # <<>> /\ Head(addresses'[i]) = Head(addresses[i])
           /\ Head(addresses[i]) = addresses[i][1]
<1> DEFINE s == addresses[i]
           q == RemoveAt(s, k)
<1>1. s \in Seq(Address) /\ addresses \in [Interface -> Seq(Address)]
    BY DEF InterfaceInv, InterfaceTypeOK
<1>2. k \in 1..Len(s) /\ Len(s) \in Nat
    BY <1>1
<1>3. /\ q \in Seq(Address) /\ Len(q) = Len(s) - 1
      /\ \A j \in 1..(Len(s) - 1) : q[j] = IF j < k THEN s[j] ELSE s[j + 1]
    BY <1>1, RemoveAtProperties
<1>4. \A j \in DOMAIN s : HomeOf[s[j]] = i
    BY DEF InterfaceInv, AddressesAtHome
<1>5. addresses' = [addresses EXCEPT ![i] = q]
    BY <1>1
<1> HIDE DEF s, q
<1>6. \A j \in DOMAIN q : HomeOf[q[j]] = i
    <2> SUFFICES ASSUME NEW j \in DOMAIN q PROVE HomeOf[q[j]] = i
        OBVIOUS
    <2>1. j \in 1..(Len(s) - 1)
        BY <1>3
    <2>2. j \in DOMAIN s /\ j + 1 \in DOMAIN s
        BY <1>1, <1>2, <2>1
    <2> QED
        BY <1>3, <1>4, <2>1, <2>2
<1>7. OthersKept(i) /\ addresses'[i] = q
    BY <1>3, <1>5, <1>6, NewAddresses
<1>8. ASSUME k # 1 PROVE q # <<>> /\ Head(q) = s[1]
    <2>1. Len(q) > 0 /\ 1 \in 1..(Len(s) - 1) /\ q[1] = s[1]
        BY <1>2, <1>3, <1>8
    <2> QED
        BY <1>3, <2>1
<1>9. Head(s) = s[1]
    BY <1>1, <1>2
<1> QED
    BY <1>7, <1>8, <1>9 DEF s, q

LEMMA NotifyRemoveAddressIgnoredStep ==
    ASSUME InterfaceInv, NEW i \in Interface, NEW k \in DOMAIN addresses[i],
           NotifyRemoveAddressIgnored(i, k)
    PROVE  InterfaceInv'
<1>1. /\ WithAddress(socketAddresses, addresses[i][k]) = {}
      /\ addresses' = [addresses EXCEPT ![i] = RemoveAt(@, k)] /\ up' = up
      /\ UNCHANGED <<endpoints, socketAddresses, socketBroadcastAddresses, routes>>
    BY DEF NotifyRemoveAddressIgnored
<1>2. /\ OthersKept(i)
      /\ k # 1 => addresses'[i] # <<>> /\ Head(addresses'[i]) = Head(addresses[i])
      /\ Head(addresses[i]) = addresses[i][1]
    BY <1>1, AddressRemoved
<1>3. Active(i) => k # 1
    BY <1>1, <1>2 DEF InterfaceInv, ActiveServed, Served, WithAddress
<1>4. addresses[i] # <<>>
    BY DEF InterfaceInv, InterfaceTypeOK
<1>5. \A j \in Interface : /\ Active(j)' = Active(j)
                           /\ Active(j) => Head(addresses'[j]) = Head(addresses[j])
    BY <1>1, <1>2, <1>3, <1>4 DEF OthersKept, Active
<1> QED
    BY <1>1, <1>2, <1>5, SocketsKeptStep DEF OthersKept

LEMMA NotifyRemoveAddressUsedStep ==
    ASSUME InterfaceInv, NEW i \in Interface, NEW k \in DOMAIN addresses[i],
           NotifyRemoveAddressUsed(i, k)
    PROVE  InterfaceInv'
<1> DEFINE a == addresses[i][k]
           next == Head(addresses'[i])
<1>1. addresses' = [addresses EXCEPT ![i] = RemoveAt(@, k)] /\ up' = up
    BY DEF NotifyRemoveAddressUsed
<1>2. OthersKept(i)
    BY <1>1, AddressRemoved
<1>3. PICK s \in WithAddress(socketAddresses, a), b \in WithAddress(socketBroadcastAddresses, a) :
          IF addresses'[i] # <<>>
          THEN OpenSockets(i, next, socketAddresses \ {s}, socketBroadcastAddresses,
                   Close(endpoints, {s, b}), DeleteAllRoutesFromInterface(routes, a))
          ELSE /\ socketAddresses' = socketAddresses \ {s}
               /\ socketBroadcastAddresses' = socketBroadcastAddresses
               /\ endpoints' = Close(endpoints, {s, b})
               /\ routes' = LeftRoutes(socketAddresses \ {s},
                                DeleteAllRoutesFromInterface(routes, a))
    BY DEF NotifyRemoveAddressUsed, ErasedBroadcast
<1>4. HomeOf[a] = i
    BY DEF InterfaceInv, AddressesAtHome
<1>5. Active(i) /\ a = Head(addresses[i])
    BY <1>3, <1>4 DEF WithAddress, InterfaceInv, UnicastOfActive
<1> HIDE DEF a, next
<1>6. LeftOver(i, socketAddresses \ {s}, socketBroadcastAddresses,
               Close(endpoints, {s, b}), DeleteAllRoutesFromInterface(routes, a))
    BY <1>3, <1>5, SocketsClosed
<1>7. CASE addresses'[i] = <<>>
    <2>1. ~Active(i)'
        BY <1>7 DEF Active
    <2> QED
        BY <1>2, <1>3, <1>6, <1>7, <2>1, ClosedStep
<1>8. CASE addresses'[i] # <<>>
    <2>1. Active(i)'
        BY <1>1, <1>5, <1>8 DEF Active
    <2>2. next \in Address /\ HomeOf[next] = i
        <3>1. /\ addresses'[i] \in Seq(Address)
              /\ \A j \in DOMAIN addresses'[i] : HomeOf[addresses'[i][j]] = i
            BY <1>2 DEF OthersKept, AddressesAtHome
        <3>2. 1 \in DOMAIN addresses'[i] /\ next = addresses'[i][1]
              /\ addresses'[i][1] \in Address
            BY <1>8, <3>1 DEF next
        <3> QED
            BY <3>1, <3>2
    <2>3. OpenSockets(i, next, socketAddresses \ {s}, socketBroadcastAddresses,
              Close(endpoints, {s, b}), DeleteAllRoutesFromInterface(routes, a))
        BY <1>3, <1>8
    <2>4. Head(addresses'[i]) = next
        BY DEF next
    <2> QED
        BY <1>2, <1>6, <2>1, <2>2, <2>3, <2>4, OpenedStep
<1> QED
    BY <1>7, <1>8

\* A step that changes the routes only, and none to a broadcast address.
LEMMA RoutesStep ==
    ASSUME InterfaceInv, RoutesOwned',
           UNCHANGED <<up, addresses, endpoints, socketAddresses, socketBroadcastAddresses>>,
           \A r \in routes : r.dst \notin Remote => r \in routes'
    PROVE  InterfaceInv'
<1> USE DEF InterfaceInv
<1>1. InterfaceTypeOK' /\ SocketsDistinct' /\ EndpointsOwned' /\ AddressesAtHome'
    BY DEF InterfaceTypeOK, SocketsDistinct, EndpointsOwned, Owned, AddressesAtHome
<1>2. UnicastOfActive'
    BY DEF UnicastOfActive, Active
<1>3. ActiveServed'
    <2> SUFFICES ASSUME NEW i \in Interface, Active(i)
                 PROVE  Served(i, Head(addresses[i]))'
        BY DEF ActiveServed, Active
    <2> DEFINE a == Head(addresses[i])
    <2>1. a \in Address
        BY FirstAddress DEF Active
    <2>2. Served(i, a)
        BY DEF ActiveServed
    <2>3. a' = a
        OBVIOUS
    <2> HIDE DEF a
    <2>4. \E r \in routes' : r.dst = a.broadcast /\ r.iface = a
        BY <2>1, <2>2, InterfaceConstants DEF Served
    <2>5. Served(i, a)'
        BY <2>2, <2>3, <2>4 DEF Served
    <2> QED
        BY <2>5 DEF a
<1> QED
    BY <1>1, <1>2, <1>3

\* The receiver stands for an address of the interface that the message came in by,
\* which is active, so that there is a socket for the first address of it.
LEMMA UpdateRouteToNeighborStep ==
    ASSUME InterfaceInv, NEW e \in endpoints, NEW d \in Remote, UpdateRouteToNeighbor(e, d)
    PROVE  InterfaceInv'
<1> USE DEF InterfaceInv
<1>1. PICK i \in Interface :
          /\ Contains(addresses[i], ReceiverOf(e.socket))
          /\ routes' = {r \in routes : r.dst # d}
                           \cup {[dst |-> d, iface |-> Head(addresses[i])]}
    BY DEF UpdateRouteToNeighbor
<1> DEFINE all == socketAddresses \cup socketBroadcastAddresses
           c == CHOOSE r \in all : r.socket = e.socket
           a == Head(addresses[i])
<1>2. Owned(e, socketAddresses, socketBroadcastAddresses)
    BY DEF EndpointsOwned
<1>3. c \in all /\ c.socket = e.socket
    <2>1. \E r \in all : r.socket = e.socket
        BY <1>2 DEF Owned
    <2> HIDE DEF all
    <2> QED
        BY <2>1
<1>4. ReceiverOf(e.socket) = c.iface
    BY DEF ReceiverOf
<1> HIDE DEF c
<1>5. e.device = HomeOf[c.iface]
    BY <1>2, <1>3 DEF Owned, SocketsDistinct
<1>6. PICK k \in 1..Len(addresses[i]) : addresses[i][k] = c.iface
    BY <1>1, <1>4 DEF Contains
<1>7. addresses[i] \in Seq(Address)
    BY DEF InterfaceTypeOK
<1>8. addresses[i] # <<>> /\ HomeOf[c.iface] = i
    BY <1>6, <1>7 DEF AddressesAtHome
<1>9. Active(i)
    BY <1>5, <1>8 DEF UpdateRouteToNeighbor, Receives, Active
<1>10. \E s \in socketAddresses : s.iface = a
    BY <1>9 DEF ActiveServed, Served
<1> HIDE DEF a
<1>11. RoutesOwned'
    <2>1. socketAddresses' = socketAddresses
        BY DEF UpdateRouteToNeighbor
    <2> SUFFICES ASSUME NEW r \in routes', r # LoopbackEntry
                 PROVE  /\ \E s \in socketAddresses : s.iface = r.iface
                        /\ r.dst \in Remote \/ r.dst = r.iface.broadcast
        BY <2>1 DEF RoutesOwned, LoopbackEntry
    <2>2. CASE r \in routes
        BY <2>2 DEF RoutesOwned
    <2>3. CASE r = [dst |-> d, iface |-> a]
        <3>1. r.dst = d /\ r.iface = a
            BY <2>3
        <3> QED
            BY <3>1, <1>10
    <2> QED
        BY <2>2, <2>3, <1>1 DEF a
<1>12. \A r \in routes : r.dst \notin Remote => r \in routes'
    BY <1>1
<1>13. UNCHANGED <<up, addresses, endpoints, socketAddresses, socketBroadcastAddresses>>
    BY DEF UpdateRouteToNeighbor
<1> QED
    BY <1>11, <1>12, <1>13, RoutesStep

LEMMA PurgeRouteStep ==
    ASSUME InterfaceInv, NEW r \in routes, PurgeRoute(r)
    PROVE  InterfaceInv'
<1>1. RoutesOwned'
    BY DEF InterfaceInv, RoutesOwned, LoopbackEntry, PurgeRoute
<1> QED
    BY <1>1, RoutesStep DEF PurgeRoute

-----------------------------------------------------------------------------
LEMMA InterfacesInitial == InterfacesInit => InterfaceInv
<1> SUFFICES ASSUME InterfacesInit PROVE InterfaceInv
    OBVIOUS
<1>1. \A i \in Interface : up[i] = FALSE /\ addresses[i] = <<>>
    BY DEF InterfacesInit
<1>2. InterfaceTypeOK
    BY DEF InterfacesInit, InterfaceTypeOK
<1>3. AddressesAtHome
    BY <1>1 DEF AddressesAtHome
<1>4. SocketsDistinct /\ UnicastOfActive /\ EndpointsOwned /\ RoutesOwned
    BY DEF InterfacesInit, SocketsDistinct, UnicastOfActive, EndpointsOwned, RoutesOwned
<1>5. ActiveServed
    BY <1>1 DEF ActiveServed, Active
<1> QED
    BY <1>2, <1>3, <1>4, <1>5 DEF InterfaceInv

LEMMA InterfaceInvariant == InterfacesSpec => []InterfaceInv
<1>1. InterfaceInv /\ [InterfacesNext]_interfaceVars => InterfaceInv'
    <2> SUFFICES ASSUME InterfaceInv, [InterfacesNext]_interfaceVars PROVE InterfaceInv'
        OBVIOUS
    <2>1. ASSUME NEW i \in Interface, NotifyInterfaceUp(i) \/ NotifyInterfaceDown(i)
          PROVE  InterfaceInv'
        BY <2>1, NotifyInterfaceUpStep, NotifyInterfaceDownStep
    <2>2. ASSUME NEW a \in Address, NotifyAddAddressUsed(a) \/ NotifyAddAddressIgnored(a)
          PROVE  InterfaceInv'
        BY <2>2, NotifyAddAddressUsedStep, NotifyAddAddressIgnoredStep
    <2>3. ASSUME NEW i \in Interface, NEW k \in DOMAIN addresses[i],
                 NotifyRemoveAddressIgnored(i, k) \/ NotifyRemoveAddressUsed(i, k)
          PROVE  InterfaceInv'
        BY <2>3, NotifyRemoveAddressIgnoredStep, NotifyRemoveAddressUsedStep
    <2>4. ASSUME NEW e \in endpoints, NEW d \in Remote, UpdateRouteToNeighbor(e, d)
          PROVE  InterfaceInv'
        BY <2>4, UpdateRouteToNeighborStep
    <2>5. ASSUME NEW r \in routes, PurgeRoute(r) PROVE InterfaceInv'
        BY <2>5, PurgeRouteStep
    <2>6. CASE UNCHANGED interfaceVars
        <3>1. RoutesOwned'
            BY <2>6 DEF interfaceVars, InterfaceInv, RoutesOwned, LoopbackEntry
        <3> QED
            BY <2>6, <3>1, RoutesStep DEF interfaceVars
    <2> QED
        BY <2>1, <2>2, <2>3, <2>4, <2>5, <2>6 DEF InterfacesNext
<1> QED
    BY InterfacesInitial, <1>1, PTL DEF InterfacesSpec

\* RecvAodv never meets the "unknown socket" of its assertion: what can receive is
\* in one of the maps, however they are changed before or after a socket is closed.
THEOREM ReceiversAreKnown == InterfacesSpec => []ReceivingSocketsKnown
<1>1. InterfaceInv => ReceivingSocketsKnown
    BY DEF InterfaceInv, EndpointsOwned, Owned, ReceivingSocketsKnown
<1> QED
    BY <1>1, InterfaceInvariant, PTL

\* No route goes out of an address that the node does not use any more: whatever
\* closes the socket of an address deletes the routes from it, and the routes
\* learned from a datagram go out of an address that has a socket.
THEOREM RoutesUseOwn == InterfacesSpec => []RoutesUseOwnAddresses
<1>1. InterfaceInv => RoutesUseOwnAddresses
    BY DEF InterfaceInv, RoutesOwned, RoutesUseOwnAddresses, WithAddress
<1> QED
    BY <1>1, InterfaceInvariant, PTL

LEMMA ServedTakesPart == InterfaceInv => ActiveInterfacesTakePart
<1> SUFFICES ASSUME InterfaceInv, NEW i \in Interface, Active(i),
                    NEW a, a = Head(addresses[i])
             PROVE  /\ Cardinality(WithAddress(socketAddresses, a)) = 1
                    /\ \E s \in socketAddresses, e \in endpoints :
                          s.iface = a /\ e.socket = s.socket /\ e.dst = a.local
                    /\ WithAddress(socketBroadcastAddresses, a) # {}
                    /\ \E e \in endpoints : e.device = i /\ e.dst = a.broadcast
                    /\ \E r \in routes : r.dst = a.broadcast /\ r.iface = a
    BY DEF ActiveInterfacesTakePart
<1>1. Served(i, a)
    BY DEF InterfaceInv, ActiveServed
<1>2. PICK s \in socketAddresses :
          s.iface = a /\ \E e \in endpoints : e.socket = s.socket /\ e.dst = a.local
    BY <1>1 DEF Served
<1>3. WithAddress(socketAddresses, a) = {s}
    BY <1>2 DEF WithAddress, InterfaceInv, UnicastOfActive
<1>4. Cardinality({s}) = 1
    BY FS_Singleton
<1> QED
    BY <1>1, <1>2, <1>3, <1>4 DEF Served, WithAddress

\* An interface that is up and has an address has one unicast socket, hears unicast
\* and broadcast datagrams, and has a broadcast socket to be found and a route for
\* broadcasts, after any sequence of changes of interfaces and addresses.
THEOREM ActiveTakePart == InterfacesSpec => []ActiveInterfacesTakePart
BY ServedTakesPart, InterfaceInvariant, PTL
=============================================================================
