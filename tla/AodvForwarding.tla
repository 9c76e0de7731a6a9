--------------------------- MODULE AodvForwarding ---------------------------
(***************************************************************************)
(* IP packets: sending, the detour over the loopback device for want of a  *)
(* route, local delivery, forwarding, and route errors.                    *)
(***************************************************************************)
EXTENDS AodvDiscovery

DataPacket(p) == Ip(p.src, p.dst, DataTtl, [type |-> "DATA", id |-> p.id])

\* An application sends p; without an interface RouteOutput fails.
RouteOutput(p) ==
    /\ p \notin sent
    /\ sent' = sent \cup {p}
    /\ net' = IF up[p.src]
              THEN net \cup SendTo(rt[p.src], p.src, p.dst, DataTtl, DataPacket(p).body)
              ELSE net
    /\ UNCHANGED <<rt, nb, ownVars, queue, searchVars, rerrCount, up, helloVars, detectorVars,
                   worldVars, delivered>>

\* RequestQueue::Enqueue on a queue as a set.  A packet that is there is not
\* added again.  A full queue drops its most aged packet; the set does not know
\* which one that is.
Enqueue(q, p) ==
    IF p \notin q /\ Cardinality(q) = MaxQueueLen THEN {(q \ {x}) \cup {p} : x \in q}
                                                  ELSE {q \cup {p}}

\* Is f the next frame of its receiver on the loopback device?
FromLoopback(f) == IsLoopback(f) /\ up[f.to]

\* DeferredRouteOutput of a packet that is in the queue already, or whose
\* destination is being searched for: it waits with the others.
DeferredRouteOutputWait(f) ==
    /\ FromLoopback(f)
    /\ f.ip \in queue[f.to] \/ rt[f.to][f.ip.dst].flag = "IN_SEARCH"
    /\ \E q \in Enqueue(queue[f.to], f.ip) : queue' = [queue EXCEPT ![f.to] = q]
    /\ net' = net \ {f}
    /\ UNCHANGED <<rt, nb, ownVars, searchVars, rerrCount, up, helloVars, detectorVars,
                   worldVars, appVars>>

\* No search is under way, whether there is a route by now or not.
DeferredRouteOutputSearch(f) ==
    /\ FromLoopback(f)
    /\ f.ip \notin queue[f.to]
    /\ rt[f.to][f.ip.dst].flag # "IN_SEARCH"
    /\ \E q \in Enqueue(queue[f.to], f.ip) : queue' = [queue EXCEPT ![f.to] = q]
    /\ SendRequest(f.to, f.ip.dst, addressReqTimer, delayedRequest, net \ {f})
    /\ UNCHANGED <<nb, rerrCount, up, helloTimer, underVerification, verificationProbe,
                   suspect, worldVars, appVars>>

\* f reaches its receiver, which is not the source of the packet in it.
Arrives(f) ==
    /\ {f.from, f.to} \in links
    /\ up[f.to]
    /\ f.ip.src # f.to

\* RouteInput drops a packet of its own, and every packet when no interface
\* is up.
RouteInputDrop(f) ==
    /\ \/ ~up[f.to]
       \/ {f.from, f.to} \in links /\ f.ip.src = f.to
    /\ net' = net \ {f}
    /\ UNCHANGED <<rt, nb, ownVars, queue, searchVars, rerrCount, up, helloVars, detectorVars,
                   worldVars, appVars>>

\* The neighbours after local delivery of a packet: a unicast packet refreshes
\* the next hop of the valid route to its source.
RefreshedNeighbours(n, ip) ==
    IF ip.dst = n /\ LookupValidRoute(rt[n], ip.src) THEN nb[n] \cup {rt[n][ip.src].nextHop}
                                                     ELSE nb[n]

LocalDeliver(f) ==
    /\ Arrives(f)
    /\ f.ip.dst = f.to
    /\ f.ip.body.type = "DATA"
    /\ nb' = [nb EXCEPT ![f.to] = RefreshedNeighbours(f.to, f.ip)]
    /\ delivered' = delivered \cup {f.ip.body.id}
    /\ net' = net \ {f}
    /\ UNCHANGED <<rt, ownVars, queue, searchVars, rerrCount, up, helloVars, detectorVars,
                   worldVars, sent>>

\* Forwarding over a valid route.  The next hop towards the source is noted as
\* a neighbour even when the source is unknown: then it is Ipv4Address().
\* IpForward drops the packet when its time to live is over.
ForwardPacket(f) ==
    LET n == f.to
        t == rt[n]
    IN  /\ Arrives(f)
        /\ f.ip.dst \in Node \ {n}
        /\ LookupValidRoute(t, f.ip.dst)
        /\ nb' = [nb EXCEPT ![n] = @ \cup {t[f.ip.dst].nextHop, t[f.ip.src].nextHop}]
        /\ net' = (net \ {f}) \cup
                    IF f.ip.ttl > 1
                    THEN {Transmit(n, t[f.ip.dst].nextHop, [f.ip EXCEPT !.ttl = @ - 1])}
                    ELSE {}
        /\ UNCHANGED <<rt, ownVars, queue, searchVars, rerrCount, up, helloVars, detectorVars,
                       worldVars, appVars>>

-----------------------------------------------------------------------------
(* Route errors.                                                            *)

\* What SendRerrMessage sends from table t, and from the table after it once
\* the handler is done: the message leaves after a random jitter.
SendRerrMessage(n, t, after, unreachable, precursors) ==
    LET reachable == {p \in precursors : LookupValidRoute(t, p)}
    IN  IF rerrCount[n] = RerrRateLimit \/ reachable = {} THEN {}
        ELSE IF Cardinality(precursors) = 1
             THEN UNION {SendTo(after, n, p, 1, NewRerr(unreachable)) : p \in reachable}
             ELSE Broadcast(n, 1, NewRerr(unreachable))

\* Only the unicast branch counts the message.
CountRerr(n, t, precursors) ==
    IF /\ Cardinality(precursors) = 1
       /\ \E p \in precursors : LookupValidRoute(t, p)
       /\ rerrCount[n] # RerrRateLimit
    THEN [rerrCount EXCEPT ![n] = @ + 1]
    ELSE rerrCount

\* Tell the precursors of the destinations D that these are unreachable, and
\* invalidate the routes to them.
ReportUnreachable(n, t, D, frames) ==
    LET after == InvalidateRoutesWithDst(t, D)
        precursors == PrecursorsOf(t, D)
    IN  /\ rt' = [rt EXCEPT ![n] = after]
        /\ rerrCount' = CountRerr(n, t, precursors)
        /\ net' = frames \cup SendRerrMessage(n, t, after, D, precursors)

\* SendRerrWhenBreaksLinkToNextHop, the neighbour table's link failure handler.
SendRerrWhenBreaksLinkToNextHop(n, h, frames) ==
    IF h \in Node /\ Found(rt[n], h)
    THEN ReportUnreachable(n, rt[n], {h} \cup GetListOfDestinationWithNextHop(rt[n], h), frames)
    ELSE net' = frames /\ UNCHANGED <<rt, rerrCount>>

\* SendRerrWhenNoRouteToForward: towards the source of the packet if there is
\* a route to it, else to everybody; the message is never counted.
SendRerrWhenNoRouteToForward(n, dst, origin) ==
    IF rerrCount[n] = RerrRateLimit THEN {}
    ELSE IF LookupValidRoute(rt[n], origin)
         THEN SendTo(rt[n], n, rt[n][origin].nextHop, 1, NewRerr({dst}))
         ELSE Broadcast(n, 1, NewRerr({dst}))

\* Forwarding without a valid route.
ForwardWithoutRoute(f) ==
    /\ Arrives(f)
    /\ f.ip.dst \in Node \ {f.to}
    /\ ~LookupValidRoute(rt[f.to], f.ip.dst)
    /\ net' = (net \ {f}) \cup SendRerrWhenNoRouteToForward(f.to, f.ip.dst, f.ip.src)
    /\ UNCHANGED <<rt, nb, ownVars, queue, searchVars, rerrCount, up, helloVars, detectorVars,
                   worldVars, appVars>>
=============================================================================
