--------------------------- MODULE AodvDiscovery ----------------------------
(***************************************************************************)
(* Route discovery: SendRequest with its rate limit, the expanding ring    *)
(* search and the retry timer, and the packets that wait for a route.      *)
(***************************************************************************)
EXTENDS AodvState

\* Mutant: the ring grows and stops at the threshold.
NextRingStopsAtThreshold(e) ==
    IF e.flag = "NONE" \/ e.hop + TtlIncrement > TtlThreshold THEN TtlStart
    ELSE e.hop + TtlIncrement

\* The time to live of the next RREQ for the destination of entry e; the hop
\* count of an entry in search holds the ring of the last one.
NextRing(e) ==
    CASE e.flag = "NONE" -> TtlStart
      [] e.flag = "IN_SEARCH" ->
           IF e.hop + TtlIncrement > TtlThreshold THEN NetDiameter ELSE e.hop + TtlIncrement
      [] OTHER ->
           IF e.hop + TtlIncrement < NetDiameter THEN e.hop + TtlIncrement ELSE NetDiameter

\* Mutant: a new entry stays VALID, as its constructor made it.
SearchEntryNewIsValid(e) ==
    [e EXCEPT !.flag = IF @ = "NONE" THEN "VALID" ELSE "IN_SEARCH",
              !.hop = NextRing(e),
              !.reqCount = IF NextRing(e) = NetDiameter THEN @ + 1 ELSE @]

\* The entry while it is searched for.  A new one has no next hop.
SearchEntry(e) ==
    [e EXCEPT !.flag = "IN_SEARCH",
              !.hop = NextRing(e),
              !.reqCount = IF NextRing(e) = NetDiameter THEN @ + 1 ELSE @]

\* Mutant: the deferred call is not scheduled.
DeferRequestForgotten(n, d, delayed) ==
    /\ rreqCount[n] = RreqRateLimit
    /\ delayedRequest' = delayed
    /\ UNCHANGED <<rt, seqNo, requestId, rreqIdCache, rreqCount, lastBcast, rttProbe>>

\* SendRequest, when the rate limit defers it to a later call.
DeferRequest(n, d, delayed) ==
    /\ rreqCount[n] = RreqRateLimit
    /\ delayedRequest' = [delayed EXCEPT ![n][d] = @ + 1]
    /\ UNCHANGED <<rt, seqNo, requestId, rreqIdCache, rreqCount, lastBcast, rttProbe>>

\* The RREQ that SendRequest(d) originates.
NewRreq(n, d) ==
    LET e == rt[n][d]
    IN  [type |-> "RREQ", id |-> requestId[n] + 1, dst |-> d,
         dstSeqNo |-> IF e.validSeqNo THEN e.seqNo ELSE 0,
         unknownSeqNo |-> ~e.validSeqNo,
         origin |-> n, originSeqNo |-> seqNo[n] + 1, hopCount |-> 0]

\* The retry timer is cancelled and set again.
ScheduleRreqRetry(timer, n, d) == [timer EXCEPT ![n][d] = TRUE]

\* SendRequest.  timer, delayed and frames are the retry timers, the deferred
\* calls and the frames that its caller leaves.  A node without sockets counts
\* the request and arms the timer, and sends nothing.
SendRequest(n, d, timer, delayed, frames) ==
    \/ /\ DeferRequest(n, d, delayed)
       /\ addressReqTimer' = timer
       /\ net' = frames
    \/ /\ rreqCount[n] # RreqRateLimit
       /\ seqNo[n] < MaxSeqNo
       /\ rreqCount' = [rreqCount EXCEPT ![n] = @ + 1]
       /\ rt' = [rt EXCEPT ![n][d] = SearchEntry(@)]
       /\ seqNo' = [seqNo EXCEPT ![n] = @ + 1]
       /\ requestId' = [requestId EXCEPT ![n] = @ + 1]
       /\ addressReqTimer' = ScheduleRreqRetry(timer, n, d)
       /\ delayedRequest' = delayed
       /\ IF up[n]
          THEN /\ rreqIdCache' = [rreqIdCache EXCEPT ![n] = @ \cup {<<n, requestId[n] + 1>>}]
               /\ rttProbe' = IF EnableRttWormholeDetect
                              THEN [rttProbe EXCEPT ![n] = @ \cup {d}] ELSE rttProbe
               /\ lastBcast' = [lastBcast EXCEPT ![n] = TRUE]
               /\ net' = frames \cup Broadcast(n, NextRing(rt[n][d]), NewRreq(n, d))
          ELSE /\ net' = frames
               /\ UNCHANGED <<rreqIdCache, rttProbe, lastBcast>>

\* The deferred call of SendRequest.
DelayedSendRequest(n, d) ==
    /\ delayedRequest[n][d] > 0
    /\ SendRequest(n, d, addressReqTimer, [delayedRequest EXCEPT ![n][d] = @ - 1], net)
    /\ UNCHANGED <<nb, queue, rerrCount, up, helloTimer, underVerification,
                   verificationProbe, suspect, links, sent, delivered, events>>

RreqRateLimitTimerExpire(n) ==
    /\ rreqCount' = [rreqCount EXCEPT ![n] = 0]
    /\ UNCHANGED <<rt, nb, seqNo, requestId, rreqIdCache, queue, searchVars, rerrCount, up,
                   helloVars, detectorVars, net, worldVars, appVars>>

\* Packets that wait for a route to d, and the frames that carry them once
\* the route has next hop h.
Waiting(n, d) == {p \in queue[n] : p.dst = d}

SendPacketFromQueue(n, d, h) == {Transmit(n, h, p) : p \in Waiting(n, d)}

\* Mutant: a packet of those that wait stays.
DropPacketWithDstStopsEarly(n, d) ==
    [queue EXCEPT ![n] = @ \ {p \in Waiting(n, d) : \E x \in Waiting(n, d) : x # p}]

DropPacketWithDst(n, d) == [queue EXCEPT ![n] = @ \ Waiting(n, d)]

\* Mutant: the timer fires on a valid route and the packets are forgotten.
RequestTimerRouteValidNoFlush(n, d) ==
    /\ LookupValidRoute(rt[n], d)
    /\ addressReqTimer' = [addressReqTimer EXCEPT ![n][d] = FALSE]
    /\ UNCHANGED <<rt, nb, ownVars, queue, delayedRequest, rerrCount, up, helloVars,
                   detectorVars, net, worldVars, appVars>>

\* Mutant: any entry counts as a route, LookupRoute instead of LookupValidRoute.
RequestTimerRouteFound(n, d) ==
    /\ Found(rt[n], d)
    /\ addressReqTimer' = [addressReqTimer EXCEPT ![n][d] = FALSE]
    /\ net' = net \cup SendPacketFromQueue(n, d, rt[n][d].nextHop)
    /\ queue' = DropPacketWithDst(n, d)
    /\ UNCHANGED <<rt, nb, ownVars, delayedRequest, rerrCount, up, helloVars, detectorVars,
                   worldVars, appVars>>

\* The retry timer fires on a valid route: the packets that wait are sent.
RequestTimerRouteValid(n, d) ==
    /\ LookupValidRoute(rt[n], d)
    /\ addressReqTimer' = [addressReqTimer EXCEPT ![n][d] = FALSE]
    /\ net' = net \cup SendPacketFromQueue(n, d, rt[n][d].nextHop)
    /\ queue' = DropPacketWithDst(n, d)
    /\ UNCHANGED <<rt, nb, ownVars, delayedRequest, rerrCount, up, helloVars, detectorVars,
                   worldVars, appVars>>

\* Mutant: one retry too many.
SearchIsOverLate(e) == e.reqCount > RreqRetries \/ e.flag # "IN_SEARCH"

\* The search for d has used its retries, or its entry is gone or invalid.
SearchIsOver(e) == e.reqCount = RreqRetries \/ e.flag # "IN_SEARCH"

RequestTimerGiveUp(n, d) ==
    /\ ~LookupValidRoute(rt[n], d)
    /\ SearchIsOver(rt[n][d])
    /\ addressReqTimer' = [addressReqTimer EXCEPT ![n][d] = FALSE]
    /\ rt' = [rt EXCEPT ![n] = DeleteRoute(@, d)]
    /\ queue' = DropPacketWithDst(n, d)
    /\ UNCHANGED <<nb, ownVars, delayedRequest, rerrCount, up, helloVars, detectorVars,
                   net, worldVars, appVars>>

RequestTimerRetry(n, d) ==
    /\ ~LookupValidRoute(rt[n], d)
    /\ ~SearchIsOver(rt[n][d])
    /\ SendRequest(n, d, [addressReqTimer EXCEPT ![n][d] = FALSE], delayedRequest, net)
    /\ UNCHANGED <<nb, queue, rerrCount, up, helloTimer, underVerification,
                   verificationProbe, suspect, worldVars, appVars>>

RouteRequestTimerExpire(n, d) ==
    /\ addressReqTimer[n][d]
    /\ TimelyNetwork => net = {}
    /\ \/ RequestTimerRouteValid(n, d)
       \/ RequestTimerGiveUp(n, d)
       \/ RequestTimerRetry(n, d)
=============================================================================
