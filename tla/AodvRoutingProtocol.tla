------------------------ MODULE AodvRoutingProtocol -------------------------
(***************************************************************************)
(* A network of nodes that run ns3::aodv::RoutingProtocol                  *)
(* (src/aodv/model/aodv-routing-protocol.cc): route discovery, replies,    *)
(* route errors, hello messages, packets that wait for a route, and the    *)
(* RTT wormhole detector with its second probe.                            *)
(*                                                                         *)
(* The simulator runs one event at a time, so an action is one event       *)
(* handler run to its end.  Time is abstracted: a timer that is armed may  *)
(* fire at any moment, a lifetime may end at any moment, and a frame in    *)
(* flight may overtake others.                                             *)
(***************************************************************************)
EXTENDS AodvControl

RouteInput(f) ==
    \/ DeferredRouteOutputWait(f)
    \/ DeferredRouteOutputSearch(f)
    \/ RouteInputDrop(f)
    \/ LocalDeliver(f)
    \/ ForwardPacket(f)
    \/ ForwardWithoutRoute(f)
    \/ RecvAodv(f)

-----------------------------------------------------------------------------
(* Hello messages and the other timers.                                     *)

\* Mutant: a hello message carries the sequence number of the next RREQ.
HelloTimerExpireSeqNoAhead(n) ==
    /\ helloTimer[n]
    /\ lastBcast' = [lastBcast EXCEPT ![n] = FALSE]
    /\ net' = IF lastBcast[n] \/ ~up[n] THEN net
              ELSE net \cup Broadcast(n, 1, NewRrep(n, seqNo[n] + 1, n, 0, FALSE))
    /\ UNCHANGED <<rt, nb, ownVars, queue, searchVars, rerrCount, up, helloTimer, detectorVars,
                   worldVars, appVars>>

\* A node that has not broadcast since the last time sends a hello message.
HelloTimerExpire(n) ==
    /\ helloTimer[n]
    /\ lastBcast' = [lastBcast EXCEPT ![n] = FALSE]
    /\ net' = IF lastBcast[n] \/ ~up[n] THEN net
              ELSE net \cup Broadcast(n, 1, NewRrep(n, seqNo[n], n, 0, FALSE))
    /\ UNCHANGED <<rt, nb, ownVars, queue, searchVars, rerrCount, up, helloTimer, detectorVars,
                   worldVars, appVars>>

RerrRateLimitTimerExpire(n) ==
    /\ rerrCount' = [rerrCount EXCEPT ![n] = 0]
    /\ UNCHANGED <<rt, nb, ownVars, queue, searchVars, up, helloVars, detectorVars, net,
                   worldVars, appVars>>

-----------------------------------------------------------------------------
(* The environment: lost frames, links that break and come back, interfaces *)
(* that go down and up, lifetimes that end.                                 *)

\* One of the bounded events of the environment.
Event == events < MaxEvents /\ events' = events + 1

\* A frame is lost for want of a link, or by an event.
Fails(f) ==
    /\ ~IsLoopback(f)
    /\ IF {f.from, f.to} \in links THEN Event ELSE UNCHANGED events

\* A frame is lost and the sender does not notice: a broadcast, or a receiver
\* whose hardware address the neighbour table does not know.
LoseFrame(f) ==
    /\ Fails(f)
    /\ net' = net \ {f}
    /\ UNCHANGED <<rt, nb, ownVars, queue, searchVars, rerrCount, up, helloVars, detectorVars,
                   links, appVars>>

\* The link failure handler runs for a neighbour, and it is removed.
CloseNeighbour(n, h, frames) ==
    /\ h \in nb[n]
    /\ SendRerrWhenBreaksLinkToNextHop(n, h, frames)
    /\ nb' = [nb EXCEPT ![n] = @ \ {h}]
    /\ UNCHANGED <<ownVars, queue, searchVars, up, helloVars, detectorVars, links, appVars>>

\* The MAC layer drops a unicast frame: NotifyTxError.
NotifyTxError(f) ==
    /\ Fails(f)
    /\ f.ip.dst # Bcast
    /\ up[f.from]
    /\ CloseNeighbour(f.from, f.to, net \ {f})

\* A neighbour has not been heard of for too long.
NeighbourExpire(n, h) == Event /\ CloseNeighbour(n, h, net)

\* The lifetime of a route is over.
RouteExpire(n, d) ==
    /\ Event
    /\ rt[n][d].flag \in {"VALID", "INVALID"}
    /\ rt' = [rt EXCEPT ![n][d] = ExpireEntry(@)]
    /\ UNCHANGED <<nb, ownVars, queue, searchVars, rerrCount, up, helloVars, detectorVars, net,
                   links, appVars>>

\* A packet has waited for too long.
QueueExpire(n, p) ==
    /\ Event
    /\ queue' = [queue EXCEPT ![n] = @ \ {p}]
    /\ UNCHANGED <<rt, nb, ownVars, searchVars, rerrCount, up, helloVars, detectorVars, net,
                   links, appVars>>

\* The time for which a neighbour is suspect is over.
SuspectExpire(n, a) ==
    /\ Event
    /\ suspect' = [suspect EXCEPT ![n] = @ \ {a}]
    /\ UNCHANGED <<rt, nb, ownVars, queue, searchVars, rerrCount, up, helloVars, rttProbe,
                   underVerification, verificationProbe, net, links, appVars>>

LinkChange(l) ==
    /\ Event
    /\ links' = IF l \in links THEN links \ {l} ELSE links \cup {l}
    /\ UNCHANGED <<rt, nb, ownVars, queue, searchVars, rerrCount, up, helloVars, detectorVars,
                   net, appVars>>

\* The queue, the retry timers and the detector's tables survive.
NotifyInterfaceDown(n) ==
    /\ Event
    /\ up[n]
    /\ up' = [up EXCEPT ![n] = FALSE]
    /\ helloTimer' = [helloTimer EXCEPT ![n] = FALSE]
    /\ nb' = [nb EXCEPT ![n] = {}]
    /\ rt' = [rt EXCEPT ![n] = EmptyTable]
    /\ UNCHANGED <<ownVars, queue, searchVars, rerrCount, lastBcast, detectorVars, net, links,
                   appVars>>

\* Nothing starts the hello timer again.
NotifyInterfaceUp(n) ==
    /\ ~up[n]
    /\ up' = [up EXCEPT ![n] = TRUE]
    /\ UNCHANGED <<rt, nb, ownVars, queue, searchVars, rerrCount, helloVars, detectorVars, net,
                   worldVars, appVars>>

-----------------------------------------------------------------------------
Timers(n) ==
    \/ \E d \in Node : RouteRequestTimerExpire(n, d)
    \/ \E d \in Node : DelayedSendRequest(n, d)
    \/ RreqRateLimitTimerExpire(n)
    \/ RerrRateLimitTimerExpire(n)
    \/ HelloTimerExpire(n)

Environment ==
    \/ \E f \in net : LoseFrame(f) \/ NotifyTxError(f)
    \/ \E n \in Node : \/ \E h \in nb[n] : NeighbourExpire(n, h)
                       \/ \E d \in Node : RouteExpire(n, d)
                       \/ \E p \in queue[n] : QueueExpire(n, p)
                       \/ \E a \in suspect[n] : SuspectExpire(n, a)
                       \/ NotifyInterfaceDown(n)
                       \/ NotifyInterfaceUp(n)
    \/ \E l \in InitLinks : LinkChange(l)

Next ==
    \/ \E p \in Packets : RouteOutput(p)
    \/ \E f \in net : RouteInput(f)
    \/ \E n \in Node : Timers(n)
    \/ Environment

Spec == Init /\ [][Next]_vars

\* The simulator does not stop while it has events: frames in flight arrive or
\* fail, and timers that are armed fire.  Time passes: a request that the rate
\* limit defers over and over does not keep the timer of the limit from firing.
Progress ==
    \/ \E f \in net : RouteInput(f) \/ LoseFrame(f) \/ NotifyTxError(f)
    \/ \E n \in Node : Timers(n)

FairSpec ==
    /\ Spec
    /\ WF_vars(Progress)
    /\ \A n \in Node : WF_vars(RreqRateLimitTimerExpire(n))

-----------------------------------------------------------------------------
\* Types.  A frame goes to a node and precursors are nodes: no handler takes
\* the default address, which SendRequest writes into a new entry as its next hop,
\* for a receiver, whatever state it finds an entry in.
TypeOK ==
    /\ rt \in [Node -> Table]
    /\ nb \in [Node -> SUBSET Addr]
    /\ seqNo \in [Node -> Nat]
    /\ requestId \in [Node -> Nat]
    /\ rreqIdCache \in [Node -> SUBSET (Node \X Nat)]
    /\ queue \in [Node -> SUBSET UnicastPacket]
    /\ addressReqTimer \in [Node -> [Node -> BOOLEAN]]
    /\ delayedRequest \in [Node -> [Node -> Nat]]
    /\ rreqCount \in [Node -> Nat]
    /\ rerrCount \in [Node -> Nat]
    /\ up \in [Node -> BOOLEAN]
    /\ helloTimer \in [Node -> BOOLEAN]
    /\ lastBcast \in [Node -> BOOLEAN]
    /\ rttProbe \in [Node -> SUBSET Node]
    /\ underVerification \in [Node -> SUBSET Node]
    /\ verificationProbe \in [Node -> SUBSET Node]
    /\ suspect \in [Node -> SUBSET Node]
    /\ net \subseteq Frame
    /\ links \subseteq SUBSET Node
    /\ sent \subseteq Packets
    /\ delivered \subseteq Nat
    /\ events \in Nat

\* The IP packets on their way, in frames and in queues.
InTransit == {f.ip : f \in net} \cup UNION {queue[n] : n \in Node}

\* The sequence numbers in an RREQ or RREP are not ahead of their nodes.
SeqNosOfPacket(p) ==
    /\ p.body.type = "RREQ" =>
          /\ p.body.originSeqNo <= seqNo[p.body.origin]
          /\ ~p.body.unknownSeqNo => p.body.dstSeqNo <= seqNo[p.body.dst]
    /\ p.body.type = "RREP" => p.body.dstSeqNo <= seqNo[p.body.dst]

\* Nobody knows a sequence number of a node that the node has not reached yet:
\* not in a valid field of a routing table entry, not in a RREQ or RREP in
\* flight or in a queue.  Without this a node could not make its own RREPs
\* win over what others claim about it.  The handlers copy these numbers
\* around in RecvRequest, SendReplyByIntermediateNode, RecvReply, ProcessHello
\* and SendRequest, and RecvRequest also stores the number of one node in the
\* entry of another, where it must never count as valid.
SeqNoBounded ==
    /\ \A n, d \in Node : rt[n][d].validSeqNo => rt[n][d].seqNo <= seqNo[d]
    /\ \A p \in InTransit : SeqNosOfPacket(p)

\* The search for d goes on: its timer runs, or the rate limiter has scheduled
\* another SendRequest.
Pursued(n, d) == addressReqTimer[n][d] \/ delayedRequest[n][d] > 0

\* An entry in search has a timer or a scheduled call that will end or repeat
\* the search: Purge() never removes such an entry, so that without one of them
\* it would block every later discovery of its destination
\* (DeferredRouteOutput sends no RREQ while the flag is IN_SEARCH).
NoStrandedSearch ==
    \A n, d \in Node : rt[n][d].flag = "IN_SEARCH" => Pursued(n, d)

\* A packet that waits for a route is waited for by a retry timer or a
\* scheduled SendRequest, also after RREPs that cancel the timer, hello
\* messages and RREP-ACKs that end the search without touching the queue, and
\* an interface that goes down: one of the two will send it or drop it.
NoStrandedPacket ==
    \A n \in Node : \A p \in queue[n] : Pursued(n, p.dst)

\* An entry that is not in search leads to another node, never to the default
\* address that SendRequest writes into a new entry: SendTo, Forwarding,
\* SendPacketFromQueue and the precursor lists take it unchecked.
RouteHasNextHop ==
    \A n, d \in Node :
        rt[n][d].flag \in {"VALID", "INVALID"} => rt[n][d].nextHop \in Node \ {n}

\* A route of one hop leads to its destination itself.  UpdateRouteToNeighbor
\* and SendReplyByIntermediateNode take a hop count of one for "neighbour".
OneHopIsDirect ==
    \A n, d \in Node :
        rt[n][d].flag \in {"VALID", "INVALID"} =>
            /\ rt[n][d].hop >= 1
            /\ rt[n][d].hop = 1 => rt[n][d].nextHop = d

\* While a route stays usable, with a known sequence number, the number never
\* goes back: no RREQ or RREP that was delayed or overtaken replaces a route by
\* older information.  Only when the destination itself is heard the number is
\* not compared: UpdateRouteToNeighbor forgets the number of a longer route, and
\* ProcessHello overwrites it, so that its RREPs and hello messages that come
\* late win over what others knew.
FreshRoutesStayFresh ==
    [][\A n, d \in Node :
         LET e == rt[n][d]
             new == rt'[n][d]
         IN  {e.flag, new.flag} = {"VALID"} /\ e.validSeqNo /\ new.validSeqNo
             => new.seqNo >= e.seqNo \/ new.nextHop = d]_vars

\* A node that suspects a neighbour of a wormhole takes no new route through it
\* to anybody else, whichever RREPs come late, again or from relays; the one
\* way in is a RREQ, which the detector does not look at: it makes a reverse
\* route to its originator.
SuspectsGainNoRoutes ==
    [][\A n, s, d \in Node :
         LET Via(t) == LookupValidRoute(t, d) /\ t[d].nextHop = s
         IN  s \in suspect[n] \ {d} /\ Via(rt'[n]) /\ ~Via(rt[n])
             => \E key \in rreqIdCache'[n] \ rreqIdCache[n] : key[1] = d]_vars

\* A suspicion that waits for the second probe is decided: the neighbour leaves
\* m_underVerification, confirmed or cleared.  (While it is there, no further
\* anomaly of it counts.)
VerificationDecided ==
    \A n, s \in Node : s \in underVerification[n] ~> s \notin underVerification[n]

\* The count of RREQs at the largest ring never passes RreqRetries.
\* RouteRequestTimerExpire compares the two with ==, so that a search that has
\* passed it would go on for ever.
RetriesBounded == \A n, d \in Node : rt[n][d].reqCount <= RreqRetries

\* The one way past that comparison: a search under way passes RreqRetries only
\* in a call of SendRequest that the rate limiter deferred, and only while the
\* retry timer of the same search runs.  No expiry of the timer, no fresh
\* request, no RREP to an earlier ring and no failure counts past it.
OverrunsAreDeferred ==
    [][\A n, d \in Node :
         /\ rt[n][d].flag = "IN_SEARCH"
         /\ rt[n][d].reqCount <= RreqRetries
         /\ rt'[n][d].reqCount > RreqRetries
         => addressReqTimer[n][d] /\ delayedRequest'[n][d] < delayedRequest[n][d]]_vars

\* A packet that waits for a route leaves the queue, sent or dropped, whatever is
\* lost and whatever goes down meanwhile, as long as no search overruns its
\* retries: with a single packet none does (see RetriesBounded).
QueueDrains ==
    \A p \in Packets :
        DataPacket(p) \in queue[p.src] ~> DataPacket(p) \notin queue[p.src]

\* In a network whose links and interfaces stay up and which loses no frame,
\* every packet reaches its destination: the expanding ring search reaches
\* it, the RREP finds its way back and the packets that wait are sent.
EventuallyDelivered ==
    \A p \in Packets : p \in sent ~> p.id \in delivered

-----------------------------------------------------------------------------
(* What comments of the code say and the code does not keep to.             *)

\* "maintain list of active neighbors": the neighbour table holds nodes.
\* Forwarding puts the default address of an unset routing table entry there.
NeighboursAreNodes == \A n \in Node : nb[n] \subseteq Node
=============================================================================
