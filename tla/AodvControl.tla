---------------------------- MODULE AodvControl -----------------------------
(***************************************************************************)
(* RecvAodv: the handlers of the control messages RREQ, RREP, RERR,        *)
(* RREP_ACK and RVERIFY, with the wormhole detector that sits in the       *)
(* handler of RREPs.                                                       *)
(***************************************************************************)
EXTENDS AodvForwarding

\* A control message of this type reaches RecvAodv.
Receives(f, type) ==
    /\ Arrives(f)
    /\ f.ip.dst \in {f.to, Bcast}
    /\ f.ip.body.type = type

\* UpdateRouteToNeighbor, which every control message causes.  A one-hop route
\* with a valid sequence number is kept as it is: the code sets the lifetime
\* of a copy that it does not write back.
UpdateRouteToNeighbor(t, sender) ==
    LET e == NewEntry(FALSE, 0, 1, sender)
        keep == t[sender].validSeqNo /\ t[sender].hop = 1
    IN  CASE ~Found(t, sender) -> AddRoute(t, sender, e)
          [] Found(t, sender) /\ keep -> t
          [] Found(t, sender) /\ ~keep -> Update(t, sender, e)

\* The table on which a handler of frame f works.
TableAfterRecvAodv(f) == UpdateRouteToNeighbor(rt[f.to], f.ip.src)

\* Mutant: the originator's sequence number is copied without a comparison.
ReverseRouteUncompared(t, r, src) ==
    LET e == NewEntry(TRUE, r.originSeqNo, r.hopCount + 1, src)
    IN  Update(AddRoute(t, r.origin, e), r.origin, e)

\* The reverse route to the originator of RREQ r, received from src.  The flag
\* of an entry that exists is left as it was.
ReverseRoute(t, r, src) ==
    LET e == t[r.origin]
        hop == r.hopCount + 1
        fresher == ~e.validSeqNo \/ Newer(r.originSeqNo, e.seqNo)
    IN  IF ~Found(t, r.origin)
        THEN AddRoute(t, r.origin, NewEntry(TRUE, r.originSeqNo, hop, src))
        ELSE Update(t, r.origin,
                    [e EXCEPT !.seqNo = IF fresher THEN r.originSeqNo ELSE @,
                              !.validSeqNo = TRUE, !.nextHop = src, !.hop = hop])

\* Mutant: the originator's sequence number counts as the neighbour's.
RouteToRequesterSeqNoValid(t, r, src) ==
    LET e == NewEntry(TRUE, r.originSeqNo, 1, src)
    IN  Update(AddRoute(t, src, e), src, e)

\* The route to the neighbour that r came from, afterwards; the sequence
\* number, which is the originator's, is marked as not valid.
RouteToRequester(t, r, src) ==
    IF ~Found(t, src)
    THEN AddRoute(t, src, NewEntry(FALSE, r.originSeqNo, 1, src))
    ELSE Update(t, src, [t[src] EXCEPT !.validSeqNo = FALSE, !.seqNo = r.originSeqNo,
                                       !.flag = "VALID", !.hop = 1, !.nextHop = src])

TableAfterRequest(f) ==
    LET r == f.ip.body
        src == f.ip.src
    IN  RouteToRequester(ReverseRoute(TableAfterRecvAodv(f), r, src), r, src)

RequestKey(r) == <<r.origin, r.id>>

RecvRequestDuplicate(f) ==
    LET n == f.to
    IN  /\ Receives(f, "RREQ")
        /\ RequestKey(f.ip.body) \in rreqIdCache[n]
        /\ rt' = [rt EXCEPT ![n] = TableAfterRecvAodv(f)]
        /\ nb' = [nb EXCEPT ![n] = RefreshedNeighbours(n, f.ip)]
        /\ net' = net \ {f}
        /\ UNCHANGED <<ownVars, queue, searchVars, rerrCount, up, helloVars, detectorVars,
                       worldVars, appVars>>

\* What RecvRequest does with every RREQ that is not a duplicate.
AcceptRequest(f) ==
    LET n == f.to
        r == f.ip.body
    IN  /\ Receives(f, "RREQ")
        /\ RequestKey(r) \notin rreqIdCache[n]
        /\ rreqIdCache' = [rreqIdCache EXCEPT ![n] = @ \cup {RequestKey(r)}]
        /\ nb' = [nb EXCEPT ![n] = RefreshedNeighbours(n, f.ip) \cup {f.ip.src}]
        /\ UNCHANGED <<requestId, rreqCount, queue, searchVars, rerrCount, up, helloTimer,
                       detectorVars, worldVars, appVars>>

\* The sequence number of the destination after SendReply.
SeqNoForReply(n, r) ==
    IF ~r.unknownSeqNo /\ r.dstSeqNo = seqNo[n] + 1 THEN seqNo[n] + 1 ELSE seqNo[n]

\* The node is the destination: SendReply.
RecvRequestAsDestination(f) ==
    LET n == f.to
        r == f.ip.body
        t == TableAfterRequest(f)
        s == SeqNoForReply(n, r)
    IN  /\ AcceptRequest(f)
        /\ r.dst = n
        /\ rt' = [rt EXCEPT ![n] = t]
        /\ seqNo' = [seqNo EXCEPT ![n] = s]
        /\ net' = (net \ {f}) \cup
                    SendTo(t, n, t[r.origin].nextHop, t[r.origin].hop,
                           NewRrep(n, s, r.origin, 0, FALSE))
        /\ UNCHANGED lastBcast

\* The route to the destination leads back to the sender of the RREQ.
RecvRequestLoop(f) ==
    LET n == f.to
        r == f.ip.body
        t == TableAfterRequest(f)
    IN  /\ AcceptRequest(f)
        /\ r.dst # n
        /\ Found(t, r.dst)
        /\ t[r.dst].nextHop = f.ip.src
        /\ rt' = [rt EXCEPT ![n] = t]
        /\ net' = net \ {f}
        /\ UNCHANGED <<seqNo, lastBcast>>

\* Is the node's information on the destination as recent as r asks for?
FreshEnough(t, r) ==
    /\ Found(t, r.dst)
    /\ t[r.dst].validSeqNo
    /\ r.unknownSeqNo \/ t[r.dst].seqNo >= r.dstSeqNo

MayReply(t, r) == FreshEnough(t, r) /\ ~DestinationOnly /\ t[r.dst].flag = "VALID"

\* SendReplyByIntermediateNode: the table, and the RREPs to the originator and,
\* if gratuitous, to the destination.
TableAfterReply(t, r) ==
    LET toDst == InsertPrecursor(t[r.dst], t[r.origin].nextHop)
        toOrigin == InsertPrecursor(t[r.origin], t[r.dst].nextHop)
    IN  Update(Update(t, r.dst, toDst), r.origin, toOrigin)

RepliesByIntermediateNode(n, t, r) ==
    LET after == TableAfterReply(t, r)
        toDst == t[r.dst]
        toOrigin == t[r.origin]
        rrep == NewRrep(r.dst, toDst.seqNo, r.origin, toDst.hop, toDst.hop = 1)
        gratRep == NewRrep(r.origin, toOrigin.seqNo, r.dst, toOrigin.hop, FALSE)
    IN  SendTo(after, n, toOrigin.nextHop, toOrigin.hop, rrep) \cup
        IF GratuitousReply THEN SendTo(after, n, toDst.nextHop, toDst.hop, gratRep) ELSE {}

RecvRequestAsIntermediate(f) ==
    LET n == f.to
        r == f.ip.body
        t == TableAfterRequest(f)
    IN  /\ AcceptRequest(f)
        /\ r.dst # n
        /\ t[r.dst].nextHop # f.ip.src
        /\ MayReply(t, r)
        /\ rt' = [rt EXCEPT ![n] = TableAfterReply(t, r)]
        /\ net' = (net \ {f}) \cup RepliesByIntermediateNode(n, t, r)
        /\ UNCHANGED <<seqNo, lastBcast>>

\* Mutant: the hop count is not increased.
RelayedRequestSameHop(t, r) ==
    [r EXCEPT !.dstSeqNo = IF FreshEnough(t, r) THEN t[r.dst].seqNo ELSE @,
              !.unknownSeqNo = ~FreshEnough(t, r) /\ @]

\* The RREQ that is passed on, with the node's own sequence number for the
\* destination if it is at least as recent.
RelayedRequest(t, r) ==
    LET fresh == FreshEnough(t, r)
    IN  [r EXCEPT !.hopCount = @ + 1,
                  !.dstSeqNo = IF fresh THEN t[r.dst].seqNo ELSE @,
                  !.unknownSeqNo = IF fresh THEN FALSE ELSE @]

RecvRequestRelay(f) ==
    LET n == f.to
        r == f.ip.body
        t == TableAfterRequest(f)
    IN  /\ AcceptRequest(f)
        /\ r.dst # n
        /\ ~(Found(t, r.dst) /\ t[r.dst].nextHop = f.ip.src)
        /\ ~MayReply(t, r)
        /\ rt' = [rt EXCEPT ![n] = t]
        /\ IF f.ip.ttl < 2
           THEN net' = net \ {f} /\ UNCHANGED lastBcast
           ELSE /\ net' = (net \ {f}) \cup Broadcast(n, f.ip.ttl - 1, RelayedRequest(t, r))
                /\ lastBcast' = [lastBcast EXCEPT ![n] = TRUE]
        /\ UNCHANGED seqNo

\* When RREP r, over hop hops, replaces the entry e of its destination.
FresherReply(e, r, hop) ==
    \/ ~e.validSeqNo
    \/ Newer(r.dstSeqNo, e.seqNo)
    \/ r.dstSeqNo = e.seqNo /\ (e.flag # "VALID" \/ hop < e.hop)

ReplyEntry(r, sender) == NewEntry(TRUE, r.dstSeqNo, r.hopCount + 1, sender)

\* AddRoute leaves an entry that is not replaced alone.
InstallReply(t, r, sender) ==
    IF Found(t, r.dst) /\ FresherReply(t[r.dst], r, r.hopCount + 1)
    THEN Update(t, r.dst, ReplyEntry(r, sender))
    ELSE AddRoute(t, r.dst, ReplyEntry(r, sender))

\* SendReplyAck, when the RREP asks for it.
SendReplyAck(t, n, r, sender) ==
    IF r.ackRequired THEN SendTo(t, n, sender, 1, [type |-> "RREP_ACK"]) ELSE {}

\* The RREP is not a hello message and passes the wormhole detector.
\* anomalous: the round trip took longer or shorter than the statistics of
\* the neighbour allow, which the model leaves open.
IsProbed(n, r) == EnableRttWormholeDetect /\ r.origin = n /\ r.dst \in rttProbe[n]

\* Mutant: suspects are noted and not looked up.
IsSuspectNever(n, a) == FALSE

IsSuspect(n, a) == EnableRttWormholeDetect /\ a \in suspect[n]

\* EvaluateRttProbe, when it lets the RREP pass: an anomaly only starts the
\* second probe of a neighbour that is not being verified already.
EvaluateRttProbe(n, r, sender, anomalous) ==
    LET verify == anomalous /\ sender \notin underVerification[n]
        Mark(S) == IF verify THEN [S EXCEPT ![n] = @ \cup {sender}] ELSE S
    IN  /\ anomalous => IsProbed(n, r) /\ EnableSecondProbeVerification
        /\ rttProbe' = IF IsProbed(n, r) THEN [rttProbe EXCEPT ![n] = @ \ {r.dst}] ELSE rttProbe
        /\ underVerification' = Mark(underVerification)
        /\ verificationProbe' = Mark(verificationProbe)
        /\ UNCHANGED suspect

\* SendVerificationTestPacket.
VerificationTestPacket(t, n, sender, anomalous) ==
    IF anomalous /\ sender \notin underVerification[n]
    THEN SendTo(t, n, sender, 1, NewRverify(FALSE))
    ELSE {}

\* RecvReply drops a RREP of a suspect, and one that is anomalous when there is
\* no second probe; the sender of such a RREP becomes a suspect.
RecvReplyRejected(f) ==
    LET n == f.to
        r == f.ip.body
        sender == f.ip.src
    IN  /\ Receives(f, "RREP")
        /\ r.dst # r.origin
        /\ \/ IsSuspect(n, sender) /\ UNCHANGED <<rttProbe, suspect>>
           \/ /\ ~IsSuspect(n, sender)
              /\ IsProbed(n, r)
              /\ ~EnableSecondProbeVerification
              /\ suspect' = [suspect EXCEPT ![n] = @ \cup {sender}]
              /\ rttProbe' = [rttProbe EXCEPT ![n] = @ \ {r.dst}]
        /\ rt' = [rt EXCEPT ![n] = TableAfterRecvAodv(f)]
        /\ nb' = [nb EXCEPT ![n] = RefreshedNeighbours(n, f.ip)]
        /\ net' = net \ {f}
        /\ UNCHANGED <<ownVars, queue, searchVars, rerrCount, up, helloVars, underVerification,
                       verificationProbe, worldVars, appVars>>

\* What RecvReply does with every RREP that passes the detector.
AcceptReply(f, anomalous) ==
    LET n == f.to
        r == f.ip.body
    IN  /\ Receives(f, "RREP")
        /\ r.dst # r.origin
        /\ ~IsSuspect(n, f.ip.src)
        /\ EvaluateRttProbe(n, r, f.ip.src, anomalous)
        /\ nb' = [nb EXCEPT ![n] = RefreshedNeighbours(n, f.ip)]
        /\ UNCHANGED <<ownVars, delayedRequest, rerrCount, up, helloVars, worldVars, appVars>>

RepliesToSender(f, anomalous) ==
    LET t == TableAfterRecvAodv(f)
        n == f.to
        r == f.ip.body
    IN  VerificationTestPacket(t, n, f.ip.src, anomalous) \cup
        SendReplyAck(InstallReply(t, r, f.ip.src), n, r, f.ip.src)

\* The node asked for the route.  A search under way takes whatever route the
\* RREP brings, and its timer is cancelled; packets that wait are sent.
RecvReplyAtOrigin(f, anomalous) ==
    LET n == f.to
        r == f.ip.body
        t == TableAfterRecvAodv(f)
        searching == t[r.dst].flag = "IN_SEARCH"
        after == IF searching THEN Update(t, r.dst, ReplyEntry(r, f.ip.src))
                              ELSE InstallReply(t, r, f.ip.src)
    IN  /\ AcceptReply(f, anomalous)
        /\ r.origin = n
        /\ rt' = [rt EXCEPT ![n] = after]
        /\ addressReqTimer' = IF searching THEN [addressReqTimer EXCEPT ![n][r.dst] = FALSE]
                                           ELSE addressReqTimer
        /\ net' = (net \ {f}) \cup RepliesToSender(f, anomalous)
                    \cup SendPacketFromQueue(n, r.dst, after[r.dst].nextHop)
        /\ queue' = DropPacketWithDst(n, r.dst)

\* "Impossible! drop.": there is no route back to the originator.
NoWayBack(t, r) == t[r.origin].flag \in {"NONE", "IN_SEARCH"}

RecvReplyImpossible(f) ==
    LET n == f.to
        r == f.ip.body
        t == InstallReply(TableAfterRecvAodv(f), r, f.ip.src)
    IN  /\ AcceptReply(f, FALSE)
        /\ r.origin # n
        /\ NoWayBack(t, r)
        /\ rt' = [rt EXCEPT ![n] = t]
        /\ net' = (net \ {f}) \cup RepliesToSender(f, FALSE)
        /\ UNCHANGED <<addressReqTimer, queue>>

\* The precursors noted when a RREP is passed on: four updates in a row, the
\* third of which writes back a copy made before the first.
TableAfterRelay(t, r) ==
    LET toDst == t[r.dst]
        toOrigin == t[r.origin]
        AddPrecursor(u, d, a) == Update(u, d, InsertPrecursor(u[d], a))
        t1 == AddPrecursor(t, r.dst, toOrigin.nextHop)
        t2 == AddPrecursor(t1, toDst.nextHop, toOrigin.nextHop)
        t3 == Update(t2, r.origin, InsertPrecursor(toOrigin, toDst.nextHop))
    IN  IF LookupValidRoute(t, r.dst) THEN AddPrecursor(t3, toOrigin.nextHop, toDst.nextHop) ELSE t

RecvReplyRelay(f) ==
    LET n == f.to
        r == f.ip.body
        t == InstallReply(TableAfterRecvAodv(f), r, f.ip.src)
        after == TableAfterRelay(t, r)
        relayed == [r EXCEPT !.hopCount = @ + 1, !.ackRequired = FALSE]
    IN  /\ AcceptReply(f, FALSE)
        /\ r.origin # n
        /\ ~NoWayBack(t, r)
        /\ rt' = [rt EXCEPT ![n] = after]
        /\ net' = (net \ {f}) \cup RepliesToSender(f, FALSE) \cup
                    IF f.ip.ttl < 2 THEN {}
                    ELSE SendTo(after, n, t[r.origin].nextHop, f.ip.ttl - 1, relayed)
        /\ UNCHANGED <<addressReqTimer, queue>>

\* ProcessHello.
HelloEntry(e, r) ==
    [e EXCEPT !.seqNo = r.dstSeqNo, !.validSeqNo = TRUE, !.flag = "VALID",
              !.hop = 1, !.nextHop = r.dst]

ProcessHello(f) ==
    LET n == f.to
        r == f.ip.body
        t == TableAfterRecvAodv(f)
    IN  /\ Receives(f, "RREP")
        /\ r.dst = r.origin
        /\ rt' = [rt EXCEPT ![n] = IF Found(t, r.dst)
                                   THEN Update(t, r.dst, HelloEntry(t[r.dst], r))
                                   ELSE AddRoute(t, r.dst, NewEntry(TRUE, r.dstSeqNo, 1, r.dst))]
        /\ nb' = [nb EXCEPT ![n] = RefreshedNeighbours(n, f.ip) \cup
                                   (IF EnableHello THEN {r.dst} ELSE {})]
        /\ net' = net \ {f}
        /\ UNCHANGED <<ownVars, queue, searchVars, rerrCount, up, helloVars, detectorVars,
                       worldVars, appVars>>

RecvReplyAck(f) ==
    LET n == f.to
        sender == f.ip.src
        t == TableAfterRecvAodv(f)
    IN  /\ Receives(f, "RREP_ACK")
        /\ rt' = [rt EXCEPT ![n] = Update(t, sender, [t[sender] EXCEPT !.flag = "VALID"])]
        /\ nb' = [nb EXCEPT ![n] = RefreshedNeighbours(n, f.ip)]
        /\ net' = net \ {f}
        /\ UNCHANGED <<ownVars, queue, searchVars, rerrCount, up, helloVars, detectorVars,
                       worldVars, appVars>>

\* Only destinations that the node reaches through the sender are concerned.
RecvError(f) ==
    LET n == f.to
        t == TableAfterRecvAodv(f)
        unreachable == f.ip.body.unreachable \cap GetListOfDestinationWithNextHop(t, f.ip.src)
    IN  /\ Receives(f, "RERR")
        /\ ReportUnreachable(n, t, unreachable, net \ {f})
        /\ nb' = [nb EXCEPT ![n] = RefreshedNeighbours(n, f.ip)]
        /\ UNCHANGED <<ownVars, queue, searchVars, up, helloVars, detectorVars,
                       worldVars, appVars>>

\* A verification probe is answered, unless this node has no second probe.
RecvVerificationProbe(f) ==
    LET n == f.to
        t == TableAfterRecvAodv(f)
    IN  /\ Receives(f, "RVERIFY")
        /\ ~f.ip.body.response
        /\ rt' = [rt EXCEPT ![n] = t]
        /\ nb' = [nb EXCEPT ![n] = RefreshedNeighbours(n, f.ip)]
        /\ net' = (net \ {f}) \cup
                    IF EnableSecondProbeVerification
                    THEN SendTo(t, n, f.ip.src, f.ip.ttl, NewRverify(TRUE)) ELSE {}
        /\ UNCHANGED <<ownVars, queue, searchVars, rerrCount, up, helloVars, detectorVars,
                       worldVars, appVars>>

\* EvaluateVerificationProbe: an answer that nobody waits for is ignored, an
\* anomalous one makes its sender a suspect.
RecvVerificationResponse(f, anomalous) ==
    LET n == f.to
        sender == f.ip.src
        expected == /\ EnableSecondProbeVerification
                    /\ sender \in underVerification[n] \cap verificationProbe[n]
        Unmark(S) == IF expected THEN [S EXCEPT ![n] = @ \ {sender}] ELSE S
    IN  /\ Receives(f, "RVERIFY")
        /\ f.ip.body.response
        /\ anomalous => expected
        /\ underVerification' = Unmark(underVerification)
        /\ verificationProbe' = Unmark(verificationProbe)
        /\ suspect' = IF anomalous THEN [suspect EXCEPT ![n] = @ \cup {sender}] ELSE suspect
        /\ rt' = [rt EXCEPT ![n] = TableAfterRecvAodv(f)]
        /\ nb' = [nb EXCEPT ![n] = RefreshedNeighbours(n, f.ip)]
        /\ net' = net \ {f}
        /\ UNCHANGED <<ownVars, queue, searchVars, rerrCount, up, helloVars, rttProbe,
                       worldVars, appVars>>

\* The handlers of control messages.
RecvAodv(f) ==
    \/ RecvRequestDuplicate(f)
    \/ RecvRequestAsDestination(f)
    \/ RecvRequestLoop(f)
    \/ RecvRequestAsIntermediate(f)
    \/ RecvRequestRelay(f)
    \/ RecvReplyRejected(f)
    \/ \E anomalous \in BOOLEAN : RecvReplyAtOrigin(f, anomalous)
    \/ RecvReplyImpossible(f)
    \/ RecvReplyRelay(f)
    \/ ProcessHello(f)
    \/ RecvReplyAck(f)
    \/ RecvError(f)
    \/ RecvVerificationProbe(f)
    \/ \E anomalous \in BOOLEAN : RecvVerificationResponse(f, anomalous)
=============================================================================
