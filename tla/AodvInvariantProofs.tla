------------------------ MODULE AodvInvariantProofs -------------------------
(***************************************************************************)
(* TypeOK, RouteHasNextHop, OneHopIsDirect and SeqNoBounded are invariants  *)
(* of Spec for every network and every choice of the parameters.           *)
(*                                                                         *)
(* None of them is inductive.  The inductive invariant IInv says of every  *)
(* table, frame and queue what the handlers rely on when they copy next    *)
(* hops, hop counts and sequence numbers from one to the other.            *)
(***************************************************************************)
EXTENDS AodvRoutingProtocol, AodvTableProofs

\* The messages that src may have sent when the sequence numbers are s.
GoodBody(src, s) ==
    {b \in Body : /\ b.type = "RREQ" => b \in GoodRreq(src, s)
                  /\ b.type = "RREP" => b \in GoodRrep(src, s)}

GoodIp(s) == {p \in IpPacket : p.body \in GoodBody(p.src, s)}

\* Packets that may wait for a route at node n.
GoodWaiting(n, s) == {p \in GoodIp(s) : p.dst \in Node \ {n}}

GoodFrame(s) ==
    {f \in [from : Node, to : Node, ip : GoodIp(s)] :
        f.from = f.to => f.ip \in GoodWaiting(f.from, s)}

\* The types of the other variables.  No node searches for itself.
OtherOK ==
    /\ nb \in [Node -> SUBSET Addr]
    /\ seqNo \in SeqNos
    /\ requestId \in [Node -> Nat]
    /\ rreqIdCache \in [Node -> SUBSET (Node \X Nat)]
    /\ addressReqTimer \in [Node -> [Node -> BOOLEAN]]
    /\ delayedRequest \in [Node -> [Node -> Nat]]
    /\ rreqCount \in [Node -> Nat]
    /\ rerrCount \in [Node -> Nat]
    /\ up \in [Node -> BOOLEAN]
    /\ helloTimer \in [Node -> BOOLEAN]
    /\ lastBcast \in [Node -> BOOLEAN]
    /\ rttProbe \in [Node -> SUBSET Node]
    /\ underVerification \in [Node -> SUBSET Node]
    /\ verificationProbe \in [Node -> SUBSET Node]
    /\ suspect \in [Node -> SUBSET Node]
    /\ links \subseteq SUBSET Node
    /\ sent \subseteq Packets
    /\ delivered \subseteq Nat
    /\ events \in Nat
    /\ \A n \in Node : ~addressReqTimer[n][n] /\ delayedRequest[n][n] = 0

TablesOK == rt \in [Node -> Table] /\ \A n \in Node : rt[n] \in GoodTable(n, seqNo)

NetOK == net \subseteq GoodFrame(seqNo)

QueuesOK == queue \in [Node -> SUBSET IpPacket] /\ \A n \in Node : queue[n] \subseteq GoodWaiting(n, seqNo)

IInv == OtherOK /\ TablesOK /\ NetOK /\ QueuesOK

-----------------------------------------------------------------------------
(* Messages and frames.                                                     *)

\* The type of a message says to which of the sets of messages it belongs.
LEMMA BodyKinds ==
    ASSUME NEW b \in Body
    PROVE  /\ b.type = "RREQ" => b \in Rreq
           /\ b.type = "RREP" => b \in Rrep
           /\ b.type = "RERR" => b \in Rerr
           /\ b.type = "DATA" => b \in Data
BY DEF Body, Rreq, Rrep, Rerr, RrepAck, Rverify, Data

\* Messages other than RREQ and RREP promise nothing.
LEMMA PlainBodiesGood ==
    ASSUME NEW s \in SeqNos, NEW n \in Node
    PROVE  Rerr \cup RrepAck \cup Rverify \cup Data \subseteq GoodBody(n, s)
BY DEF GoodBody, Body, Rerr, RrepAck, Rverify, Data

\* A RREP that n makes or passes on.
LEMMA NewRrepGood ==
    ASSUME NEW s \in SeqNos, NEW n \in Node, NEW d \in Node, NEW o \in Node, NEW q \in Nat,
           NEW k \in Nat, NEW a \in BOOLEAN, q <= s[d], k = 0 \/ d = o => n = d
    PROVE  NewRrep(d, q, o, k, a) \in GoodBody(n, s)
<1>1. NewRrep(d, q, o, k, a) \in Rrep
  BY DEF NewRrep, Rrep
<1>2. NewRrep(d, q, o, k, a) \in GoodRrep(n, s)
  BY <1>1 DEF NewRrep, GoodRrep
<1>3. QED
  BY <1>1, <1>2 DEF GoodBody, Body, Rrep

\* A RREQ that n makes or passes on.
LEMMA GoodRreqGood ==
    ASSUME NEW s \in SeqNos, NEW n \in Node, NEW r \in GoodRreq(n, s)
    PROVE  r \in GoodBody(n, s)
BY DEF GoodBody, GoodRreq, Body, Rreq

\* Messages stay good when sequence numbers grow.
LEMMA GoodFrameMonotonic ==
    ASSUME NEW s \in SeqNos, NEW r \in SeqNos, \A d \in Node : s[d] <= r[d]
    PROVE  /\ GoodIp(s) \subseteq GoodIp(r)
           /\ GoodFrame(s) \subseteq GoodFrame(r)
           /\ \A n \in Node : GoodWaiting(n, s) \subseteq GoodWaiting(n, r)
<1>1. \A d \in Node : s[d] \in Nat /\ r[d] \in Nat
  BY DEF SeqNos
<1>2. \A src : GoodRreq(src, s) \subseteq GoodRreq(src, r)
  BY <1>1 DEF GoodRreq, Rreq
<1>3. \A src : GoodRrep(src, s) \subseteq GoodRrep(src, r)
  BY <1>1 DEF GoodRrep, Rrep
<1>4. \A src : GoodBody(src, s) \subseteq GoodBody(src, r)
  BY <1>2, <1>3 DEF GoodBody
<1>5. GoodIp(s) \subseteq GoodIp(r)
  BY <1>4 DEF GoodIp
<1>6. QED
  BY <1>5 DEF GoodFrame, GoodWaiting

\* A packet that n sends to another node.
LEMMA TransmitGood ==
    ASSUME NEW s \in SeqNos, NEW n \in Node, NEW m \in Node \ {n}, NEW p \in GoodIp(s)
    PROVE  Transmit(n, m, p) \in GoodFrame(s)
BY DEF Transmit, GoodFrame

\* A good body, a source and a destination make a good IP packet.
LEMMA IpGood ==
    ASSUME NEW s \in SeqNos, NEW n \in Node, NEW d \in Node \cup {Bcast}, NEW k \in Nat,
           NEW b \in GoodBody(n, s)
    PROVE  Ip(n, d, k, b) \in GoodIp(s)
BY DEF Ip, GoodIp, IpPacket, GoodBody

\* What SendTo puts on the network is good when the table is.
LEMMA SendToGood ==
    ASSUME NEW s \in SeqNos, NEW n \in Node, NEW t \in GoodTable(n, s), NEW h \in Node \ {n},
           NEW k \in Nat, NEW b \in GoodBody(n, s)
    PROVE  SendTo(t, n, h, k, b) \subseteq GoodFrame(s)
<1>1. Ip(n, h, k, b) \in GoodIp(s)
  BY IpGood
<1>2. Ip(n, h, k, b) \in GoodWaiting(n, s)
  BY <1>1 DEF GoodWaiting, Ip
<1>3. Transmit(n, n, Ip(n, h, k, b)) \in GoodFrame(s)
  BY <1>1, <1>2 DEF GoodFrame, Transmit
<1>4. LookupValidRoute(t, h) => t[h].nextHop \in Node \ {n}
  BY DEF LookupValidRoute, GoodTable, GoodEntry
<1>5. QED
  BY <1>1, <1>3, <1>4, TransmitGood DEF SendTo

\* What is broadcast is good when its body is.
LEMMA BroadcastGood ==
    ASSUME NEW s \in SeqNos, NEW n \in Node, NEW k \in Nat, NEW b \in GoodBody(n, s)
    PROVE  Broadcast(n, k, b) \subseteq GoodFrame(s)
<1>1. Ip(n, Bcast, k, b) \in GoodIp(s)
  BY IpGood
<1>2. QED
  BY <1>1, TransmitGood DEF Broadcast

-----------------------------------------------------------------------------
(* How a step preserves the parts of the invariant.                         *)

\* Sequence numbers never decrease.
Growing == seqNo' \in SeqNos /\ \A d \in Node : seqNo[d] <= seqNo'[d]

\* Sequence numbers that do not change do not decrease.
LEMMA UnchangedGrowing ==
    ASSUME OtherOK, UNCHANGED seqNo
    PROVE  Growing
BY DEF OtherOK, Growing, SeqNos

\* A step that replaces the table of one node by a good one.
LEMMA TablesStep ==
    ASSUME IInv, Growing, NEW n \in Node, NEW t \in GoodTable(n, seqNo'),
           rt' = [rt EXCEPT ![n] = t]
    PROVE  TablesOK'
<1>1. \A m \in Node : rt[m] \in GoodTable(m, seqNo')
  BY GoodTableMonotonic DEF IInv, OtherOK, TablesOK, Growing
<1>2. rt \in [Node -> Table] /\ t \in Table
  BY DEF IInv, TablesOK, GoodTable
<1>3. QED
  BY <1>1, <1>2 DEF TablesOK

\* A step that changes no table.
LEMMA TablesStutter ==
    ASSUME IInv, Growing, UNCHANGED rt
    PROVE  TablesOK'
BY GoodTableMonotonic DEF IInv, OtherOK, TablesOK, Growing

\* A step that takes frames from the network and puts good ones on it.
LEMMA NetStep ==
    ASSUME IInv, Growing, net' \subseteq net \cup GoodFrame(seqNo')
    PROVE  NetOK'
BY GoodFrameMonotonic DEF IInv, OtherOK, NetOK, Growing

\* A step that changes no queue.
LEMMA QueuesStutter ==
    ASSUME IInv, Growing, UNCHANGED queue
    PROVE  QueuesOK'
BY GoodFrameMonotonic DEF IInv, OtherOK, QueuesOK, Growing

\* A step that changes the queue of one node.
LEMMA QueuesStep ==
    ASSUME IInv, Growing, NEW n \in Node, NEW q,
           q \subseteq queue[n] \cup GoodWaiting(n, seqNo'),
           queue' = [queue EXCEPT ![n] = q]
    PROVE  QueuesOK'
<1>1. \A m \in Node : queue[m] \subseteq GoodWaiting(m, seqNo')
  BY GoodFrameMonotonic DEF IInv, OtherOK, QueuesOK, Growing
<1>2. GoodWaiting(n, seqNo') \subseteq IpPacket
  BY DEF GoodWaiting, GoodIp
<1>3. queue \in [Node -> SUBSET IpPacket] /\ q \subseteq IpPacket
  BY <1>1, <1>2 DEF IInv, QueuesOK
<1>4. QED
  BY <1>1, <1>3 DEF QueuesOK

\* What is known of a node and of a frame on the network.
LEMMA NodeFacts ==
    ASSUME IInv, NEW n \in Node
    PROVE  /\ seqNo \in SeqNos
           /\ seqNo[n] \in Nat
           /\ rt[n] \in GoodTable(n, seqNo)
           /\ rt[n] \in [Node -> Entry]
           /\ \A d \in Node : rt[n][d] \in GoodEntry(n, d, seqNo)
           /\ queue[n] \subseteq GoodWaiting(n, seqNo)
           /\ nb[n] \subseteq Addr
BY DEF IInv, OtherOK, TablesOK, QueuesOK, SeqNos, GoodTable, Table

\* What is known of a frame on the network.
LEMMA FrameFacts ==
    ASSUME IInv, NEW f \in net
    PROVE  /\ f \in GoodFrame(seqNo)
           /\ f.from \in Node /\ f.to \in Node
           /\ f.ip \in GoodIp(seqNo)
           /\ f.ip.src \in Node
           /\ f.ip.dst \in Node \cup {Bcast}
           /\ f.ip.ttl \in Nat
           /\ f.ip.body \in GoodBody(f.ip.src, seqNo)
           /\ f.from = f.to => f.ip \in GoodWaiting(f.to, seqNo)
BY DEF IInv, NetOK, GoodFrame, GoodIp, IpPacket

-----------------------------------------------------------------------------
(* Route discovery.                                                         *)

\* The RREQ of a search, and the number it carries.
LEMMA NewRreqGood ==
    ASSUME IInv, NEW n \in Node, NEW d \in Node \ {n}, NEW s \in SeqNos,
           s = [seqNo EXCEPT ![n] = @ + 1]
    PROVE  NewRreq(n, d) \in GoodBody(n, s)
<1>1. rt[n][d] \in GoodEntry(n, d, seqNo) /\ seqNo[n] \in Nat /\ requestId[n] \in Nat
  BY NodeFacts DEF IInv, OtherOK
<1>2. rt[n][d].validSeqNo \in BOOLEAN /\ rt[n][d].seqNo \in Nat
  BY <1>1 DEF GoodEntry, Entry
<1>3. s[n] = seqNo[n] + 1 /\ s[d] = seqNo[d]
  BY DEF IInv, OtherOK, SeqNos
<1>4. NewRreq(n, d) \in Rreq
  BY <1>1, <1>2 DEF NewRreq, Rreq
<1>5. rt[n][d].validSeqNo => rt[n][d].seqNo <= seqNo[d]
  BY <1>1 DEF GoodEntry
<1>6. NewRreq(n, d) \in GoodRreq(n, s)
  <2>1. /\ NewRreq(n, d).origin = n /\ NewRreq(n, d).dst = d
        /\ NewRreq(n, d).originSeqNo = s[n]
        /\ NewRreq(n, d).unknownSeqNo = ~rt[n][d].validSeqNo
        /\ NewRreq(n, d).dstSeqNo = IF rt[n][d].validSeqNo THEN rt[n][d].seqNo ELSE 0
    BY <1>3 DEF NewRreq
  <2>2. ~NewRreq(n, d).unknownSeqNo => NewRreq(n, d).dstSeqNo <= s[d]
    BY <1>2, <1>3, <1>5, <2>1
  <2>3. s[n] <= s[n]
    BY DEF SeqNos
  <2>4. QED
    BY <1>4, <2>1, <2>2, <2>3 DEF GoodRreq
<1>7. QED
  BY <1>6, GoodRreqGood

\* SendRequest, called with good timers and a subset of the frames.
LEMMA SendRequestStep ==
    ASSUME IInv, NEW n \in Node, NEW d \in Node \ {n}, NEW timer, NEW delayed, NEW frames,
           SendRequest(n, d, timer, delayed, frames),
           timer \in [Node -> [Node -> BOOLEAN]],
           delayed \in [Node -> [Node -> Nat]],
           \A m \in Node : ~timer[m][m] /\ delayed[m][m] = 0,
           frames \subseteq net,
           UNCHANGED <<nb, rerrCount, up, helloTimer, underVerification, verificationProbe,
                       suspect, worldVars, appVars>>
    PROVE  Growing /\ OtherOK' /\ TablesOK' /\ NetOK'
<1>1. CASE DeferRequest(n, d, delayed) /\ addressReqTimer' = timer /\ net' = frames
  <2>1. OtherOK' /\ UNCHANGED <<rt, seqNo>>
    <3>1. delayed[n][d] + 1 \in Nat
      OBVIOUS
    <3>2. /\ delayedRequest' \in [Node -> [Node -> Nat]]
          /\ \A m \in Node : delayedRequest'[m][m] = 0
      BY <1>1, <3>1 DEF DeferRequest
    <3>3. QED
      BY <1>1, <3>2 DEF DeferRequest, IInv, OtherOK, worldVars, appVars
  <2>2. Growing
    BY <2>1, UnchangedGrowing DEF IInv
  <2>3. QED
    BY <1>1, <2>1, <2>2, TablesStutter, NetStep
<1>2. CASE ~DeferRequest(n, d, delayed)
  <2> DEFINE t == [rt[n] EXCEPT ![d] = SearchEntry(@)]
  <2>0. rt[n] \in GoodTable(n, seqNo) /\ rt[n][d] \in GoodEntry(n, d, seqNo)
    BY NodeFacts
  <2>1. /\ rreqCount' = [rreqCount EXCEPT ![n] = @ + 1]
        /\ rt' = [rt EXCEPT ![n][d] = SearchEntry(@)]
        /\ seqNo' = [seqNo EXCEPT ![n] = @ + 1]
        /\ requestId' = [requestId EXCEPT ![n] = @ + 1]
        /\ addressReqTimer' = ScheduleRreqRetry(timer, n, d)
        /\ delayedRequest' = delayed
    BY <1>2 DEF SendRequest
  <2>2. /\ \/ UNCHANGED rreqIdCache
           \/ rreqIdCache' = [rreqIdCache EXCEPT ![n] = @ \cup {<<n, requestId[n] + 1>>}]
        /\ UNCHANGED rttProbe \/ rttProbe' = [rttProbe EXCEPT ![n] = @ \cup {d}]
        /\ UNCHANGED lastBcast \/ lastBcast' = [lastBcast EXCEPT ![n] = TRUE]
        /\ net' \in {frames, frames \cup Broadcast(n, NextRing(rt[n][d]), NewRreq(n, d))}
    BY <1>2 DEF SendRequest
  <2>3. seqNo' \in SeqNos /\ Growing
    BY <2>1 DEF IInv, OtherOK, SeqNos, Growing
  <2>4. OtherOK'
    <3>1. /\ addressReqTimer' \in [Node -> [Node -> BOOLEAN]]
          /\ \A m \in Node : ~addressReqTimer'[m][m]
      BY <2>1 DEF ScheduleRreqRetry
    <3>2. rreqIdCache' \in [Node -> SUBSET (Node \X Nat)]
      <4>1. rreqIdCache \in [Node -> SUBSET (Node \X Nat)] /\ requestId[n] + 1 \in Nat
        BY DEF IInv, OtherOK
      <4>2. QED
        BY <2>2, <4>1
    <3>3. /\ rttProbe' \in [Node -> SUBSET Node]
          /\ lastBcast' \in [Node -> BOOLEAN]
      <4>1. /\ rttProbe \in [Node -> SUBSET Node]
            /\ lastBcast \in [Node -> BOOLEAN]
        BY DEF IInv, OtherOK
      <4>2. rttProbe' \in [Node -> SUBSET Node]
        BY <2>2, <4>1
      <4>3. lastBcast' \in [Node -> BOOLEAN]
        BY <2>2, <4>1
      <4>4. QED
        BY <4>2, <4>3
    <3>4. /\ rreqCount' \in [Node -> Nat]
          /\ requestId' \in [Node -> Nat]
      BY <2>1 DEF IInv, OtherOK
    <3>5. QED
      BY <2>1, <2>3, <3>1, <3>2, <3>3, <3>4 DEF IInv, OtherOK, worldVars, appVars
  <2>5. t \in GoodTable(n, seqNo') /\ rt' = [rt EXCEPT ![n] = t]
    <3>1. t \in GoodTable(n, seqNo)
      BY <2>0, SearchEntryGood, PutGood DEF IInv, OtherOK
    <3>2. t \in GoodTable(n, seqNo')
      BY <2>3, <3>1, GoodTableMonotonic DEF IInv, OtherOK, Growing
    <3>3. QED
      BY <2>1, <3>2
  <2> HIDE DEF t
  <2>6. TablesOK'
    BY <2>3, <2>5, TablesStep
  <2>7. net' \subseteq net \cup GoodFrame(seqNo')
    <3>1. NextRing(rt[n][d]) \in Nat
      BY <2>0, ParameterAssumption DEF NextRing, GoodEntry, Entry
    <3>2. NewRreq(n, d) \in GoodBody(n, seqNo')
      BY <2>1, <2>3, NewRreqGood
    <3>3. Broadcast(n, NextRing(rt[n][d]), NewRreq(n, d)) \subseteq GoodFrame(seqNo')
      BY <2>3, <3>1, <3>2, BroadcastGood
    <3>4. QED
      BY <2>2, <3>3
  <2>8. QED
    BY <2>3, <2>4, <2>6, <2>7, NetStep
<1>3. QED
  BY <1>1, <1>2 DEF SendRequest, DeferRequest

\* The deferred call of SendRequest.
LEMMA DelayedSendRequestStep ==
    ASSUME IInv, NEW n \in Node, NEW d \in Node, DelayedSendRequest(n, d)
    PROVE  IInv'
<1> DEFINE delayed == [delayedRequest EXCEPT ![n][d] = @ - 1]
<1>1. d # n /\ delayedRequest[n][d] - 1 \in Nat
  BY DEF DelayedSendRequest, IInv, OtherOK
<1>2. /\ delayed \in [Node -> [Node -> Nat]]
      /\ \A m \in Node : delayed[m][m] = 0
  BY <1>1 DEF IInv, OtherOK
<1>3. /\ SendRequest(n, d, addressReqTimer, delayed, net)
      /\ UNCHANGED <<nb, rerrCount, up, helloTimer, underVerification, verificationProbe,
                     suspect, worldVars, appVars>>
      /\ UNCHANGED queue
  BY DEF DelayedSendRequest, worldVars, appVars
<1> HIDE DEF delayed
<1>4. /\ addressReqTimer \in [Node -> [Node -> BOOLEAN]]
      /\ \A m \in Node : ~addressReqTimer[m][m]
  BY DEF IInv, OtherOK
<1>5. Growing /\ OtherOK' /\ TablesOK' /\ NetOK'
  BY <1>1, <1>2, <1>3, <1>4, SendRequestStep
<1>6. QED
  BY <1>3, <1>5, QueuesStutter DEF IInv

\* The packets that wait for a route to d are good to send over a next hop.
LEMMA SendPacketFromQueueGood ==
    ASSUME IInv, NEW n \in Node, NEW d, NEW h \in Node \ {n}
    PROVE  SendPacketFromQueue(n, d, h) \subseteq GoodFrame(seqNo)
BY NodeFacts, TransmitGood DEF SendPacketFromQueue, Waiting, GoodWaiting

\* The retry timer, whatever it finds.
LEMMA RouteRequestTimerExpireStep ==
    ASSUME IInv, NEW n \in Node, NEW d \in Node, RouteRequestTimerExpire(n, d)
    PROVE  IInv'
<1> DEFINE timer == [addressReqTimer EXCEPT ![n][d] = FALSE]
<1>1. d # n
  BY DEF RouteRequestTimerExpire, IInv, OtherOK
<1>2. /\ timer \in [Node -> [Node -> BOOLEAN]]
      /\ \A m \in Node : ~timer[m][m]
  BY DEF IInv, OtherOK
<1>3. CASE RequestTimerRouteValid(n, d)
  <2>1. OtherOK' /\ UNCHANGED <<rt, seqNo>>
    BY <1>2, <1>3 DEF RequestTimerRouteValid, IInv, OtherOK, ownVars, helloVars, detectorVars,
                      worldVars, appVars
  <2>2. Growing
    BY <2>1, UnchangedGrowing DEF IInv
  <2>3. rt[n][d].nextHop \in Node \ {n}
    BY <1>3, NodeFacts DEF RequestTimerRouteValid, LookupValidRoute, GoodEntry
  <2>4. net' \subseteq net \cup GoodFrame(seqNo')
    BY <1>3, <2>1, <2>3, SendPacketFromQueueGood DEF RequestTimerRouteValid
  <2>5. QueuesOK'
    BY <1>3, <2>2, QueuesStep DEF RequestTimerRouteValid, DropPacketWithDst
  <2>6. QED
    BY <2>1, <2>2, <2>4, <2>5, TablesStutter, NetStep DEF IInv
<1>4. CASE RequestTimerGiveUp(n, d)
  <2>1. OtherOK' /\ UNCHANGED <<seqNo, net>>
    BY <1>2, <1>4 DEF RequestTimerGiveUp, IInv, OtherOK, ownVars, helloVars, detectorVars,
                      worldVars, appVars
  <2>2. Growing
    BY <2>1, UnchangedGrowing DEF IInv
  <2>3. DeleteRoute(rt[n], d) \in GoodTable(n, seqNo')
    BY <2>1, NodeFacts, PutGood
  <2>4. rt' = [rt EXCEPT ![n] = DeleteRoute(rt[n], d)]
    BY <1>4 DEF RequestTimerGiveUp
  <2>5. QueuesOK'
    BY <1>4, <2>2, QueuesStep DEF RequestTimerGiveUp, DropPacketWithDst
  <2>6. QED
    BY <2>1, <2>2, <2>3, <2>4, <2>5, TablesStep, NetStep DEF IInv
<1>5. CASE RequestTimerRetry(n, d)
  <2>1. /\ SendRequest(n, d, timer, delayedRequest, net)
        /\ UNCHANGED <<nb, rerrCount, up, helloTimer, underVerification, verificationProbe,
                       suspect, worldVars, appVars>>
        /\ UNCHANGED queue
    BY <1>5 DEF RequestTimerRetry, worldVars, appVars
  <2> HIDE DEF timer
  <2>2. /\ delayedRequest \in [Node -> [Node -> Nat]]
        /\ \A m \in Node : delayedRequest[m][m] = 0
    BY DEF IInv, OtherOK
  <2>3. Growing /\ OtherOK' /\ TablesOK' /\ NetOK'
    BY <1>1, <1>2, <2>1, <2>2, SendRequestStep
  <2>4. QED
    BY <2>1, <2>3, QueuesStutter DEF IInv
<1>6. QED
  BY <1>3, <1>4, <1>5 DEF RouteRequestTimerExpire

-----------------------------------------------------------------------------
(* IP packets.                                                              *)

\* An application sends a packet.
LEMMA RouteOutputStep ==
    ASSUME IInv, NEW p \in Packets, RouteOutput(p)
    PROVE  IInv'
<1>1. OtherOK' /\ UNCHANGED <<rt, seqNo, queue>>
  BY DEF RouteOutput, IInv, OtherOK, ownVars, searchVars, helloVars, detectorVars, worldVars
<1>2. Growing
  BY <1>1, UnchangedGrowing DEF IInv
<1>3. p.src \in Node /\ p.dst \in Node \ {p.src} /\ DataTtl \in Nat
  BY PacketsAssumption, ParameterAssumption
<1>4. DataPacket(p).body \in GoodBody(p.src, seqNo)
  <2>1. DataPacket(p).body \in Data
    BY PacketsAssumption DEF DataPacket, Ip, Data
  <2>2. QED
    BY <1>3, <2>1, PlainBodiesGood, NodeFacts
<1>5. SendTo(rt[p.src], p.src, p.dst, DataTtl, DataPacket(p).body) \subseteq GoodFrame(seqNo)
  BY <1>3, <1>4, NodeFacts, SendToGood
<1>6. net' \subseteq net \cup GoodFrame(seqNo')
  BY <1>1, <1>5 DEF RouteOutput
<1>7. QED
  BY <1>1, <1>2, <1>6, TablesStutter, NetStep, QueuesStutter DEF IInv

\* Enqueue adds nothing but the packet.
LEMMA EnqueueAdds ==
    ASSUME NEW q, NEW p, NEW new \in Enqueue(q, p)
    PROVE  new \subseteq q \cup {p}
BY DEF Enqueue

\* A packet that waits at its node comes from the loopback device.
LEMMA LoopbackFacts ==
    ASSUME IInv, NEW f \in net, FromLoopback(f)
    PROVE  /\ f.to \in Node
           /\ f.ip \in GoodWaiting(f.to, seqNo)
           /\ f.ip.dst \in Node \ {f.to}
BY FrameFacts DEF FromLoopback, IsLoopback, GoodWaiting

\* The two outcomes of DeferredRouteOutput.
LEMMA DeferredRouteOutputStep ==
    ASSUME IInv, NEW f \in net,
           \/ DeferredRouteOutputWait(f)
           \/ DeferredRouteOutputSearch(f)
    PROVE  IInv'
<1>1. /\ f.to \in Node
      /\ f.ip \in GoodWaiting(f.to, seqNo)
      /\ f.ip.dst \in Node \ {f.to}
  BY LoopbackFacts DEF DeferredRouteOutputWait, DeferredRouteOutputSearch
<1>2. CASE DeferredRouteOutputWait(f)
  <2>1. OtherOK' /\ UNCHANGED <<rt, seqNo>> /\ net' \subseteq net
    BY <1>2 DEF DeferredRouteOutputWait, IInv, OtherOK, ownVars, searchVars, helloVars,
                detectorVars, worldVars, appVars
  <2>2. Growing
    BY <2>1, UnchangedGrowing DEF IInv
  <2>3. PICK q \in Enqueue(queue[f.to], f.ip) : queue' = [queue EXCEPT ![f.to] = q]
    BY <1>2 DEF DeferredRouteOutputWait
  <2>4. q \subseteq queue[f.to] \cup GoodWaiting(f.to, seqNo')
    BY <1>1, <2>1, EnqueueAdds
  <2>5. QueuesOK'
    BY <1>1, <2>2, <2>3, <2>4, QueuesStep
  <2>6. QED
    BY <2>1, <2>2, <2>5, TablesStutter, NetStep DEF IInv
<1>3. CASE DeferredRouteOutputSearch(f)
  <2>1. /\ SendRequest(f.to, f.ip.dst, addressReqTimer, delayedRequest, net \ {f})
        /\ UNCHANGED <<nb, rerrCount, up, helloTimer, underVerification, verificationProbe,
                       suspect, worldVars, appVars>>
    BY <1>3 DEF DeferredRouteOutputSearch
  <2>2. /\ addressReqTimer \in [Node -> [Node -> BOOLEAN]]
        /\ delayedRequest \in [Node -> [Node -> Nat]]
        /\ \A m \in Node : ~addressReqTimer[m][m] /\ delayedRequest[m][m] = 0
    BY DEF IInv, OtherOK
  <2>3. Growing /\ OtherOK' /\ TablesOK' /\ NetOK'
    BY <1>1, <2>1, <2>2, SendRequestStep
  <2>4. PICK q \in Enqueue(queue[f.to], f.ip) : queue' = [queue EXCEPT ![f.to] = q]
    BY <1>3 DEF DeferredRouteOutputSearch
  <2>5. q \subseteq queue[f.to] \cup GoodWaiting(f.to, seqNo')
    <3>1. f.ip \in GoodWaiting(f.to, seqNo')
      BY <1>1, <2>3, GoodFrameMonotonic DEF Growing, IInv, OtherOK
    <3>2. QED
      BY <3>1, EnqueueAdds
  <2>6. QueuesOK'
    BY <1>1, <2>3, <2>4, <2>5, QueuesStep
  <2>7. QED
    BY <2>3, <2>6 DEF IInv
<1>4. QED
  BY <1>2, <1>3

\* The neighbours that a received packet refreshes.
LEMMA RefreshedNeighboursType ==
    ASSUME IInv, NEW f \in net
    PROVE  RefreshedNeighbours(f.to, f.ip) \subseteq Addr
<1>1. f.to \in Node /\ f.ip.src \in Node
  BY FrameFacts
<1>2. nb[f.to] \subseteq Addr /\ rt[f.to][f.ip.src].nextHop \in Addr
  BY <1>1, NodeFacts DEF GoodEntry, Entry
<1>3. QED
  BY <1>2 DEF RefreshedNeighbours

\* A RERR of n, sent to another node or to everybody, is good.
LEMMA RerrGood ==
    ASSUME NEW s \in SeqNos, NEW n \in Node, NEW t \in GoodTable(n, s), NEW D \in SUBSET Node
    PROVE  /\ \A h \in Node \ {n} : SendTo(t, n, h, 1, NewRerr(D)) \subseteq GoodFrame(s)
           /\ Broadcast(n, 1, NewRerr(D)) \subseteq GoodFrame(s)
<1>1. NewRerr(D) \in GoodBody(n, s)
  BY PlainBodiesGood DEF NewRerr, Rerr
<1>2. QED
  BY <1>1, SendToGood, BroadcastGood

\* Local delivery, forwarding and drops of data packets.
LEMMA DataStep ==
    ASSUME IInv, NEW f \in net,
           \/ RouteInputDrop(f) \/ LocalDeliver(f) \/ ForwardPacket(f) \/ ForwardWithoutRoute(f)
    PROVE  IInv'
<1> DEFINE n == f.to
<1>0. /\ n \in Node /\ f.ip.src \in Node /\ f.ip \in GoodIp(seqNo)
      /\ f.ip.body \in Body /\ f.ip.ttl \in Nat
      /\ rt[n] \in GoodTable(n, seqNo)
      /\ seqNo \in SeqNos
      /\ \A d \in Node : rt[n][d] \in GoodEntry(n, d, seqNo) /\ rt[n][d].nextHop \in Addr
  BY FrameFacts, NodeFacts DEF GoodBody, GoodEntry, Entry
<1>1. CASE RouteInputDrop(f)
  <2>1. OtherOK' /\ UNCHANGED <<rt, seqNo, queue>> /\ net' \subseteq net
    BY <1>1 DEF RouteInputDrop, IInv, OtherOK, ownVars, searchVars, helloVars, detectorVars,
                worldVars, appVars
  <2>2. Growing
    BY <2>1, UnchangedGrowing DEF IInv
  <2>3. QED
    BY <2>1, <2>2, TablesStutter, NetStep, QueuesStutter DEF IInv
<1>2. CASE LocalDeliver(f)
  <2>1. f.ip.body.id \in Nat
    BY <1>0, <1>2, BodyKinds DEF LocalDeliver, Data
  <2>2. nb' \in [Node -> SUBSET Addr]
    BY <1>0, <1>2, RefreshedNeighboursType DEF LocalDeliver, IInv, OtherOK
  <2>3. delivered' \subseteq Nat
    BY <1>2, <2>1 DEF LocalDeliver, IInv, OtherOK
  <2>4. OtherOK' /\ UNCHANGED <<rt, seqNo, queue>> /\ net' \subseteq net
    BY <1>2, <2>2, <2>3 DEF LocalDeliver, IInv, OtherOK, ownVars, searchVars, helloVars,
                detectorVars, worldVars
  <2>5. Growing
    BY <2>4, UnchangedGrowing DEF IInv
  <2>6. QED
    BY <2>4, <2>5, TablesStutter, NetStep, QueuesStutter DEF IInv
<1>3. CASE ForwardPacket(f)
  <2> DEFINE h == rt[n][f.ip.dst].nextHop
             p == [f.ip EXCEPT !.ttl = @ - 1]
  <2>1. f.ip.dst \in Node /\ h \in Node \ {n}
    BY <1>0, <1>3 DEF ForwardPacket, LookupValidRoute, GoodEntry
  <2>2. nb' \in [Node -> SUBSET Addr]
    <3>1. {h, rt[n][f.ip.src].nextHop} \subseteq Addr
      BY <1>0, <2>1 DEF Addr
    <3>2. nb' = [nb EXCEPT ![n] = @ \cup {h, rt[n][f.ip.src].nextHop}]
      BY <1>3 DEF ForwardPacket
    <3> HIDE DEF h
    <3>3. QED
      BY <1>0, <3>1, <3>2 DEF IInv, OtherOK
  <2>3. OtherOK' /\ UNCHANGED <<rt, seqNo, queue>>
    BY <1>3, <2>2 DEF ForwardPacket, IInv, OtherOK, ownVars, searchVars, helloVars,
                detectorVars, worldVars, appVars
  <2>4. Growing
    BY <2>3, UnchangedGrowing DEF IInv
  <2>5. f.ip.ttl > 1 => p \in GoodIp(seqNo)
    BY <1>0 DEF GoodIp, IpPacket
  <2>6. f.ip.ttl > 1 => Transmit(n, h, p) \in GoodFrame(seqNo)
    BY <1>0, <2>1, <2>5, TransmitGood
  <2>7. net' \subseteq net \cup GoodFrame(seqNo')
    BY <1>3, <2>3, <2>6 DEF ForwardPacket
  <2>8. QED
    BY <2>3, <2>4, <2>7, TablesStutter, NetStep, QueuesStutter DEF IInv
<1>4. CASE ForwardWithoutRoute(f)
  <2>1. OtherOK' /\ UNCHANGED <<rt, seqNo, queue>>
    BY <1>4 DEF ForwardWithoutRoute, IInv, OtherOK, ownVars, searchVars, helloVars,
                detectorVars, worldVars, appVars
  <2>2. Growing
    BY <2>1, UnchangedGrowing DEF IInv
  <2>3. f.ip.dst \in Node
    BY <1>4 DEF ForwardWithoutRoute
  <2>4. LookupValidRoute(rt[n], f.ip.src) => rt[n][f.ip.src].nextHop \in Node \ {n}
    BY <1>0 DEF LookupValidRoute, GoodEntry
  <2>5. SendRerrWhenNoRouteToForward(n, f.ip.dst, f.ip.src) \subseteq GoodFrame(seqNo)
    BY <1>0, <2>3, <2>4, RerrGood DEF SendRerrWhenNoRouteToForward
  <2>6. net' \subseteq net \cup GoodFrame(seqNo')
    BY <1>4, <2>1, <2>5 DEF ForwardWithoutRoute
  <2>7. QED
    BY <2>1, <2>2, <2>6, TablesStutter, NetStep, QueuesStutter DEF IInv
<1>5. QED
  BY <1>1, <1>2, <1>3, <1>4

\* What remains of a table when destinations become unreachable, and the RERR
\* that tells their precursors.
LEMMA ReportUnreachableStep ==
    ASSUME IInv, NEW n \in Node, NEW t \in GoodTable(n, seqNo), NEW D \in SUBSET Node,
           NEW frames, frames \subseteq net, UNCHANGED seqNo, ReportUnreachable(n, t, D, frames)
    PROVE  TablesOK' /\ NetOK' /\ rerrCount' \in [Node -> Nat]
<1> DEFINE after == InvalidateRoutesWithDst(t, D)
           P == PrecursorsOf(t, D)
<1>1. seqNo \in SeqNos /\ Growing
  BY UnchangedGrowing DEF IInv, OtherOK
<1>2. after \in GoodTable(n, seqNo)
  BY <1>1, InvalidateRoutesGood
<1>3. P \subseteq Node \ {n}
  BY DEF PrecursorsOf, GoodTable, GoodEntry, Entry
<1>4. /\ rt' = [rt EXCEPT ![n] = after]
      /\ rerrCount' = CountRerr(n, t, P)
      /\ net' = frames \cup SendRerrMessage(n, t, after, D, P)
  BY DEF ReportUnreachable
<1> HIDE DEF after, P
<1>5. SendRerrMessage(n, t, after, D, P) \subseteq GoodFrame(seqNo)
  BY <1>1, <1>2, <1>3, RerrGood DEF SendRerrMessage
<1>6. rerrCount' \in [Node -> Nat]
  BY <1>4 DEF CountRerr, IInv, OtherOK
<1>7. QED
  BY <1>1, <1>2, <1>4, <1>5, <1>6, TablesStep, NetStep

-----------------------------------------------------------------------------
(* Control messages.                                                        *)

\* What every handler of a control message finds.
LEMMA ReceiveFacts ==
    ASSUME IInv, NEW f \in net, NEW type, Receives(f, type)
    PROVE  /\ f.to \in Node
           /\ f.ip.src \in Node \ {f.to}
           /\ f.ip.ttl \in Nat
           /\ f.ip.body \in GoodBody(f.ip.src, seqNo)
           /\ f.ip.body \in Body
           /\ f.ip.body.type = type
           /\ seqNo \in SeqNos
           /\ TableAfterRecvAodv(f) \in GoodTable(f.to, seqNo)
           /\ RefreshedNeighbours(f.to, f.ip) \subseteq Addr
<1>1. /\ f.to \in Node
      /\ f.ip.src \in Node \ {f.to}
      /\ f.ip.ttl \in Nat
      /\ f.ip.body \in GoodBody(f.ip.src, seqNo)
      /\ f.ip.body \in Body
      /\ f.ip.body.type = type
      /\ seqNo \in SeqNos
      /\ rt[f.to] \in GoodTable(f.to, seqNo)
  BY FrameFacts, NodeFacts DEF Receives, Arrives, GoodBody
<1>2. QED
  BY <1>1, NeighbourTableGood, RefreshedNeighboursType DEF TableAfterRecvAodv

\* What the handler of a RREQ works on.
LEMMA RequestFacts ==
    ASSUME IInv, NEW f \in net, Receives(f, "RREQ")
    PROVE  /\ f.ip.body \in GoodRreq(f.ip.src, seqNo)
           /\ f.ip.body \in Rreq
           /\ TableAfterRequest(f) \in GoodTable(f.to, seqNo)
           /\ TableAfterRequest(f)[f.ip.body.origin].nextHop \in Node \ {f.to}
           /\ TableAfterRequest(f)[f.ip.body.origin].hop \in Nat \ {0}
           /\ TableAfterRequest(f)[f.ip.body.origin].seqNo <= seqNo[f.ip.body.origin]
<1>1. f.ip.body \in GoodRreq(f.ip.src, seqNo) /\ f.ip.body \in Rreq
  BY ReceiveFacts DEF GoodBody, GoodRreq
<1>2. TableAfterRequest(f) = RouteToRequester(ReverseRoute(TableAfterRecvAodv(f), f.ip.body, f.ip.src),
                                              f.ip.body, f.ip.src)
  BY DEF TableAfterRequest
<1>3. QED
  BY <1>1, <1>2, ReceiveFacts, RequestTableGood

\* The other variables after a RREQ.
LEMMA AcceptRequestStep ==
    ASSUME IInv, NEW f \in net, AcceptRequest(f), seqNo' \in SeqNos,
           UNCHANGED lastBcast \/ lastBcast' = [lastBcast EXCEPT ![f.to] = TRUE]
    PROVE  OtherOK' /\ UNCHANGED queue
<1>1. /\ f.to \in Node /\ f.ip.src \in Addr
      /\ RefreshedNeighbours(f.to, f.ip) \subseteq Addr
      /\ f.ip.body \in Rreq
  BY ReceiveFacts, RequestFacts DEF AcceptRequest, Addr
<1>2. nb' \in [Node -> SUBSET Addr]
  <2>1. nb \in [Node -> SUBSET Addr]
    BY DEF IInv, OtherOK
  <2>2. QED
    BY <1>1, <2>1 DEF AcceptRequest
<1>3. rreqIdCache' \in [Node -> SUBSET (Node \X Nat)]
  <2>1. rreqIdCache \in [Node -> SUBSET (Node \X Nat)]
    BY DEF IInv, OtherOK
  <2>2. RequestKey(f.ip.body) \in Node \X Nat
    BY <1>1 DEF RequestKey, Rreq
  <2>3. QED
    BY <1>1, <2>1, <2>2 DEF AcceptRequest
<1>4. lastBcast' \in [Node -> BOOLEAN]
  <2>1. lastBcast \in [Node -> BOOLEAN]
    BY DEF IInv, OtherOK
  <2>2. QED
    BY <1>1, <2>1
<1>5. QED
  BY <1>2, <1>3, <1>4 DEF AcceptRequest, IInv, OtherOK, searchVars, detectorVars, worldVars, appVars

\* A RREQ seen before.
LEMMA RecvRequestDuplicateStep ==
    ASSUME IInv, NEW f \in net, RecvRequestDuplicate(f)
    PROVE  IInv'
<1>1. /\ f.to \in Node
      /\ TableAfterRecvAodv(f) \in GoodTable(f.to, seqNo)
      /\ RefreshedNeighbours(f.to, f.ip) \subseteq Addr
  BY ReceiveFacts DEF RecvRequestDuplicate
<1>2. OtherOK' /\ UNCHANGED <<seqNo, queue>> /\ net' \subseteq net
  BY <1>1 DEF RecvRequestDuplicate, IInv, OtherOK, ownVars, searchVars, helloVars, detectorVars,
              worldVars, appVars
<1>3. Growing
  BY <1>2, UnchangedGrowing DEF IInv
<1>4. TablesOK'
  BY <1>1, <1>2, <1>3, TablesStep DEF RecvRequestDuplicate
<1>5. QED
  BY <1>2, <1>3, <1>4, NetStep, QueuesStutter DEF IInv

\* A RREQ for this node, and the RREP to it.
LEMMA RecvRequestAsDestinationStep ==
    ASSUME IInv, NEW f \in net, RecvRequestAsDestination(f)
    PROVE  IInv'
<1> DEFINE n == f.to
           r == f.ip.body
           t == TableAfterRequest(f)
           s == SeqNoForReply(n, r)
           b == NewRrep(n, s, r.origin, 0, FALSE)
<1>1. /\ n \in Node /\ r \in Rreq /\ r \in GoodRreq(f.ip.src, seqNo)
      /\ t \in GoodTable(n, seqNo)
      /\ t[r.origin].nextHop \in Node \ {n}
      /\ t[r.origin].hop \in Nat
      /\ seqNo \in SeqNos /\ seqNo[n] \in Nat
  BY ReceiveFacts, RequestFacts, NodeFacts DEF RecvRequestAsDestination, AcceptRequest
<1>2. /\ seqNo' = [seqNo EXCEPT ![n] = s]
      /\ rt' = [rt EXCEPT ![n] = t]
      /\ net' = (net \ {f}) \cup SendTo(t, n, t[r.origin].nextHop, t[r.origin].hop, b)
      /\ AcceptRequest(f) /\ UNCHANGED lastBcast /\ r.dst = n
  BY DEF RecvRequestAsDestination
<1>3. s \in Nat /\ seqNo[n] <= s
  BY <1>1 DEF SeqNoForReply
<1> HIDE DEF s
<1>4. Growing /\ seqNo' \in SeqNos /\ seqNo'[n] = s
  BY <1>1, <1>2, <1>3 DEF Growing, SeqNos
<1>5. OtherOK' /\ UNCHANGED queue
  BY <1>2, <1>4, AcceptRequestStep
<1> HIDE DEF t
<1>6. t \in GoodTable(n, seqNo')
  BY <1>1, <1>4, GoodTableMonotonic DEF Growing
<1>7. b \in GoodBody(n, seqNo')
  <2>1. r.origin \in Node /\ r.origin # n
    BY <1>1, <1>2 DEF GoodRreq, Rreq
  <2>2. s <= seqNo'[n]
    BY <1>3, <1>4
  <2>3. QED
    BY <1>1, <1>3, <1>4, <2>1, <2>2, NewRrepGood
<1> HIDE DEF b
<1>8. net' \subseteq net \cup GoodFrame(seqNo')
  <2>1. SendTo(t, n, t[r.origin].nextHop, t[r.origin].hop, b) \subseteq GoodFrame(seqNo')
    BY <1>1, <1>4, <1>6, <1>7, SendToGood
  <2>2. QED
    BY <1>2, <2>1
<1>9. QED
  BY <1>1, <1>2, <1>4, <1>5, <1>6, <1>8, TablesStep, NetStep, QueuesStutter DEF IInv

\* A RREQ whose destination is reached through its sender.
LEMMA RecvRequestLoopStep ==
    ASSUME IInv, NEW f \in net, RecvRequestLoop(f)
    PROVE  IInv'
<1>1. /\ f.to \in Node /\ seqNo \in SeqNos
      /\ TableAfterRequest(f) \in GoodTable(f.to, seqNo)
  BY ReceiveFacts, RequestFacts DEF RecvRequestLoop, AcceptRequest
<1>2. /\ AcceptRequest(f) /\ UNCHANGED <<seqNo, lastBcast>> /\ net' \subseteq net
      /\ rt' = [rt EXCEPT ![f.to] = TableAfterRequest(f)]
  BY DEF RecvRequestLoop
<1>3. OtherOK' /\ UNCHANGED queue
  BY <1>1, <1>2, AcceptRequestStep
<1>4. Growing
  BY <1>2, UnchangedGrowing DEF IInv
<1>5. TablesOK'
  BY <1>1, <1>2, <1>4, TablesStep
<1>6. QED
  BY <1>2, <1>3, <1>4, <1>5, NetStep, QueuesStutter DEF IInv

\* The RREPs of an intermediate node with a fresh route.
LEMMA RecvRequestAsIntermediateStep ==
    ASSUME IInv, NEW f \in net, RecvRequestAsIntermediate(f)
    PROVE  IInv'
<1> DEFINE n == f.to
           r == f.ip.body
           t == TableAfterRequest(f)
           after == TableAfterReply(t, r)
           rrep == NewRrep(r.dst, t[r.dst].seqNo, r.origin, t[r.dst].hop, t[r.dst].hop = 1)
           gratRep == NewRrep(r.origin, t[r.origin].seqNo, r.dst, t[r.origin].hop, FALSE)
<1>1. /\ n \in Node /\ r \in Rreq /\ r \in GoodRreq(f.ip.src, seqNo)
      /\ t \in GoodTable(n, seqNo)
      /\ t[r.origin].nextHop \in Node \ {n}
      /\ t[r.origin].hop \in Nat \ {0}
      /\ t[r.origin].seqNo <= seqNo[r.origin]
      /\ seqNo \in SeqNos
  BY ReceiveFacts, RequestFacts DEF RecvRequestAsIntermediate, AcceptRequest
<1>2. /\ AcceptRequest(f) /\ UNCHANGED <<seqNo, lastBcast>> /\ MayReply(t, r)
      /\ rt' = [rt EXCEPT ![n] = after]
      /\ net' = (net \ {f}) \cup RepliesByIntermediateNode(n, t, r)
  BY DEF RecvRequestAsIntermediate
<1>3. OtherOK' /\ UNCHANGED queue
  BY <1>1, <1>2, AcceptRequestStep
<1>4. Growing
  BY <1>2, UnchangedGrowing DEF IInv
<1> HIDE DEF t
<1>5. r.dst \in Node /\ r.origin \in Node /\ r.origin # r.dst
  BY <1>1 DEF GoodRreq, Rreq
<1>6. t[r.dst] \in GoodEntry(n, r.dst, seqNo) /\ t[r.origin] \in GoodEntry(n, r.origin, seqNo)
  BY <1>1, <1>5, GoodEntryOfTable
<1>7. /\ t[r.dst].nextHop \in Node \ {n}
      /\ t[r.dst].hop \in Nat \ {0}
      /\ t[r.dst].seqNo \in Nat
      /\ t[r.dst].seqNo <= seqNo[r.dst]
      /\ t[r.origin].seqNo \in Nat
  <2>1. t[r.dst].flag = "VALID" /\ t[r.dst].validSeqNo
    BY <1>2 DEF MayReply, FreshEnough
  <2>2. QED
    BY <1>6, <2>1 DEF GoodEntry, Entry
<1>8. after \in GoodTable(n, seqNo)
  BY <1>1, <1>7, ReplyTableGood
<1>9. TablesOK'
  BY <1>1, <1>2, <1>4, <1>8, TablesStep
<1> HIDE DEF after
<1>10. rrep \in GoodBody(n, seqNo) /\ gratRep \in GoodBody(n, seqNo)
  <2>1. rrep \in GoodBody(n, seqNo)
    <3>1. (t[r.dst].hop = 1) \in BOOLEAN /\ ~(t[r.dst].hop = 0)
      BY <1>7
    <3>2. QED
      BY <1>1, <1>5, <1>7, <3>1, NewRrepGood
  <2>2. gratRep \in GoodBody(n, seqNo)
    BY <1>1, <1>5, <1>7, NewRrepGood
  <2>3. QED
    BY <2>1, <2>2
<1>11. RepliesByIntermediateNode(n, t, r) =
        SendTo(after, n, t[r.origin].nextHop, t[r.origin].hop, rrep) \cup
        IF GratuitousReply THEN SendTo(after, n, t[r.dst].nextHop, t[r.dst].hop, gratRep) ELSE {}
  BY DEF RepliesByIntermediateNode, after
<1> HIDE DEF rrep, gratRep
<1>12. RepliesByIntermediateNode(n, t, r) \subseteq GoodFrame(seqNo)
  <2>1. SendTo(after, n, t[r.origin].nextHop, t[r.origin].hop, rrep) \subseteq GoodFrame(seqNo)
    BY <1>1, <1>8, <1>10, SendToGood
  <2>2. SendTo(after, n, t[r.dst].nextHop, t[r.dst].hop, gratRep) \subseteq GoodFrame(seqNo)
    BY <1>1, <1>7, <1>8, <1>10, SendToGood
  <2>3. QED
    BY <1>11, <2>1, <2>2
<1>13. QED
  BY <1>2, <1>3, <1>4, <1>9, <1>12, NetStep, QueuesStutter DEF IInv

\* A RREQ one hop further, with a number for its destination that is not ahead.
LEMMA OneHopFurtherGood ==
    ASSUME NEW s \in SeqNos, NEW src, NEW r \in GoodRreq(src, s), NEW n \in Node,
           NEW q \in Nat, NEW u \in BOOLEAN, ~u => q <= s[r.dst]
    PROVE  [r EXCEPT !.hopCount = @ + 1, !.dstSeqNo = q, !.unknownSeqNo = u] \in GoodRreq(n, s)
<1> DEFINE b == [r EXCEPT !.hopCount = @ + 1, !.dstSeqNo = q, !.unknownSeqNo = u]
<1>1. r \in Rreq /\ r.hopCount \in Nat
  BY DEF GoodRreq, Rreq
<1>2. b \in Rreq
  <2>1. \A x \in Rreq : \A k \in Nat : [x EXCEPT !.hopCount = k] \in Rreq
    BY DEF Rreq
  <2>2. \A x \in Rreq : [x EXCEPT !.dstSeqNo = q] \in Rreq
    BY DEF Rreq
  <2>3. \A x \in Rreq : [x EXCEPT !.unknownSeqNo = u] \in Rreq
    BY DEF Rreq
  <2>4. b = [[[r EXCEPT !.hopCount = r.hopCount + 1] EXCEPT !.dstSeqNo = q] EXCEPT !.unknownSeqNo = u]
    BY <1>1 DEF Rreq
  <2>5. r.hopCount + 1 \in Nat
    BY <1>1
  <2>6. QED
    BY <1>1, <2>1, <2>2, <2>3, <2>4, <2>5
<1>3. /\ b.origin = r.origin /\ b.dst = r.dst /\ b.originSeqNo = r.originSeqNo
      /\ b.hopCount = r.hopCount + 1 /\ b.dstSeqNo = q /\ b.unknownSeqNo = u
  BY <1>1 DEF Rreq
<1> HIDE DEF b
<1>4. b.hopCount # 0
  BY <1>1, <1>3
<1>5. b \in GoodRreq(n, s)
  BY <1>2, <1>3, <1>4 DEF GoodRreq
<1>6. QED
  BY <1>5 DEF b

\* A RREQ that is passed on.
LEMMA RecvRequestRelayStep ==
    ASSUME IInv, NEW f \in net, RecvRequestRelay(f)
    PROVE  IInv'
<1> DEFINE n == f.to
           r == f.ip.body
           t == TableAfterRequest(f)
           b == RelayedRequest(t, r)
<1>1. /\ n \in Node /\ r \in Rreq /\ r \in GoodRreq(f.ip.src, seqNo)
      /\ t \in GoodTable(n, seqNo)
      /\ seqNo \in SeqNos /\ f.ip.ttl \in Nat
  BY ReceiveFacts, RequestFacts DEF RecvRequestRelay, AcceptRequest
<1>2. /\ AcceptRequest(f) /\ UNCHANGED seqNo
      /\ rt' = [rt EXCEPT ![n] = t]
      /\ UNCHANGED lastBcast \/ lastBcast' = [lastBcast EXCEPT ![n] = TRUE]
      /\ \/ net' = net \ {f}
         \/ ~(f.ip.ttl < 2) /\ net' = (net \ {f}) \cup Broadcast(n, f.ip.ttl - 1, b)
  BY DEF RecvRequestRelay
<1>3. OtherOK' /\ UNCHANGED queue
  BY <1>1, <1>2, AcceptRequestStep
<1>4. Growing
  BY <1>2, UnchangedGrowing DEF IInv
<1>5. TablesOK'
  BY <1>1, <1>2, <1>4, TablesStep
<1> HIDE DEF t
<1>6. b \in GoodBody(n, seqNo)
  <2>1. /\ r.dst \in Node /\ r.dstSeqNo \in Nat /\ r.hopCount \in Nat
        /\ r.unknownSeqNo \in BOOLEAN /\ r.origin # r.dst
        /\ r.originSeqNo <= seqNo[r.origin]
        /\ ~r.unknownSeqNo => r.dstSeqNo <= seqNo[r.dst]
    BY <1>1 DEF GoodRreq, Rreq
  <2>2. /\ t[r.dst].seqNo \in Nat
        /\ FreshEnough(t, r) => t[r.dst].seqNo <= seqNo[r.dst]
    BY <1>1, <2>1, GoodEntryOfTable DEF FreshEnough, GoodEntry, Entry
  <2> DEFINE q == IF FreshEnough(t, r) THEN t[r.dst].seqNo ELSE r.dstSeqNo
             u == IF FreshEnough(t, r) THEN FALSE ELSE r.unknownSeqNo
  <2>3. q \in Nat /\ u \in BOOLEAN /\ (~u => q <= seqNo[r.dst])
    BY <2>1, <2>2
  <2>4. b = [r EXCEPT !.hopCount = @ + 1, !.dstSeqNo = q, !.unknownSeqNo = u]
    BY DEF RelayedRequest
  <2> HIDE DEF q, u, b
  <2>5. b \in GoodRreq(n, seqNo)
    BY <1>1, <2>3, <2>4, OneHopFurtherGood
  <2>6. QED
    BY <1>1, <2>5, GoodRreqGood
<1> HIDE DEF b
<1>7. net' \subseteq net \cup GoodFrame(seqNo')
  <2>1. ~(f.ip.ttl < 2) => f.ip.ttl - 1 \in Nat
    BY <1>1
  <2>2. ~(f.ip.ttl < 2) => Broadcast(n, f.ip.ttl - 1, b) \subseteq GoodFrame(seqNo)
    BY <1>1, <1>6, <2>1, BroadcastGood
  <2>3. QED
    BY <1>2, <2>2
<1>8. QED
  BY <1>2, <1>3, <1>4, <1>5, <1>7, NetStep, QueuesStutter DEF IInv

\* What the handler of a RREP works on.
LEMMA ReplyFacts ==
    ASSUME IInv, NEW f \in net, Receives(f, "RREP")
    PROVE  /\ f.ip.body \in GoodRrep(f.ip.src, seqNo)
           /\ f.ip.body \in Rrep
           /\ f.ip.body.dst \in Node /\ f.ip.body.origin \in Node
           /\ InstallReply(TableAfterRecvAodv(f), f.ip.body, f.ip.src) \in GoodTable(f.to, seqNo)
           /\ InstallReply(TableAfterRecvAodv(f), f.ip.body, f.ip.src)[f.ip.body.dst].nextHop
                 \in Node \ {f.to}
<1>1. f.ip.body \in GoodRrep(f.ip.src, seqNo) /\ f.ip.body \in Rrep
  BY ReceiveFacts DEF GoodBody, GoodRrep
<1>2. QED
  BY <1>1, ReceiveFacts, InstallReplyGood DEF Rrep

\* A RREP that the wormhole detector rejects.
LEMMA RecvReplyRejectedStep ==
    ASSUME IInv, NEW f \in net, RecvReplyRejected(f)
    PROVE  IInv'
<1>1. /\ f.to \in Node /\ f.ip.src \in Node
      /\ TableAfterRecvAodv(f) \in GoodTable(f.to, seqNo)
      /\ RefreshedNeighbours(f.to, f.ip) \subseteq Addr
  BY ReceiveFacts DEF RecvReplyRejected
<1>2. suspect' \in [Node -> SUBSET Node] /\ rttProbe' \in [Node -> SUBSET Node]
  <2>1. suspect \in [Node -> SUBSET Node] /\ rttProbe \in [Node -> SUBSET Node]
    BY DEF IInv, OtherOK
  <2>2. QED
    BY <1>1, <2>1 DEF RecvReplyRejected
<1>3. OtherOK' /\ UNCHANGED <<seqNo, queue>> /\ net' \subseteq net
  BY <1>1, <1>2 DEF RecvReplyRejected, IInv, OtherOK, ownVars, searchVars, helloVars,
                    worldVars, appVars
<1>4. Growing
  BY <1>3, UnchangedGrowing DEF IInv
<1>5. TablesOK'
  BY <1>1, <1>3, <1>4, TablesStep DEF RecvReplyRejected
<1>6. QED
  BY <1>3, <1>4, <1>5, NetStep, QueuesStutter DEF IInv

\* The other variables after a RREP that passes the detector.
LEMMA AcceptReplyStep ==
    ASSUME IInv, NEW f \in net, NEW anomalous \in BOOLEAN, AcceptReply(f, anomalous),
           addressReqTimer' \in [Node -> [Node -> BOOLEAN]],
           \A m \in Node : ~addressReqTimer'[m][m]
    PROVE  OtherOK' /\ UNCHANGED seqNo
<1>1. /\ f.to \in Node /\ f.ip.src \in Node
      /\ RefreshedNeighbours(f.to, f.ip) \subseteq Addr
  BY ReceiveFacts DEF AcceptReply
<1>2. EvaluateRttProbe(f.to, f.ip.body, f.ip.src, anomalous)
  BY DEF AcceptReply
<1>3. /\ rttProbe' \in [Node -> SUBSET Node]
      /\ underVerification' \in [Node -> SUBSET Node]
      /\ verificationProbe' \in [Node -> SUBSET Node]
      /\ suspect' \in [Node -> SUBSET Node]
  <2>1. /\ rttProbe \in [Node -> SUBSET Node]
        /\ underVerification \in [Node -> SUBSET Node]
        /\ verificationProbe \in [Node -> SUBSET Node]
        /\ suspect \in [Node -> SUBSET Node]
    BY DEF IInv, OtherOK
  <2>2. QED
    BY <1>1, <1>2, <2>1 DEF EvaluateRttProbe
<1>4. nb' \in [Node -> SUBSET Addr]
  BY <1>1 DEF AcceptReply, IInv, OtherOK
<1>5. QED
  BY <1>3, <1>4 DEF AcceptReply, IInv, OtherOK, ownVars, helloVars, worldVars, appVars

\* The RREP-ACK and the verification probe that a RREP causes.
LEMMA RepliesToSenderGood ==
    ASSUME IInv, NEW f \in net, NEW anomalous \in BOOLEAN, Receives(f, "RREP")
    PROVE  RepliesToSender(f, anomalous) \subseteq GoodFrame(seqNo)
<1> DEFINE t == TableAfterRecvAodv(f)
           u == InstallReply(t, f.ip.body, f.ip.src)
<1>1. /\ f.to \in Node /\ f.ip.src \in Node \ {f.to} /\ seqNo \in SeqNos
      /\ t \in GoodTable(f.to, seqNo) /\ u \in GoodTable(f.to, seqNo)
  BY ReceiveFacts, ReplyFacts
<1>2. NewRverify(FALSE) \in GoodBody(f.to, seqNo) /\ [type |-> "RREP_ACK"] \in GoodBody(f.to, seqNo)
  BY <1>1, PlainBodiesGood DEF NewRverify, Rverify, RrepAck
<1>3. RepliesToSender(f, anomalous) =
        VerificationTestPacket(t, f.to, f.ip.src, anomalous) \cup
        SendReplyAck(u, f.to, f.ip.body, f.ip.src)
  BY DEF RepliesToSender
<1> HIDE DEF t, u
<1>4. SendTo(t, f.to, f.ip.src, 1, NewRverify(FALSE)) \subseteq GoodFrame(seqNo)
  BY <1>1, <1>2, SendToGood
<1>5. SendTo(u, f.to, f.ip.src, 1, [type |-> "RREP_ACK"]) \subseteq GoodFrame(seqNo)
  BY <1>1, <1>2, SendToGood
<1>6. QED
  BY <1>3, <1>4, <1>5 DEF VerificationTestPacket, SendReplyAck

\* The RREP that ends a search.
LEMMA RecvReplyAtOriginStep ==
    ASSUME IInv, NEW f \in net, NEW anomalous \in BOOLEAN, RecvReplyAtOrigin(f, anomalous)
    PROVE  IInv'
<1> DEFINE n == f.to
           r == f.ip.body
           t == TableAfterRecvAodv(f)
           searching == t[r.dst].flag = "IN_SEARCH"
           after == IF searching THEN Update(t, r.dst, ReplyEntry(r, f.ip.src))
                                 ELSE InstallReply(t, r, f.ip.src)
<1>1. AcceptReply(f, anomalous) /\ Receives(f, "RREP")
  BY DEF RecvReplyAtOrigin, AcceptReply
<1>2. /\ n \in Node /\ f.ip.src \in Node \ {n} /\ seqNo \in SeqNos
      /\ r \in GoodRrep(f.ip.src, seqNo) /\ r.dst \in Node
      /\ t \in GoodTable(n, seqNo)
      /\ InstallReply(t, r, f.ip.src) \in GoodTable(n, seqNo)
      /\ InstallReply(t, r, f.ip.src)[r.dst].nextHop \in Node \ {n}
  BY <1>1, ReceiveFacts, ReplyFacts
<1>3. /\ rt' = [rt EXCEPT ![n] = after]
      /\ \/ UNCHANGED addressReqTimer
         \/ addressReqTimer' = [addressReqTimer EXCEPT ![n][r.dst] = FALSE]
      /\ net' = (net \ {f}) \cup RepliesToSender(f, anomalous)
                    \cup SendPacketFromQueue(n, r.dst, after[r.dst].nextHop)
      /\ queue' = DropPacketWithDst(n, r.dst)
  BY DEF RecvReplyAtOrigin
<1> HIDE DEF t
<1>4. after \in GoodTable(n, seqNo) /\ after[r.dst].nextHop \in Node \ {n}
  <2>1. CASE searching
    <3>1. ReplyEntry(r, f.ip.src) \in GoodEntry(n, r.dst, seqNo)
      BY <1>2, ReplyEntryGood
    <3>2. after = Update(t, r.dst, ReplyEntry(r, f.ip.src)) /\ Found(t, r.dst)
      BY <2>1 DEF Found
    <3>3. Normalised(ReplyEntry(r, f.ip.src)).nextHop = f.ip.src
      BY DEF Normalised, ReplyEntry, NewEntry
    <3>4. after \in GoodTable(n, seqNo)
      BY <1>2, <3>1, <3>2, PutGood
    <3>5. t \in [Node -> Entry]
      BY <1>2 DEF GoodTable, Table
    <3>6. after[r.dst].nextHop = f.ip.src
      BY <1>2, <3>2, <3>3, <3>5 DEF Update
    <3>7. QED
      BY <1>2, <3>4, <3>6
  <2>2. CASE ~searching
    BY <1>2, <2>2
  <2>3. QED
    BY <2>1, <2>2
<1> HIDE DEF after
<1>5. /\ addressReqTimer' \in [Node -> [Node -> BOOLEAN]]
      /\ \A m \in Node : ~addressReqTimer'[m][m]
  <2>1. /\ addressReqTimer \in [Node -> [Node -> BOOLEAN]]
        /\ \A m \in Node : ~addressReqTimer[m][m]
    BY DEF IInv, OtherOK
  <2>2. CASE UNCHANGED addressReqTimer
    BY <2>1, <2>2
  <2>3. CASE addressReqTimer' = [addressReqTimer EXCEPT ![n][r.dst] = FALSE]
    BY <1>2, <2>1, <2>3
  <2>4. QED
    BY <1>3, <2>2, <2>3
<1>6. OtherOK' /\ UNCHANGED seqNo
  BY <1>1, <1>5, AcceptReplyStep
<1>7. Growing
  BY <1>6, UnchangedGrowing DEF IInv
<1>8. TablesOK'
  BY <1>2, <1>3, <1>4, <1>6, <1>7, TablesStep
<1>9. QueuesOK'
  BY <1>2, <1>3, <1>7, QueuesStep DEF DropPacketWithDst
<1>10. net' \subseteq net \cup GoodFrame(seqNo')
  BY <1>1, <1>2, <1>3, <1>4, <1>6, RepliesToSenderGood, SendPacketFromQueueGood
<1>11. QED
  BY <1>6, <1>7, <1>8, <1>9, <1>10, NetStep DEF IInv

\* A RREP without a way back to its originator.
LEMMA RecvReplyImpossibleStep ==
    ASSUME IInv, NEW f \in net, RecvReplyImpossible(f)
    PROVE  IInv'
<1>1. /\ AcceptReply(f, FALSE) /\ Receives(f, "RREP")
      /\ UNCHANGED <<addressReqTimer, queue>>
      /\ rt' = [rt EXCEPT ![f.to] = InstallReply(TableAfterRecvAodv(f), f.ip.body, f.ip.src)]
      /\ net' = (net \ {f}) \cup RepliesToSender(f, FALSE)
  BY DEF RecvReplyImpossible, AcceptReply
<1>2. /\ f.to \in Node
      /\ InstallReply(TableAfterRecvAodv(f), f.ip.body, f.ip.src) \in GoodTable(f.to, seqNo)
  BY <1>1, ReceiveFacts, ReplyFacts
<1>3. OtherOK' /\ UNCHANGED seqNo
  <2>1. /\ addressReqTimer' \in [Node -> [Node -> BOOLEAN]]
        /\ \A m \in Node : ~addressReqTimer'[m][m]
    BY <1>1 DEF IInv, OtherOK
  <2>2. QED
    BY <1>1, <2>1, AcceptReplyStep
<1>4. Growing
  BY <1>3, UnchangedGrowing DEF IInv
<1>5. TablesOK'
  BY <1>1, <1>2, <1>3, <1>4, TablesStep
<1>6. net' \subseteq net \cup GoodFrame(seqNo')
  BY <1>1, <1>3, RepliesToSenderGood
<1>7. QED
  BY <1>1, <1>3, <1>4, <1>5, <1>6, NetStep, QueuesStutter DEF IInv

\* A RREP one hop further.
LEMMA RelayedReplyGood ==
    ASSUME NEW s \in SeqNos, NEW src, NEW r \in GoodRrep(src, s), r.dst # r.origin, NEW n \in Node
    PROVE  [r EXCEPT !.hopCount = @ + 1, !.ackRequired = FALSE] \in GoodBody(n, s)
<1> DEFINE b == [r EXCEPT !.hopCount = @ + 1, !.ackRequired = FALSE]
<1>1. r \in Rrep /\ r.hopCount \in Nat /\ r.dstSeqNo <= s[r.dst]
  BY DEF GoodRrep, Rrep
<1>2. /\ b \in Rrep /\ b.type = "RREP"
      /\ b.dst = r.dst /\ b.origin = r.origin /\ b.dstSeqNo = r.dstSeqNo
      /\ b.hopCount = r.hopCount + 1
  <2>1. \A x \in Rrep : \A k \in Nat : [x EXCEPT !.hopCount = k] \in Rrep
    BY DEF Rrep
  <2>2. \A x \in Rrep : [x EXCEPT !.ackRequired = FALSE] \in Rrep
    BY DEF Rrep
  <2>3. b = [[r EXCEPT !.hopCount = r.hopCount + 1] EXCEPT !.ackRequired = FALSE]
    BY <1>1 DEF Rrep
  <2>4. r.hopCount + 1 \in Nat
    BY <1>1
  <2>5. b \in Rrep
    BY <1>1, <2>1, <2>2, <2>3, <2>4
  <2>6. QED
    BY <1>1, <2>5 DEF Rrep
<1> HIDE DEF b
<1>3. b.hopCount # 0
  BY <1>1, <1>2
<1>4. b \in GoodRrep(n, s)
  BY <1>1, <1>2, <1>3 DEF GoodRrep
<1>5. b \in GoodBody(n, s)
  BY <1>2, <1>4 DEF GoodBody, Body
<1>6. QED
  BY <1>5 DEF b

\* A RREP that is passed on to its originator.
LEMMA RecvReplyRelayStep ==
    ASSUME IInv, NEW f \in net, RecvReplyRelay(f)
    PROVE  IInv'
<1> DEFINE n == f.to
           r == f.ip.body
           t == InstallReply(TableAfterRecvAodv(f), r, f.ip.src)
           after == TableAfterRelay(t, r)
           relayed == [r EXCEPT !.hopCount = @ + 1, !.ackRequired = FALSE]
<1>1. /\ AcceptReply(f, FALSE) /\ Receives(f, "RREP") /\ r.dst # r.origin
      /\ UNCHANGED <<addressReqTimer, queue>>
      /\ ~NoWayBack(t, r)
      /\ rt' = [rt EXCEPT ![n] = after]
      /\ net' = (net \ {f}) \cup RepliesToSender(f, FALSE) \cup
                    IF f.ip.ttl < 2 THEN {}
                    ELSE SendTo(after, n, t[r.origin].nextHop, f.ip.ttl - 1, relayed)
  BY DEF RecvReplyRelay, AcceptReply
<1>2. /\ n \in Node /\ f.ip.ttl \in Nat /\ seqNo \in SeqNos
      /\ r \in GoodRrep(f.ip.src, seqNo) /\ r \in Rrep
      /\ r.dst \in Node /\ r.origin \in Node
      /\ t \in GoodTable(n, seqNo) /\ t[r.dst].nextHop \in Node \ {n}
  BY <1>1, ReceiveFacts, ReplyFacts
<1>3. relayed \in GoodBody(n, seqNo)
  BY <1>1, <1>2, RelayedReplyGood
<1> HIDE DEF t, relayed
<1>4. t[r.origin].nextHop \in Node \ {n}
  <2>1. t[r.origin] \in GoodEntry(n, r.origin, seqNo)
    BY <1>2, GoodEntryOfTable
  <2>2. t[r.origin].flag \in {"VALID", "INVALID"}
    BY <1>1, <2>1 DEF NoWayBack, GoodEntry, Entry, Flags
  <2>3. QED
    BY <2>1, <2>2 DEF GoodEntry
<1>5. after \in GoodTable(n, seqNo)
  BY <1>2, <1>4, RelayTableGood
<1> HIDE DEF after
<1>6. OtherOK' /\ UNCHANGED seqNo
  <2>1. /\ addressReqTimer' \in [Node -> [Node -> BOOLEAN]]
        /\ \A m \in Node : ~addressReqTimer'[m][m]
    BY <1>1 DEF IInv, OtherOK
  <2>2. QED
    BY <1>1, <2>1, AcceptReplyStep
<1>7. Growing
  BY <1>6, UnchangedGrowing DEF IInv
<1>8. TablesOK'
  BY <1>1, <1>2, <1>5, <1>6, <1>7, TablesStep
<1>9. net' \subseteq net \cup GoodFrame(seqNo')
  <2>1. ~(f.ip.ttl < 2) => f.ip.ttl - 1 \in Nat
    BY <1>2
  <2>2. ~(f.ip.ttl < 2) =>
          SendTo(after, n, t[r.origin].nextHop, f.ip.ttl - 1, relayed) \subseteq GoodFrame(seqNo)
    BY <1>2, <1>3, <1>4, <1>5, <2>1, SendToGood
  <2>3. RepliesToSender(f, FALSE) \subseteq GoodFrame(seqNo)
    BY <1>1, RepliesToSenderGood
  <2>4. QED
    BY <1>1, <1>6, <2>2, <2>3
<1>10. QED
  BY <1>1, <1>6, <1>7, <1>8, <1>9, NetStep, QueuesStutter DEF IInv

\* A hello message.
LEMMA ProcessHelloStep ==
    ASSUME IInv, NEW f \in net, ProcessHello(f)
    PROVE  IInv'
<1> DEFINE n == f.to
           r == f.ip.body
           t == TableAfterRecvAodv(f)
           after == IF Found(t, r.dst)
                    THEN Update(t, r.dst, HelloEntry(t[r.dst], r))
                    ELSE AddRoute(t, r.dst, NewEntry(TRUE, r.dstSeqNo, 1, r.dst))
<1>1. Receives(f, "RREP") /\ r.dst = r.origin /\ rt' = [rt EXCEPT ![n] = after]
  BY DEF ProcessHello
<1>2. /\ n \in Node /\ f.ip.src \in Node \ {n} /\ seqNo \in SeqNos
      /\ r \in GoodRrep(f.ip.src, seqNo) /\ r \in Rrep /\ r.dst \in Node
      /\ t \in GoodTable(n, seqNo)
      /\ RefreshedNeighbours(n, f.ip) \subseteq Addr
  BY <1>1, ReceiveFacts, ReplyFacts
<1>3. OtherOK' /\ UNCHANGED <<seqNo, queue>> /\ net' \subseteq net
  <2>1. nb' \in [Node -> SUBSET Addr]
    <3>1. nb \in [Node -> SUBSET Addr] /\ r.dst \in Addr
      BY <1>2 DEF IInv, OtherOK, Addr
    <3>2. QED
      BY <1>2, <3>1 DEF ProcessHello
  <2>2. QED
    BY <2>1 DEF ProcessHello, IInv, OtherOK, ownVars, searchVars, helloVars, detectorVars,
                worldVars, appVars
<1> HIDE DEF t
<1>4. after \in GoodTable(n, seqNo)
  <2>1. r.dst # n /\ r.dstSeqNo \in Nat /\ r.dstSeqNo <= seqNo[r.dst]
    BY <1>1, <1>2 DEF GoodRrep, Rrep
  <2>2. HelloEntry(t[r.dst], r) \in GoodEntry(n, r.dst, seqNo)
    BY <1>2, <2>1, GoodEntryOfTable, HelloEntryGood
  <2>3. NewEntry(TRUE, r.dstSeqNo, 1, r.dst) \in GoodEntry(n, r.dst, seqNo)
    BY <1>2, <2>1 DEF NewEntry, GoodEntry, Entry, Flags, Addr
  <2>4. QED
    BY <1>2, <2>2, <2>3, PutGood
<1> HIDE DEF after
<1>5. Growing
  BY <1>3, UnchangedGrowing DEF IInv
<1>6. TablesOK'
  BY <1>1, <1>2, <1>3, <1>4, <1>5, TablesStep
<1>7. QED
  BY <1>3, <1>5, <1>6, NetStep, QueuesStutter DEF IInv

\* A RREP-ACK.
LEMMA RecvReplyAckStep ==
    ASSUME IInv, NEW f \in net, RecvReplyAck(f)
    PROVE  IInv'
<1> DEFINE t == TableAfterRecvAodv(f)
           after == Update(t, f.ip.src, [t[f.ip.src] EXCEPT !.flag = "VALID"])
<1>1. Receives(f, "RREP_ACK") /\ rt' = [rt EXCEPT ![f.to] = after]
  BY DEF RecvReplyAck
<1>2. /\ f.to \in Node /\ f.ip.src \in Node \ {f.to} /\ seqNo \in SeqNos
      /\ RefreshedNeighbours(f.to, f.ip) \subseteq Addr
      /\ rt[f.to] \in GoodTable(f.to, seqNo)
  BY <1>1, ReceiveFacts, NodeFacts
<1>3. after \in GoodTable(f.to, seqNo)
  BY <1>2, AckTableGood DEF TableAfterRecvAodv
<1>4. OtherOK' /\ UNCHANGED <<seqNo, queue>> /\ net' \subseteq net
  BY <1>2 DEF RecvReplyAck, IInv, OtherOK, ownVars, searchVars, helloVars, detectorVars,
              worldVars, appVars
<1> HIDE DEF after
<1>5. Growing
  BY <1>4, UnchangedGrowing DEF IInv
<1>6. TablesOK'
  BY <1>1, <1>2, <1>3, <1>4, <1>5, TablesStep
<1>7. QED
  BY <1>4, <1>5, <1>6, NetStep, QueuesStutter DEF IInv

\* A RERR.
LEMMA RecvErrorStep ==
    ASSUME IInv, NEW f \in net, RecvError(f)
    PROVE  IInv'
<1> DEFINE t == TableAfterRecvAodv(f)
           D == f.ip.body.unreachable \cap GetListOfDestinationWithNextHop(t, f.ip.src)
<1>1. Receives(f, "RERR") /\ ReportUnreachable(f.to, t, D, net \ {f})
  BY DEF RecvError
<1>2. /\ f.to \in Node
      /\ RefreshedNeighbours(f.to, f.ip) \subseteq Addr
      /\ t \in GoodTable(f.to, seqNo)
  BY <1>1, ReceiveFacts
<1>3. D \in SUBSET Node
  BY DEF GetListOfDestinationWithNextHop
<1>4. UNCHANGED <<seqNo, queue>>
  BY DEF RecvError, ownVars
<1> HIDE DEF t, D
<1>5. TablesOK' /\ NetOK' /\ rerrCount' \in [Node -> Nat]
  BY <1>1, <1>2, <1>3, <1>4, ReportUnreachableStep
<1>6. nb' \in [Node -> SUBSET Addr]
  BY <1>2 DEF RecvError, IInv, OtherOK
<1>7. OtherOK'
  BY <1>5, <1>6 DEF RecvError, IInv, OtherOK, ownVars, searchVars, helloVars, detectorVars,
                    worldVars, appVars
<1>8. QED
  BY <1>4, <1>5, <1>7, UnchangedGrowing, QueuesStutter DEF IInv

\* The probes of the wormhole detector, and the answers to them.
LEMMA RecvVerificationStep ==
    ASSUME IInv, NEW f \in net,
           \/ RecvVerificationProbe(f)
           \/ \E anomalous \in BOOLEAN : RecvVerificationResponse(f, anomalous)
    PROVE  IInv'
<1> DEFINE t == TableAfterRecvAodv(f)
<1>1. Receives(f, "RVERIFY") /\ rt' = [rt EXCEPT ![f.to] = t]
  BY DEF RecvVerificationProbe, RecvVerificationResponse
<1>2. /\ f.to \in Node /\ f.ip.src \in Node \ {f.to} /\ f.ip.ttl \in Nat /\ seqNo \in SeqNos
      /\ RefreshedNeighbours(f.to, f.ip) \subseteq Addr
      /\ t \in GoodTable(f.to, seqNo)
  BY <1>1, ReceiveFacts
<1>3. OtherOK' /\ UNCHANGED <<seqNo, queue>>
  <2>1. CASE RecvVerificationProbe(f)
    BY <1>2, <2>1 DEF RecvVerificationProbe, IInv, OtherOK, ownVars, searchVars, helloVars,
                      detectorVars, worldVars, appVars
  <2>2. ASSUME NEW anomalous \in BOOLEAN, RecvVerificationResponse(f, anomalous)
        PROVE  OtherOK' /\ UNCHANGED <<seqNo, queue>>
    <3>1. /\ underVerification \in [Node -> SUBSET Node]
          /\ verificationProbe \in [Node -> SUBSET Node]
          /\ suspect \in [Node -> SUBSET Node]
      BY DEF IInv, OtherOK
    <3>2. /\ underVerification' \in [Node -> SUBSET Node]
          /\ verificationProbe' \in [Node -> SUBSET Node]
          /\ suspect' \in [Node -> SUBSET Node]
      BY <1>2, <2>2, <3>1 DEF RecvVerificationResponse
    <3>3. nb' \in [Node -> SUBSET Addr]
      BY <1>2, <2>2 DEF RecvVerificationResponse, IInv, OtherOK
    <3>4. QED
      BY <2>2, <3>2, <3>3 DEF RecvVerificationResponse, IInv, OtherOK, ownVars, searchVars,
                              helloVars, worldVars, appVars
  <2>3. QED
    BY <2>1, <2>2
<1>4. Growing
  BY <1>3, UnchangedGrowing DEF IInv
<1>5. TablesOK'
  BY <1>1, <1>2, <1>3, <1>4, TablesStep
<1>6. net' \subseteq net \cup GoodFrame(seqNo')
  <2>1. NewRverify(TRUE) \in GoodBody(f.to, seqNo)
    BY <1>2, PlainBodiesGood DEF NewRverify, Rverify
  <2>2. SendTo(t, f.to, f.ip.src, f.ip.ttl, NewRverify(TRUE)) \subseteq GoodFrame(seqNo)
    BY <1>2, <2>1, SendToGood
  <2>3. QED
    BY <1>3, <2>2 DEF RecvVerificationProbe, RecvVerificationResponse
<1>7. QED
  BY <1>3, <1>4, <1>5, <1>6, NetStep, QueuesStutter DEF IInv

\* Every frame that is received.
LEMMA RouteInputStep ==
    ASSUME IInv, NEW f \in net, RouteInput(f)
    PROVE  IInv'
<1>1. CASE RecvAodv(f)
  BY <1>1, RecvRequestDuplicateStep, RecvRequestAsDestinationStep, RecvRequestLoopStep,
     RecvRequestAsIntermediateStep, RecvRequestRelayStep, RecvReplyRejectedStep,
     RecvReplyAtOriginStep, RecvReplyImpossibleStep, RecvReplyRelayStep, ProcessHelloStep,
     RecvReplyAckStep, RecvErrorStep, RecvVerificationStep DEF RecvAodv
<1>2. QED
  BY <1>1, DeferredRouteOutputStep, DataStep DEF RouteInput

-----------------------------------------------------------------------------
(* Timers and the environment.                                              *)

\* Every timer of a node.
LEMMA TimersStep ==
    ASSUME IInv, NEW n \in Node, Timers(n)
    PROVE  IInv'
<1>1. CASE RreqRateLimitTimerExpire(n) \/ RerrRateLimitTimerExpire(n)
  <2>1. OtherOK' /\ UNCHANGED <<rt, seqNo, queue, net>>
    <3>1. CASE RreqRateLimitTimerExpire(n)
      BY <3>1 DEF RreqRateLimitTimerExpire, IInv, OtherOK, searchVars, helloVars, detectorVars,
                  worldVars, appVars
    <3>2. CASE RerrRateLimitTimerExpire(n)
      BY <3>2 DEF RerrRateLimitTimerExpire, IInv, OtherOK, ownVars, searchVars, helloVars,
                  detectorVars, worldVars, appVars
    <3>3. QED
      BY <1>1, <3>1, <3>2
  <2>2. Growing
    BY <2>1, UnchangedGrowing DEF IInv
  <2>3. QED
    BY <2>1, <2>2, TablesStutter, NetStep, QueuesStutter DEF IInv
<1>2. CASE HelloTimerExpire(n)
  <2>1. OtherOK' /\ UNCHANGED <<rt, seqNo, queue>>
    BY <1>2 DEF HelloTimerExpire, IInv, OtherOK, ownVars, searchVars, detectorVars, worldVars, appVars
  <2>2. Growing
    BY <2>1, UnchangedGrowing DEF IInv
  <2>3. seqNo \in SeqNos /\ seqNo[n] \in Nat /\ seqNo[n] <= seqNo[n]
    BY NodeFacts
  <2>4. NewRrep(n, seqNo[n], n, 0, FALSE) \in GoodBody(n, seqNo)
    BY <2>3, NewRrepGood
  <2>5. Broadcast(n, 1, NewRrep(n, seqNo[n], n, 0, FALSE)) \subseteq GoodFrame(seqNo)
    BY <2>3, <2>4, BroadcastGood
  <2>6. net' \subseteq net \cup GoodFrame(seqNo')
    BY <1>2, <2>1, <2>5 DEF HelloTimerExpire
  <2>7. QED
    BY <2>1, <2>2, <2>6, TablesStutter, NetStep, QueuesStutter DEF IInv
<1>3. QED
  BY <1>1, <1>2, RouteRequestTimerExpireStep, DelayedSendRequestStep DEF Timers

\* The link failure handler.
LEMMA CloseNeighbourStep ==
    ASSUME IInv, NEW n \in Node, NEW h, NEW frames, frames \subseteq net,
           CloseNeighbour(n, h, frames), events' \in Nat
    PROVE  IInv'
<1>1. UNCHANGED <<seqNo, queue>> /\ SendRerrWhenBreaksLinkToNextHop(n, h, frames)
  BY DEF CloseNeighbour, ownVars
<1>2. Growing
  BY <1>1, UnchangedGrowing DEF IInv
<1>3. TablesOK' /\ NetOK' /\ rerrCount' \in [Node -> Nat]
  <2> DEFINE D == {h} \cup GetListOfDestinationWithNextHop(rt[n], h)
  <2>1. CASE h \in Node /\ Found(rt[n], h)
    <3>1. D \in SUBSET Node /\ rt[n] \in GoodTable(n, seqNo)
      BY <2>1, NodeFacts DEF GetListOfDestinationWithNextHop
    <3>2. ReportUnreachable(n, rt[n], D, frames)
      BY <1>1, <2>1 DEF SendRerrWhenBreaksLinkToNextHop
    <3> HIDE DEF D
    <3>3. QED
      BY <1>1, <3>1, <3>2, ReportUnreachableStep
  <2>2. CASE ~(h \in Node /\ Found(rt[n], h))
    <3>1. net' = frames /\ UNCHANGED <<rt, rerrCount>>
      BY <1>1, <2>2 DEF SendRerrWhenBreaksLinkToNextHop
    <3>2. rerrCount' \in [Node -> Nat]
      BY <3>1 DEF IInv, OtherOK
    <3>3. QED
      BY <1>2, <3>1, <3>2, TablesStutter, NetStep
  <2>3. QED
    BY <2>1, <2>2
<1>4. nb' \in [Node -> SUBSET Addr]
  BY DEF CloseNeighbour, IInv, OtherOK
<1>5. OtherOK'
  BY <1>3, <1>4 DEF CloseNeighbour, IInv, OtherOK, ownVars, searchVars, helloVars, detectorVars, appVars
<1>6. QED
  BY <1>1, <1>2, <1>3, <1>5, QueuesStutter DEF IInv

\* Everything that happens to a node from outside.
LEMMA EnvironmentStep ==
    ASSUME IInv, Environment
    PROVE  IInv'
<1>0. Event => events' \in Nat
  BY DEF Event, IInv, OtherOK
<1>1. ASSUME NEW f \in net, LoseFrame(f)
      PROVE  IInv'
  <2>1. events' \in Nat
    BY <1>0, <1>1 DEF LoseFrame, Fails, IInv, OtherOK
  <2>2. OtherOK' /\ UNCHANGED <<rt, seqNo, queue>> /\ net' \subseteq net
    BY <1>1, <2>1 DEF LoseFrame, IInv, OtherOK, ownVars, searchVars, helloVars, detectorVars, appVars
  <2>3. Growing
    BY <2>2, UnchangedGrowing DEF IInv
  <2>4. QED
    BY <2>2, <2>3, TablesStutter, NetStep, QueuesStutter DEF IInv
<1>2. ASSUME NEW f \in net, NotifyTxError(f)
      PROVE  IInv'
  <2>1. events' \in Nat
    BY <1>0, <1>2 DEF NotifyTxError, Fails, IInv, OtherOK
  <2>2. CloseNeighbour(f.from, f.to, net \ {f}) /\ f.from \in Node
    BY <1>2, FrameFacts DEF NotifyTxError
  <2>3. QED
    BY <2>1, <2>2, CloseNeighbourStep
<1>3. ASSUME NEW n \in Node, NEW h \in nb[n], NeighbourExpire(n, h)
      PROVE  IInv'
  BY <1>0, <1>3, CloseNeighbourStep DEF NeighbourExpire
<1>4. ASSUME NEW n \in Node, NEW d \in Node, RouteExpire(n, d)
      PROVE  IInv'
  <2> DEFINE t == [rt[n] EXCEPT ![d] = ExpireEntry(@)]
  <2>1. OtherOK' /\ UNCHANGED <<seqNo, queue, net>>
    BY <1>0, <1>4 DEF RouteExpire, IInv, OtherOK, ownVars, searchVars, helloVars, detectorVars, appVars
  <2>2. Growing
    BY <2>1, UnchangedGrowing DEF IInv
  <2>3. t \in GoodTable(n, seqNo)
    BY NodeFacts, ExpireEntryGood, PutGood
  <2>4. rt' = [rt EXCEPT ![n] = t]
    BY <1>4 DEF RouteExpire
  <2> HIDE DEF t
  <2>5. QED
    BY <2>1, <2>2, <2>3, <2>4, TablesStep, NetStep, QueuesStutter DEF IInv
<1>5. ASSUME NEW n \in Node, NEW p, QueueExpire(n, p)
      PROVE  IInv'
  <2>1. OtherOK' /\ UNCHANGED <<rt, seqNo, net>>
    BY <1>0, <1>5 DEF QueueExpire, IInv, OtherOK, ownVars, searchVars, helloVars, detectorVars, appVars
  <2>2. Growing
    BY <2>1, UnchangedGrowing DEF IInv
  <2>3. QueuesOK'
    BY <1>5, <2>2, QueuesStep DEF QueueExpire
  <2>4. QED
    BY <2>1, <2>2, <2>3, TablesStutter, NetStep DEF IInv
<1>6. ASSUME NEW n \in Node, NEW a, SuspectExpire(n, a)
      PROVE  IInv'
  <2>1. OtherOK' /\ UNCHANGED <<rt, seqNo, queue, net>>
    BY <1>0, <1>6 DEF SuspectExpire, IInv, OtherOK, ownVars, searchVars, helloVars, appVars
  <2>2. Growing
    BY <2>1, UnchangedGrowing DEF IInv
  <2>3. QED
    BY <2>1, <2>2, TablesStutter, NetStep, QueuesStutter DEF IInv
<1>7. ASSUME NEW n \in Node, NotifyInterfaceDown(n)
      PROVE  IInv'
  <2>1. OtherOK' /\ UNCHANGED <<seqNo, queue, net>>
    BY <1>0, <1>7 DEF NotifyInterfaceDown, IInv, OtherOK, ownVars, searchVars, detectorVars, appVars
  <2>2. Growing
    BY <2>1, UnchangedGrowing DEF IInv
  <2>3. EmptyTable \in GoodTable(n, seqNo)
    BY NodeFacts, EmptyTableGood
  <2>4. rt' = [rt EXCEPT ![n] = EmptyTable]
    BY <1>7 DEF NotifyInterfaceDown
  <2>5. QED
    BY <2>1, <2>2, <2>3, <2>4, TablesStep, NetStep, QueuesStutter DEF IInv
<1>8. ASSUME NEW n \in Node, NotifyInterfaceUp(n)
      PROVE  IInv'
  <2>1. OtherOK' /\ UNCHANGED <<rt, seqNo, queue, net>>
    BY <1>8 DEF NotifyInterfaceUp, IInv, OtherOK, ownVars, searchVars, helloVars, detectorVars,
                worldVars, appVars
  <2>2. Growing
    BY <2>1, UnchangedGrowing DEF IInv
  <2>3. QED
    BY <2>1, <2>2, TablesStutter, NetStep, QueuesStutter DEF IInv
<1>9. ASSUME NEW l \in InitLinks, LinkChange(l)
      PROVE  IInv'
  <2>1. links' \subseteq SUBSET Node
    BY <1>9, LinksAssumption DEF LinkChange, IInv, OtherOK
  <2>2. OtherOK' /\ UNCHANGED <<rt, seqNo, queue, net>>
    BY <1>0, <1>9, <2>1 DEF LinkChange, IInv, OtherOK, ownVars, searchVars, helloVars,
                            detectorVars, appVars
  <2>3. Growing
    BY <2>2, UnchangedGrowing DEF IInv
  <2>4. QED
    BY <2>2, <2>3, TablesStutter, NetStep, QueuesStutter DEF IInv
<1>10. QED
  BY <1>1, <1>2, <1>3, <1>4, <1>5, <1>6, <1>7, <1>8, <1>9 DEF Environment

-----------------------------------------------------------------------------
(* The theorems.                                                            *)

\* The initial state is good.
LEMMA InitIInv == Init => IInv
<1> SUFFICES ASSUME Init
             PROVE  IInv
  OBVIOUS
<1>1. OtherOK
  BY LinksAssumption, ParameterAssumption DEF Init, OtherOK, SeqNos
<1>2. TablesOK
  <2>1. \A n \in Node : EmptyTable \in GoodTable(n, seqNo)
    BY <1>1, EmptyTableGood DEF OtherOK
  <2>2. QED
    BY <2>1 DEF Init, TablesOK, GoodTable
<1>3. NetOK /\ QueuesOK
  BY DEF Init, NetOK, QueuesOK
<1>4. QED
  BY <1>1, <1>2, <1>3 DEF IInv

\* Every step preserves the invariant.
LEMMA NextIInv == IInv /\ [Next]_vars => IInv'
<1> SUFFICES ASSUME IInv, [Next]_vars
             PROVE  IInv'
  OBVIOUS
<1>1. CASE UNCHANGED vars
  <2>1. UNCHANGED <<rt, seqNo, queue, net>> /\ OtherOK'
    BY <1>1 DEF vars, IInv, OtherOK
  <2>2. Growing
    BY <2>1, UnchangedGrowing DEF IInv
  <2>3. QED
    BY <2>1, <2>2, TablesStutter, NetStep, QueuesStutter DEF IInv
<1>2. CASE Next
  BY <1>2, RouteOutputStep, RouteInputStep, TimersStep, EnvironmentStep DEF Next
<1>3. QED
  BY <1>1, <1>2

\* IInv is an invariant of the protocol.
THEOREM InvariantHolds == Spec => []IInv
BY InitIInv, NextIInv, PTL DEF Spec

\* The invariant implies the properties.
LEMMA IInvImplies ==
    ASSUME IInv
    PROVE  TypeOK /\ RouteHasNextHop /\ OneHopIsDirect /\ SeqNoBounded
<1>1. /\ \A n \in Node : queue[n] \subseteq UnicastPacket /\ queue[n] \subseteq GoodIp(seqNo)
      /\ \A f \in net : f \in Frame /\ f.ip \in GoodIp(seqNo)
  <2>1. \A n \in Node : \A p \in queue[n] : p \in UnicastPacket /\ p \in GoodIp(seqNo)
    <3>1. \A n \in Node : GoodWaiting(n, seqNo) \subseteq UnicastPacket
      BY BcastAssumption DEF GoodWaiting, GoodIp, UnicastPacket, Addr
    <3>2. \A n \in Node : GoodWaiting(n, seqNo) \subseteq GoodIp(seqNo)
      BY DEF GoodWaiting
    <3>3. QED
      BY <3>1, <3>2 DEF IInv, QueuesOK
  <2>2. ASSUME NEW f \in net
        PROVE  f \in Frame /\ f.ip \in GoodIp(seqNo)
    <3>1. f \in [from : Node, to : Node, ip : GoodIp(seqNo)]
      BY DEF IInv, NetOK, GoodFrame
    <3>2. f.from = f.to => f.ip \in UnicastPacket
      BY FrameFacts, BcastAssumption DEF GoodWaiting, GoodIp, UnicastPacket, Addr
    <3>3. QED
      BY <3>1, <3>2 DEF Frame, GoodIp
  <2>3. QED
    BY <2>1, <2>2
<1>2. TypeOK
  BY <1>1 DEF IInv, OtherOK, TablesOK, QueuesOK, SeqNos, TypeOK
<1>3. RouteHasNextHop /\ OneHopIsDirect
  BY NodeFacts DEF GoodEntry, RouteHasNextHop, OneHopIsDirect
<1>4. SeqNoBounded
  <2>1. \A n, d \in Node : rt[n][d].validSeqNo => rt[n][d].seqNo <= seqNo[d]
    BY NodeFacts DEF GoodEntry
  <2>2. ASSUME NEW p \in GoodIp(seqNo)
        PROVE  SeqNosOfPacket(p)
    BY DEF GoodIp, GoodBody, GoodRreq, GoodRrep, SeqNosOfPacket
  <2>3. InTransit \subseteq GoodIp(seqNo)
    BY <1>1 DEF InTransit
  <2>4. QED
    BY <2>1, <2>2, <2>3 DEF SeqNoBounded
<1>5. QED
  BY <1>2, <1>3, <1>4

\* Every variable has its type: no handler reads or writes outside the tables.
THEOREM TypeCorrect == Spec => []TypeOK
BY InvariantHolds, IInvImplies, PTL

\* Next hops are never the default address: SendTo, Forwarding and
\* SendPacketFromQueue may use them unchecked.
THEOREM NextHopsExist == Spec => []RouteHasNextHop
BY InvariantHolds, IInvImplies, PTL

\* A hop count of one always means a neighbour.
THEOREM OneHopRoutesAreDirect == Spec => []OneHopIsDirect
BY InvariantHolds, IInvImplies, PTL

\* No table and no message is ahead of the sequence number of its node.
THEOREM SequenceNumbersBounded == Spec => []SeqNoBounded
BY InvariantHolds, IInvImplies, PTL
=============================================================================
