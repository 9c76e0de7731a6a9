-------------------------- MODULE AodvSearchProofs --------------------------
(***************************************************************************)
(* NoStrandedSearch and NoStrandedPacket are invariants of Spec: a search  *)
(* and the packets that wait for it always have a timer or a scheduled     *)
(* call that will deal with them.  Each is needed to prove the other: a    *)
(* packet joins a search only because the search is pursued.               *)
(*                                                                         *)
(* OverrunsAreDeferred says how a search can miss its end; a search at the *)
(* limit always has a running retry timer (CountsOK).                      *)
(*                                                                         *)
(* FreshRoutesStayFresh and SuspectsGainNoRoutes say which routes a step   *)
(* may put in the place of others; Steady says both of every table.        *)
(***************************************************************************)
EXTENDS AodvInvariantProofs

\* Only entries in search count their RREQs.
Tidy(t) == \A d \in Node : t[d].flag # "IN_SEARCH" => t[d].reqCount = 0

\* Table u searches for nothing that table t does not search for, and counts no
\* RREQs that t does not.
Calmer(u, t) ==
    /\ \A d \in Node : u[d].flag = "IN_SEARCH" =>
                         t[d].flag = "IN_SEARCH" /\ u[d].reqCount = t[d].reqCount
    /\ Tidy(t) => Tidy(u)

Searches == NoStrandedSearch /\ NoStrandedPacket

-----------------------------------------------------------------------------
(* Only SendRequest starts a search.                                        *)

\* Writing an entry that is not in search, or was before, starts no search.
LEMMA PutCalm ==
    ASSUME NEW t \in Table, NEW d \in Node, NEW e \in Entry, NEW base,
           Calmer(t, base),
           e.flag = "IN_SEARCH" => base[d].flag = "IN_SEARCH" /\ e.reqCount = base[d].reqCount
    PROVE  /\ Calmer(AddRoute(t, d, e), base) /\ AddRoute(t, d, e) \in Table
           /\ Calmer(Update(t, d, e), base) /\ Update(t, d, e) \in Table
<1>1. /\ Normalised(e).flag = e.flag /\ Normalised(e) \in Entry
      /\ e.flag = "IN_SEARCH" => Normalised(e).reqCount = e.reqCount
      /\ e.flag # "IN_SEARCH" => Normalised(e).reqCount = 0
  BY DEF Normalised, Entry
<1>2. ASSUME NEW u, u = AddRoute(t, d, e) \/ u = Update(t, d, e)
      PROVE  u \in Table /\ Calmer(u, base)
  <2>1. u = t \/ u = [t EXCEPT ![d] = Normalised(e)]
    BY <1>2 DEF AddRoute, Update
  <2>2. u \in Table /\ \A x \in Node : u[x] = t[x] \/ (x = d /\ u[x] = Normalised(e))
    BY <1>1, <2>1 DEF Table
  <2>3. Tidy(t) => Tidy(u)
    BY <1>1, <2>2 DEF Tidy
  <2>4. QED
    BY <1>1, <2>2, <2>3 DEF Calmer
<1>3. QED
  BY <1>2

\* A new entry is VALID, hence not in search.
LEMMA NewEntryValid ==
    ASSUME NEW v \in BOOLEAN, NEW q \in Nat, NEW k \in Nat, NEW h \in Node
    PROVE  NewEntry(v, q, k, h) \in Entry /\ NewEntry(v, q, k, h).flag = "VALID"
BY DEF NewEntry, Entry, Flags, Addr

\* UpdateRouteToNeighbor starts no search.
LEMMA NeighbourCalm ==
    ASSUME NEW t \in Table, NEW sender \in Node
    PROVE  /\ Calmer(UpdateRouteToNeighbor(t, sender), t)
           /\ UpdateRouteToNeighbor(t, sender) \in Table
<1>1. /\ NewEntry(FALSE, 0, 1, sender) \in Entry
      /\ NewEntry(FALSE, 0, 1, sender).flag = "VALID"
  BY DEF NewEntry, Entry, Flags, Addr
<1>2. Calmer(t, t)
  BY DEF Calmer
<1>3. QED
  BY <1>1, <1>2, PutCalm DEF UpdateRouteToNeighbor

\* The two routes that a RREQ makes start no search.
LEMMA RequestTableCalm ==
    ASSUME NEW t \in Table, NEW r \in Rreq, NEW src \in Node
    PROVE  Calmer(RouteToRequester(ReverseRoute(t, r, src), r, src), t)
<1> DEFINE u == ReverseRoute(t, r, src)
           w == RouteToRequester(u, r, src)
           q == IF ~t[r.origin].validSeqNo \/ Newer(r.originSeqNo, t[r.origin].seqNo)
                THEN r.originSeqNo ELSE t[r.origin].seqNo
           e == [t[r.origin] EXCEPT !.seqNo = q, !.validSeqNo = TRUE, !.nextHop = src,
                                    !.hop = r.hopCount + 1]
<1>1. /\ r.origin \in Node /\ r.originSeqNo \in Nat /\ r.hopCount + 1 \in Nat
      /\ t[r.origin] \in Entry
  BY DEF Rreq, Table
<1>2. Calmer(t, t)
  BY DEF Calmer
<1>3. Calmer(u, t) /\ u \in Table
  <2>1. q \in Nat
    BY <1>1 DEF Entry
  <2>2. u = IF ~Found(t, r.origin)
            THEN AddRoute(t, r.origin, NewEntry(TRUE, r.originSeqNo, r.hopCount + 1, src))
            ELSE Update(t, r.origin, e)
    BY DEF ReverseRoute
  <2> HIDE DEF q, u
  <2>3. e \in Entry /\ e.flag = t[r.origin].flag /\ e.reqCount = t[r.origin].reqCount
    BY <1>1, <2>1 DEF Entry, Addr
  <2>4. /\ NewEntry(TRUE, r.originSeqNo, r.hopCount + 1, src) \in Entry
        /\ NewEntry(TRUE, r.originSeqNo, r.hopCount + 1, src).flag = "VALID"
    BY <1>1, NewEntryValid
  <2> HIDE DEF e
  <2>5. Calmer(Update(t, r.origin, e), t) /\ Update(t, r.origin, e) \in Table
    BY <1>1, <1>2, <2>3, PutCalm
  <2>6. QED
    BY <1>1, <1>2, <2>2, <2>4, <2>5, PutCalm
<1> HIDE DEF u
<1>4. Calmer(w, t)
  <2> DEFINE x == [u[src] EXCEPT !.validSeqNo = FALSE, !.seqNo = r.originSeqNo,
                                 !.flag = "VALID", !.hop = 1, !.nextHop = src]
  <2>1. u[src] \in Entry
    BY <1>3 DEF Table
  <2>2. x \in Entry /\ x.flag = "VALID"
    BY <1>1, <2>1 DEF Entry, Flags, Addr
  <2>3. /\ NewEntry(FALSE, r.originSeqNo, 1, src) \in Entry
        /\ NewEntry(FALSE, r.originSeqNo, 1, src).flag = "VALID"
    BY <1>1 DEF NewEntry, Entry, Flags, Addr
  <2>4. w = IF ~Found(u, src) THEN AddRoute(u, src, NewEntry(FALSE, r.originSeqNo, 1, src))
                              ELSE Update(u, src, x)
    BY DEF RouteToRequester
  <2> HIDE DEF x, w
  <2>5. QED
    BY <1>3, <2>2, <2>3, <2>4, PutCalm
<1>5. QED
  BY <1>4 DEF u

\* Installing the route of a RREP starts no search.
LEMMA InstallReplyCalm ==
    ASSUME NEW t \in Table, NEW r \in Rrep, NEW sender \in Node
    PROVE  Calmer(InstallReply(t, r, sender), t) /\ InstallReply(t, r, sender) \in Table
<1>1. r.dst \in Node /\ r.dstSeqNo \in Nat /\ r.hopCount + 1 \in Nat
  BY DEF Rrep
<1>2. ReplyEntry(r, sender) \in Entry /\ ReplyEntry(r, sender).flag = "VALID"
  BY <1>1, NewEntryValid DEF ReplyEntry
<1>3. Calmer(t, t)
  BY DEF Calmer
<1>4. QED
  BY <1>1, <1>2, <1>3, PutCalm DEF InstallReply

\* Adding a precursor starts no search.
LEMMA PrecursorCalm ==
    ASSUME NEW t \in Table, NEW base, Calmer(t, base), NEW d \in Node, NEW a \in Node,
           NEW e \in Entry,
           e.flag = "IN_SEARCH" => base[d].flag = "IN_SEARCH" /\ e.reqCount = base[d].reqCount
    PROVE  /\ Calmer(Update(t, d, InsertPrecursor(e, a)), base)
           /\ Update(t, d, InsertPrecursor(e, a)) \in Table
<1>1. /\ InsertPrecursor(e, a) \in Entry /\ InsertPrecursor(e, a).flag = e.flag
      /\ InsertPrecursor(e, a).reqCount = e.reqCount
  BY DEF InsertPrecursor, Entry
<1>2. QED
  BY <1>1, PutCalm

\* The precursors noted by SendReplyByIntermediateNode start no search.
LEMMA ReplyTableCalm ==
    ASSUME NEW t \in Table, NEW r \in Rreq, t[r.dst].nextHop \in Node, t[r.origin].nextHop \in Node
    PROVE  Calmer(TableAfterReply(t, r), t)
<1> DEFINE u == Update(t, r.dst, InsertPrecursor(t[r.dst], t[r.origin].nextHop))
<1>1. r.dst \in Node /\ r.origin \in Node /\ t[r.dst] \in Entry /\ t[r.origin] \in Entry
  BY DEF Rreq, Table
<1>2. Calmer(u, t) /\ u \in Table
  BY <1>1, PrecursorCalm DEF Calmer
<1>3. TableAfterReply(t, r) = Update(u, r.origin, InsertPrecursor(t[r.origin], t[r.dst].nextHop))
  BY DEF TableAfterReply
<1> HIDE DEF u
<1>4. QED
  BY <1>1, <1>2, <1>3, PrecursorCalm

\* The precursors noted when a RREP is passed on start no search.
LEMMA RelayTableCalm ==
    ASSUME NEW t \in Table, NEW r \in Rrep, t[r.dst].nextHop \in Node, t[r.origin].nextHop \in Node
    PROVE  Calmer(TableAfterRelay(t, r), t)
<1> DEFINE h == t[r.dst].nextHop
           g == t[r.origin].nextHop
           Add(u, d, a) == Update(u, d, InsertPrecursor(u[d], a))
           t1 == Add(t, r.dst, g)
           t2 == Add(t1, h, g)
           t3 == Update(t2, r.origin, InsertPrecursor(t[r.origin], h))
<1>1. r.dst \in Node /\ r.origin \in Node /\ t[r.origin] \in Entry /\ Calmer(t, t)
  BY DEF Rrep, Table, Calmer
<1>2. ASSUME NEW u \in Table, Calmer(u, t), NEW d \in Node, NEW a \in Node
      PROVE  Add(u, d, a) \in Table /\ Calmer(Add(u, d, a), t)
  <2>1. /\ u[d] \in Entry
        /\ u[d].flag = "IN_SEARCH" => t[d].flag = "IN_SEARCH" /\ u[d].reqCount = t[d].reqCount
    BY <1>2 DEF Table, Calmer
  <2>2. QED
    BY <1>2, <2>1, PrecursorCalm
<1> HIDE DEF Add
<1>3. t1 \in Table /\ Calmer(t1, t)
  BY <1>1, <1>2
<1> HIDE DEF t1
<1>4. t2 \in Table /\ Calmer(t2, t)
  BY <1>2, <1>3
<1> HIDE DEF t2
<1>5. t3 \in Table /\ Calmer(t3, t)
  BY <1>1, <1>4, PrecursorCalm
<1> HIDE DEF t3
<1>6. Calmer(Add(t3, g, h), t)
  BY <1>2, <1>5
<1>7. TableAfterRelay(t, r) = IF LookupValidRoute(t, r.dst) THEN Add(t3, g, h) ELSE t
  BY DEF TableAfterRelay, Add, t1, t2, t3
<1>8. QED
  BY <1>1, <1>6, <1>7

\* Invalidating routes starts no search.
LEMMA InvalidateCalm ==
    ASSUME NEW t \in Table, NEW D
    PROVE  Calmer(InvalidateRoutesWithDst(t, D), t)
<1> DEFINE u == InvalidateRoutesWithDst(t, D)
<1>1. \A d \in Node : u[d] = t[d] \/ (u[d].flag = "INVALID" /\ u[d].reqCount = 0)
  BY DEF InvalidateRoutesWithDst, Invalidate, Table, Entry
<1> HIDE DEF u
<1>2. Tidy(t) => Tidy(u)
  BY <1>1 DEF Tidy
<1>3. Calmer(u, t)
  BY <1>1, <1>2 DEF Calmer
<1>4. QED
  BY <1>3 DEF u

-----------------------------------------------------------------------------
(* Steps that leave timers, deferred calls and searches alone.              *)

\* No timer is touched, no packet joins a queue, no table starts a search.
Quiet ==
    /\ UNCHANGED searchVars
    /\ \A n \in Node : queue'[n] \subseteq queue[n]
    /\ \A n \in Node : Calmer(rt'[n], rt[n])

\* Such a step strands nothing.
LEMMA QuietStep ==
    ASSUME Searches, Quiet
    PROVE  Searches'
<1>1. \A n, d \in Node : Pursued(n, d)' = Pursued(n, d)
  BY DEF Quiet, searchVars, Pursued
<1>2. NoStrandedSearch'
  BY <1>1 DEF Quiet, Searches, NoStrandedSearch, Calmer
<1>3. NoStrandedPacket'
  <2> SUFFICES ASSUME NEW n \in Node, NEW p \in queue'[n]
               PROVE  Pursued(n, p.dst)'
    BY DEF NoStrandedPacket
  <2>1. Pursued(n, p.dst)
    BY DEF Quiet, Searches, NoStrandedPacket
  <2>2. QED
    BY <2>1 DEF Quiet, searchVars, Pursued
<1>4. QED
  BY <1>2, <1>3 DEF Searches

\* It is enough to look at the table of the node that takes the step.
LEMMA QuietAtNode ==
    ASSUME IInv, UNCHANGED <<searchVars, queue>>, NEW n \in Node, NEW u, Calmer(u, rt[n]),
           rt' = [rt EXCEPT ![n] = u]
    PROVE  Quiet
BY DEF IInv, TablesOK, Quiet, Calmer

\* A step that changes no table is quiet.
LEMMA QuietTables ==
    ASSUME UNCHANGED <<searchVars, queue, rt>>
    PROVE  Quiet
BY DEF Quiet, Calmer

\* The table that every handler of a control message starts from.
LEMMA ReceiveCalm ==
    ASSUME IInv, NEW f \in net, NEW type, Receives(f, type)
    PROVE  /\ f.to \in Node /\ f.ip.src \in Node
           /\ TableAfterRecvAodv(f) \in Table
           /\ Calmer(TableAfterRecvAodv(f), rt[f.to])
<1>1. f.to \in Node /\ f.ip.src \in Node /\ rt[f.to] \in Table
  BY ReceiveFacts, NodeFacts DEF Table
<1>2. QED
  BY <1>1, NeighbourCalm DEF TableAfterRecvAodv

\* RREQs.
LEMMA RequestsQuiet ==
    ASSUME IInv, NEW f \in net,
           \/ RecvRequestDuplicate(f) \/ RecvRequestAsDestination(f) \/ RecvRequestLoop(f)
           \/ RecvRequestAsIntermediate(f) \/ RecvRequestRelay(f)
    PROVE  Quiet
<1> DEFINE t == TableAfterRequest(f)
           r == f.ip.body
<1>1. CASE RecvRequestDuplicate(f)
  BY <1>1, ReceiveCalm, QuietAtNode DEF RecvRequestDuplicate
<1>2. CASE ~RecvRequestDuplicate(f)
  <2>1. Receives(f, "RREQ") /\ UNCHANGED <<searchVars, queue>>
    BY <1>2 DEF RecvRequestAsDestination, RecvRequestLoop, RecvRequestAsIntermediate,
                RecvRequestRelay, AcceptRequest
  <2>2. f.to \in Node /\ t \in Table /\ Calmer(t, rt[f.to]) /\ r \in Rreq
    <3>1. f.to \in Node /\ t \in Table /\ r \in Rreq
      BY <2>1, ReceiveFacts, RequestFacts DEF GoodTable
    <3>2. Calmer(t, TableAfterRecvAodv(f))
      BY <2>1, <3>1, ReceiveCalm, RequestTableCalm DEF TableAfterRequest
    <3>3. QED
      BY <2>1, <3>1, <3>2, ReceiveCalm DEF Calmer
  <2>3. CASE RecvRequestAsIntermediate(f)
    <3>1. MayReply(t, r) /\ rt' = [rt EXCEPT ![f.to] = TableAfterReply(t, r)]
      BY <2>3 DEF RecvRequestAsIntermediate
    <3>2. t[r.origin].nextHop \in Node /\ t \in GoodTable(f.to, seqNo)
      BY <2>1, RequestFacts
    <3> HIDE DEF t
    <3>3. t[r.dst].nextHop \in Node
      <4>1. t[r.dst].flag = "VALID" /\ r.dst \in Node
        BY <2>2, <3>1 DEF MayReply, Rreq
      <4>2. QED
        BY <3>2, <4>1 DEF GoodTable, GoodEntry
    <3>4. Calmer(TableAfterReply(t, r), t)
      BY <2>2, <3>2, <3>3, ReplyTableCalm
    <3>5. Calmer(TableAfterReply(t, r), rt[f.to])
      BY <2>2, <3>4 DEF Calmer
    <3>6. QED
      BY <2>1, <2>2, <3>1, <3>5, QuietAtNode
  <2>4. CASE ~RecvRequestAsIntermediate(f)
    <3>1. rt' = [rt EXCEPT ![f.to] = t]
      BY <1>2, <2>4 DEF RecvRequestAsDestination, RecvRequestLoop, RecvRequestRelay
    <3> HIDE DEF t
    <3>2. QED
      BY <2>1, <2>2, <3>1, QuietAtNode
  <2>5. QED
    BY <2>3, <2>4
<1>3. QED
  BY <1>1, <1>2

\* The table of a node that receives a RREP.
LEMMA ReplyCalm ==
    ASSUME IInv, NEW f \in net, Receives(f, "RREP"), NEW t,
           t = InstallReply(TableAfterRecvAodv(f), f.ip.body, f.ip.src)
    PROVE  f.to \in Node /\ t \in Table /\ Calmer(t, rt[f.to])
<1>1. f.to \in Node /\ f.ip.body \in Rrep
  BY ReceiveFacts, ReplyFacts
<1>2. t \in Table /\ Calmer(t, TableAfterRecvAodv(f))
  BY <1>1, ReceiveCalm, InstallReplyCalm
<1>3. QED
  BY <1>1, <1>2, ReceiveCalm DEF Calmer

\* RREPs that do not end a search here.
LEMMA RepliesQuiet ==
    ASSUME IInv, NEW f \in net,
           RecvReplyRejected(f) \/ RecvReplyImpossible(f) \/ RecvReplyRelay(f)
    PROVE  Quiet
<1> DEFINE t == InstallReply(TableAfterRecvAodv(f), f.ip.body, f.ip.src)
           r == f.ip.body
<1>1. Receives(f, "RREP") /\ UNCHANGED <<searchVars, queue>>
  BY DEF RecvReplyRejected, RecvReplyImpossible, RecvReplyRelay, AcceptReply, searchVars
<1>2. f.to \in Node /\ t \in Table /\ Calmer(t, rt[f.to])
  BY <1>1, ReplyCalm
<1>3. CASE RecvReplyRejected(f)
  BY <1>1, <1>3, ReceiveCalm, QuietAtNode DEF RecvReplyRejected
<1>4. CASE RecvReplyImpossible(f)
  BY <1>1, <1>2, <1>4, QuietAtNode DEF RecvReplyImpossible
<1>5. CASE RecvReplyRelay(f)
  <2>1. ~NoWayBack(t, r) /\ rt' = [rt EXCEPT ![f.to] = TableAfterRelay(t, r)]
    BY <1>5 DEF RecvReplyRelay
  <2>2. /\ r \in Rrep /\ r.origin \in Node /\ t \in GoodTable(f.to, seqNo)
        /\ t[r.dst].nextHop \in Node
    BY <1>1, ReplyFacts
  <2> HIDE DEF t
  <2>3. t[r.origin].nextHop \in Node
    <3>1. t[r.origin] \in GoodEntry(f.to, r.origin, seqNo)
      BY <2>2 DEF GoodTable
    <3>2. QED
      BY <2>1, <3>1 DEF NoWayBack, GoodEntry, Entry, Flags
  <2>4. Calmer(TableAfterRelay(t, r), t)
    BY <1>2, <2>2, <2>3, RelayTableCalm
  <2>5. Calmer(TableAfterRelay(t, r), rt[f.to])
    BY <1>2, <2>4 DEF Calmer
  <2>6. QED
    BY <1>1, <1>2, <2>1, <2>5, QuietAtNode
<1>6. QED
  BY <1>3, <1>4, <1>5

\* The link failure handler and RERRs.
LEMMA ReportCalm ==
    ASSUME IInv, NEW n \in Node, NEW t \in Table, Calmer(t, rt[n]), NEW D, NEW frames,
           ReportUnreachable(n, t, D, frames), UNCHANGED <<searchVars, queue>>
    PROVE  Quiet
<1>1. Calmer(InvalidateRoutesWithDst(t, D), rt[n])
  BY InvalidateCalm DEF Calmer
<1>2. rt' = [rt EXCEPT ![n] = InvalidateRoutesWithDst(t, D)]
  BY DEF ReportUnreachable
<1>3. QED
  BY <1>1, <1>2, QuietAtNode

\* The other control messages.
LEMMA OthersQuiet ==
    ASSUME IInv, NEW f \in net,
           \/ ProcessHello(f) \/ RecvReplyAck(f) \/ RecvError(f) \/ RecvVerificationProbe(f)
           \/ \E anomalous \in BOOLEAN : RecvVerificationResponse(f, anomalous)
    PROVE  Quiet
<1> DEFINE t == TableAfterRecvAodv(f)
           r == f.ip.body
<1>1. CASE ProcessHello(f)
  <2>1. Receives(f, "RREP") /\ UNCHANGED <<searchVars, queue>>
    BY <1>1 DEF ProcessHello
  <2>2. /\ f.to \in Node /\ r \in Rrep /\ t \in Table /\ Calmer(t, rt[f.to])
        /\ r.dst \in Node /\ r.dstSeqNo \in Nat /\ t[r.dst] \in Entry
    BY <2>1, ReceiveCalm, ReplyFacts DEF Rrep, Table
  <2>3. HelloEntry(t[r.dst], r) \in Entry /\ HelloEntry(t[r.dst], r).flag = "VALID"
    BY <2>2 DEF HelloEntry, Entry, Flags, Addr
  <2>4. /\ NewEntry(TRUE, r.dstSeqNo, 1, r.dst) \in Entry
        /\ NewEntry(TRUE, r.dstSeqNo, 1, r.dst).flag = "VALID"
    BY <2>2, NewEntryValid
  <2>5. PICK u : rt' = [rt EXCEPT ![f.to] = u] /\
                 \/ u = Update(t, r.dst, HelloEntry(t[r.dst], r))
                 \/ u = AddRoute(t, r.dst, NewEntry(TRUE, r.dstSeqNo, 1, r.dst))
    BY <1>1 DEF ProcessHello
  <2> HIDE DEF t
  <2>6. Calmer(u, rt[f.to])
    BY <2>2, <2>3, <2>4, <2>5, PutCalm
  <2>7. QED
    BY <2>1, <2>2, <2>5, <2>6, QuietAtNode
<1>2. CASE RecvReplyAck(f)
  <2> DEFINE e == [t[f.ip.src] EXCEPT !.flag = "VALID"]
  <2>1. /\ Receives(f, "RREP_ACK") /\ UNCHANGED <<searchVars, queue>>
        /\ rt' = [rt EXCEPT ![f.to] = Update(t, f.ip.src, e)]
    BY <1>2 DEF RecvReplyAck
  <2>2. f.to \in Node /\ f.ip.src \in Node /\ t \in Table /\ Calmer(t, rt[f.to])
    BY <2>1, ReceiveCalm
  <2> HIDE DEF t
  <2>3. e \in Entry /\ e.flag = "VALID"
    BY <2>2 DEF Table, Entry, Flags
  <2> HIDE DEF e
  <2>4. Calmer(Update(t, f.ip.src, e), rt[f.to])
    BY <2>2, <2>3, PutCalm
  <2>5. QED
    BY <2>1, <2>2, <2>4, QuietAtNode
<1>3. CASE RecvError(f)
  <2>1. Receives(f, "RERR") /\ UNCHANGED <<searchVars, queue>>
    BY <1>3 DEF RecvError
  <2>2. f.to \in Node /\ t \in Table /\ Calmer(t, rt[f.to])
    BY <2>1, ReceiveCalm
  <2>3. PICK D : ReportUnreachable(f.to, t, D, net \ {f})
    BY <1>3 DEF RecvError
  <2> HIDE DEF t
  <2>4. QED
    BY <2>1, <2>2, <2>3, ReportCalm
<1>4. CASE RecvVerificationProbe(f) \/ \E anomalous \in BOOLEAN : RecvVerificationResponse(f, anomalous)
  <2>1. /\ Receives(f, "RVERIFY") /\ UNCHANGED <<searchVars, queue>>
        /\ rt' = [rt EXCEPT ![f.to] = t]
    BY <1>4 DEF RecvVerificationProbe, RecvVerificationResponse
  <2>2. QED
    BY <2>1, ReceiveCalm, QuietAtNode
<1>5. QED
  BY <1>1, <1>2, <1>3, <1>4

\* IP packets, apart from those that join a queue.
LEMMA DataQuiet ==
    ASSUME IInv, NEW f \in net,
           \/ RouteInputDrop(f) \/ LocalDeliver(f)
           \/ ForwardPacket(f) \/ ForwardWithoutRoute(f)
    PROVE  Quiet
<1>1. UNCHANGED <<searchVars, queue, rt>>
  BY DEF RouteInputDrop, LocalDeliver, ForwardPacket, ForwardWithoutRoute
<1>2. QED
  BY <1>1, QuietTables

\* The environment.
LEMMA EnvironmentQuiet ==
    ASSUME IInv, Environment
    PROVE  Quiet
<1>1. ASSUME NEW n \in Node, NEW h, NEW frames, CloseNeighbour(n, h, frames)
      PROVE  Quiet
  <2>1. UNCHANGED <<searchVars, queue>> /\ SendRerrWhenBreaksLinkToNextHop(n, h, frames)
    BY <1>1 DEF CloseNeighbour
  <2>2. rt[n] \in Table /\ Calmer(rt[n], rt[n])
    BY NodeFacts DEF Table, Calmer
  <2>3. QED
    BY <2>1, <2>2, ReportCalm, QuietTables DEF SendRerrWhenBreaksLinkToNextHop
<1>2. ASSUME NEW n \in Node, NEW d \in Node, RouteExpire(n, d)
      PROVE  Quiet
  <2> DEFINE u == [rt[n] EXCEPT ![d] = ExpireEntry(@)]
  <2>1. UNCHANGED <<searchVars, queue>> /\ rt' = [rt EXCEPT ![n] = u]
    BY <1>2 DEF RouteExpire
  <2>2. rt[n] \in [Node -> Entry] /\ rt[n][d] \in Entry
    BY NodeFacts
  <2>3. ExpireEntry(rt[n][d]).flag # "IN_SEARCH" /\ ExpireEntry(rt[n][d]).reqCount = 0
    BY <1>2, <2>2 DEF RouteExpire, ExpireEntry, Invalidate, NoEntry, NewEntry, Entry
  <2>4. Calmer(u, rt[n])
    BY <2>2, <2>3 DEF Calmer, Tidy
  <2> HIDE DEF u
  <2>5. QED
    BY <2>1, <2>4, QuietAtNode
<1>3. ASSUME NEW n \in Node, NEW p, QueueExpire(n, p)
      PROVE  Quiet
  BY <1>3 DEF QueueExpire, Quiet, Calmer, IInv, QueuesOK
<1>4. ASSUME NEW n \in Node, NotifyInterfaceDown(n)
      PROVE  Quiet
  <2>1. Calmer(EmptyTable, rt[n])
    BY DEF Calmer, Tidy, EmptyTable, NoEntry, NewEntry
  <2>2. QED
    BY <1>4, <2>1, QuietAtNode DEF NotifyInterfaceDown
<1>5. ASSUME NEW f \in net, LoseFrame(f) \/ NotifyTxError(f)
      PROVE  Quiet
  <2>1. CASE LoseFrame(f)
    BY <2>1, QuietTables DEF LoseFrame
  <2>2. CASE NotifyTxError(f)
    BY <1>1, <2>2, FrameFacts DEF NotifyTxError
  <2>3. QED
    BY <1>5, <2>1, <2>2
<1>6. ASSUME NEW n \in Node, NEW a,
             NeighbourExpire(n, a) \/ SuspectExpire(n, a) \/ NotifyInterfaceUp(n)
      PROVE  Quiet
  <2>1. CASE NeighbourExpire(n, a)
    BY <1>1, <2>1 DEF NeighbourExpire
  <2>2. CASE SuspectExpire(n, a) \/ NotifyInterfaceUp(n)
    BY <2>2, QuietTables DEF SuspectExpire, NotifyInterfaceUp
  <2>3. QED
    BY <1>6, <2>1, <2>2
<1>7. ASSUME NEW l, LinkChange(l)
      PROVE  Quiet
  BY <1>7, QuietTables DEF LinkChange
<1>8. QED
  BY <1>2, <1>3, <1>4, <1>5, <1>6, <1>7 DEF Environment

-----------------------------------------------------------------------------
(* Steps that start, pursue or end a search.                                *)

\* What SendRequest does to the searches, when its caller has changed nothing
\* but the search for d: afterwards the search for d is pursued.
LEMMA SendRequestPursues ==
    ASSUME IInv, Searches, NEW n \in Node, NEW d \in Node, NEW timer, NEW delayed, NEW frames,
           SendRequest(n, d, timer, delayed, frames),
           timer \in [Node -> [Node -> BOOLEAN]],
           delayed \in [Node -> [Node -> Nat]],
           \A m, x \in Node : m # n \/ x # d =>
               timer[m][x] = addressReqTimer[m][x] /\ delayed[m][x] = delayedRequest[m][x],
           \A m \in Node : \A p \in queue'[m] : p \in queue[m] \/ (m = n /\ p.dst = d),
           QueuesOK'
    PROVE  Searches'
<1>1. Pursued(n, d)'
  <2>1. CASE DeferRequest(n, d, delayed)
    BY <2>1 DEF DeferRequest, Pursued
  <2>2. CASE ~DeferRequest(n, d, delayed)
    BY <2>2 DEF SendRequest, ScheduleRreqRetry, Pursued
  <2>3. QED
    BY <2>1, <2>2
<1>2. ASSUME NEW m \in Node, NEW x \in Node, m # n \/ x # d, Pursued(m, x)
      PROVE  Pursued(m, x)'
  BY <1>2 DEF SendRequest, DeferRequest, ScheduleRreqRetry, Pursued
<1>3. ASSUME NEW m \in Node, NEW x \in Node, m # n \/ x # d, rt'[m][x].flag = "IN_SEARCH"
      PROVE  rt[m][x].flag = "IN_SEARCH"
  <2>1. rt \in [Node -> Table] /\ rt[m] \in [Node -> Entry]
    BY DEF IInv, TablesOK, Table
  <2>2. UNCHANGED rt \/ rt' = [rt EXCEPT ![n][d] = SearchEntry(@)]
    BY DEF SendRequest, DeferRequest
  <2>3. rt'[m][x] = rt[m][x]
    BY <1>3, <2>1, <2>2 DEF Table
  <2>4. QED
    BY <1>3, <2>3
<1>4. NoStrandedSearch'
  BY <1>1, <1>2, <1>3 DEF Searches, NoStrandedSearch
<1>5. NoStrandedPacket'
  <2> SUFFICES ASSUME NEW m \in Node, NEW p \in queue'[m]
               PROVE  Pursued(m, p.dst)'
    BY DEF NoStrandedPacket
  <2>1. p.dst \in Node
    BY DEF QueuesOK, GoodWaiting
  <2>2. CASE m = n /\ p.dst = d
    BY <1>1, <2>2
  <2>3. CASE ~(m = n /\ p.dst = d)
    BY <1>2, <2>1, <2>3 DEF Searches, NoStrandedPacket
  <2>4. QED
    BY <2>2, <2>3
<1>6. QED
  BY <1>4, <1>5 DEF Searches

\* A search for d at node n ends, and with it the packets that waited for it.
LEMMA EndOfSearch ==
    ASSUME IInv, Searches, NEW n \in Node, NEW d \in Node, NEW u,
           rt' = [rt EXCEPT ![n] = u], Calmer(u, rt[n]), u[d].flag # "IN_SEARCH",
           queue' = DropPacketWithDst(n, d),
           UNCHANGED delayedRequest,
           \/ UNCHANGED addressReqTimer
           \/ addressReqTimer' = [addressReqTimer EXCEPT ![n][d] = FALSE]
    PROVE  Searches'
<1>1. ASSUME NEW m \in Node, NEW x \in Node, m # n \/ x # d, Pursued(m, x)
      PROVE  Pursued(m, x)'
  <2>1. addressReqTimer \in [Node -> [Node -> BOOLEAN]]
    BY DEF IInv, OtherOK
  <2>2. addressReqTimer'[m][x] = addressReqTimer[m][x]
    BY <1>1, <2>1
  <2>3. QED
    BY <1>1, <2>2 DEF Pursued
<1>2. NoStrandedSearch'
  <2> SUFFICES ASSUME NEW m \in Node, NEW x \in Node, rt'[m][x].flag = "IN_SEARCH"
               PROVE  Pursued(m, x)'
    BY DEF NoStrandedSearch
  <2>1. rt \in [Node -> Table]
    BY DEF IInv, TablesOK
  <2>2. rt[m][x].flag = "IN_SEARCH" /\ (m # n \/ x # d)
    BY <2>1 DEF Calmer
  <2>3. QED
    BY <1>1, <2>2 DEF Searches, NoStrandedSearch
<1>3. NoStrandedPacket'
  <2> SUFFICES ASSUME NEW m \in Node, NEW p \in queue'[m]
               PROVE  Pursued(m, p.dst)'
    BY DEF NoStrandedPacket
  <2>1. p \in queue[m] /\ (m # n \/ p.dst # d)
    BY DEF IInv, QueuesOK, DropPacketWithDst, Waiting
  <2>2. p.dst \in Node
    BY <2>1 DEF IInv, QueuesOK, GoodWaiting
  <2>3. QED
    BY <1>1, <2>1, <2>2 DEF Searches, NoStrandedPacket
<1>4. QED
  BY <1>2, <1>3 DEF Searches

\* The retry timer.
LEMMA RouteRequestTimerPursues ==
    ASSUME IInv, Searches, NEW n \in Node, NEW d \in Node, RouteRequestTimerExpire(n, d)
    PROVE  Searches'
<1>0. IInv'
  BY RouteRequestTimerExpireStep
<1>1. CASE RequestTimerRouteValid(n, d)
  <2>1. /\ UNCHANGED <<rt, delayedRequest>> /\ queue' = DropPacketWithDst(n, d)
        /\ addressReqTimer' = [addressReqTimer EXCEPT ![n][d] = FALSE]
        /\ rt[n][d].flag = "VALID"
    BY <1>1 DEF RequestTimerRouteValid, LookupValidRoute
  <2>2. rt' = [rt EXCEPT ![n] = rt[n]] /\ Calmer(rt[n], rt[n])
    BY <2>1 DEF IInv, TablesOK, Calmer
  <2>3. QED
    BY <2>1, <2>2, EndOfSearch
<1>2. CASE RequestTimerGiveUp(n, d)
  <2>1. /\ UNCHANGED delayedRequest /\ queue' = DropPacketWithDst(n, d)
        /\ addressReqTimer' = [addressReqTimer EXCEPT ![n][d] = FALSE]
        /\ rt' = [rt EXCEPT ![n] = DeleteRoute(rt[n], d)]
    BY <1>2 DEF RequestTimerGiveUp
  <2>2. /\ Calmer(DeleteRoute(rt[n], d), rt[n])
        /\ DeleteRoute(rt[n], d)[d].flag # "IN_SEARCH"
    BY NodeFacts DEF Calmer, Tidy, DeleteRoute, NoEntry, NewEntry
  <2>3. QED
    BY <2>1, <2>2, EndOfSearch
<1>3. CASE RequestTimerRetry(n, d)
  <2> DEFINE timer == [addressReqTimer EXCEPT ![n][d] = FALSE]
  <2>1. SendRequest(n, d, timer, delayedRequest, net) /\ UNCHANGED queue
    BY <1>3 DEF RequestTimerRetry
  <2>2. /\ addressReqTimer \in [Node -> [Node -> BOOLEAN]]
        /\ delayedRequest \in [Node -> [Node -> Nat]]
    BY DEF IInv, OtherOK
  <2>3. /\ timer \in [Node -> [Node -> BOOLEAN]]
        /\ \A m, x \in Node : m # n \/ x # d => timer[m][x] = addressReqTimer[m][x]
    BY <2>2
  <2>4. QueuesOK'
    BY <1>0 DEF IInv
  <2> HIDE DEF timer
  <2>5. QED
    BY <2>1, <2>2, <2>3, <2>4, SendRequestPursues
<1>4. QED
  BY <1>1, <1>2, <1>3 DEF RouteRequestTimerExpire

\* The deferred call of SendRequest.
LEMMA DelayedSendRequestPursues ==
    ASSUME IInv, Searches, NEW n \in Node, NEW d \in Node, DelayedSendRequest(n, d)
    PROVE  Searches'
<1> DEFINE delayed == [delayedRequest EXCEPT ![n][d] = @ - 1]
<1>1. SendRequest(n, d, addressReqTimer, delayed, net) /\ UNCHANGED queue
  BY DEF DelayedSendRequest
<1>2. /\ addressReqTimer \in [Node -> [Node -> BOOLEAN]]
      /\ delayedRequest \in [Node -> [Node -> Nat]]
      /\ delayedRequest[n][d] - 1 \in Nat
  BY DEF IInv, OtherOK, DelayedSendRequest
<1>3. /\ delayed \in [Node -> [Node -> Nat]]
      /\ \A m, x \in Node : m # n \/ x # d => delayed[m][x] = delayedRequest[m][x]
  BY <1>2
<1>4. QueuesOK'
  BY DelayedSendRequestStep DEF IInv
<1> HIDE DEF delayed
<1>5. QED
  BY <1>1, <1>2, <1>3, <1>4, SendRequestPursues

\* A packet joins a queue.
LEMMA DeferredRouteOutputPursues ==
    ASSUME IInv, Searches, NEW f \in net,
           DeferredRouteOutputWait(f) \/ DeferredRouteOutputSearch(f)
    PROVE  Searches'
<1>1. /\ f.to \in Node /\ f.ip.dst \in Node
  BY LoopbackFacts DEF DeferredRouteOutputWait, DeferredRouteOutputSearch
<1>2. QueuesOK'
  BY DeferredRouteOutputStep DEF IInv
<1>3. PICK q \in Enqueue(queue[f.to], f.ip) : queue' = [queue EXCEPT ![f.to] = q]
  BY DEF DeferredRouteOutputWait, DeferredRouteOutputSearch
<1>4. \A m \in Node : \A p \in queue'[m] : p \in queue[m] \/ (m = f.to /\ p = f.ip)
  BY <1>1, <1>3, EnqueueAdds DEF IInv, QueuesOK
<1>5. CASE DeferredRouteOutputWait(f)
  <2>1. UNCHANGED <<rt, addressReqTimer, delayedRequest>>
    BY <1>5 DEF DeferredRouteOutputWait, searchVars
  <2>2. Pursued(f.to, f.ip.dst)
    BY <1>1, <1>5 DEF DeferredRouteOutputWait, Searches, NoStrandedSearch, NoStrandedPacket
  <2>3. NoStrandedSearch'
    BY <2>1 DEF Searches, NoStrandedSearch, Pursued
  <2>4. NoStrandedPacket'
    BY <1>4, <2>1, <2>2 DEF Searches, NoStrandedPacket, Pursued
  <2>5. QED
    BY <2>3, <2>4 DEF Searches
<1>6. CASE DeferredRouteOutputSearch(f)
  <2>1. SendRequest(f.to, f.ip.dst, addressReqTimer, delayedRequest, net \ {f})
    BY <1>6 DEF DeferredRouteOutputSearch
  <2>2. /\ addressReqTimer \in [Node -> [Node -> BOOLEAN]]
        /\ delayedRequest \in [Node -> [Node -> Nat]]
    BY DEF IInv, OtherOK
  <2>3. QED
    BY <1>1, <1>2, <1>4, <2>1, <2>2, SendRequestPursues
<1>7. QED
  BY <1>5, <1>6

\* The table after a RREP for the node itself: the destination is not searched for.
LEMMA RecvReplyAtOriginCalm ==
    ASSUME IInv, NEW f \in net, NEW anomalous \in BOOLEAN, RecvReplyAtOrigin(f, anomalous)
    PROVE  /\ f.to \in Node /\ f.ip.body.dst \in Node /\ UNCHANGED delayedRequest
           /\ \E u : rt' = [rt EXCEPT ![f.to] = u] /\ Calmer(u, rt[f.to])
                      /\ u[f.ip.body.dst].flag # "IN_SEARCH"
<1> DEFINE n == f.to
           r == f.ip.body
           t == TableAfterRecvAodv(f)
           searching == t[r.dst].flag = "IN_SEARCH"
           after == IF searching THEN Update(t, r.dst, ReplyEntry(r, f.ip.src))
                                 ELSE InstallReply(t, r, f.ip.src)
<1>1. /\ Receives(f, "RREP")
      /\ UNCHANGED delayedRequest
      /\ rt' = [rt EXCEPT ![n] = after]
  BY DEF RecvReplyAtOrigin, AcceptReply
<1>2. /\ n \in Node /\ f.ip.src \in Node /\ r \in Rrep /\ r.dst \in Node
      /\ t \in Table /\ Calmer(t, rt[n])
  BY <1>1, ReceiveCalm, ReplyFacts
<1> HIDE DEF t
<1>3. after \in Table /\ Calmer(after, t) /\ after[r.dst].flag # "IN_SEARCH"
  <2>1. CASE ~searching
    <3>1. InstallReply(t, r, f.ip.src) \in Table /\ Calmer(InstallReply(t, r, f.ip.src), t)
      BY <1>2, InstallReplyCalm
    <3>2. QED
      BY <1>2, <2>1, <3>1 DEF Calmer
  <2>2. CASE searching
    <3>0. r.dstSeqNo \in Nat /\ r.hopCount + 1 \in Nat
      BY <1>2 DEF Rrep
    <3>1. ReplyEntry(r, f.ip.src) \in Entry /\ ReplyEntry(r, f.ip.src).flag = "VALID"
      BY <1>2, <3>0, NewEntryValid DEF ReplyEntry
    <3>2. after = [t EXCEPT ![r.dst] = Normalised(ReplyEntry(r, f.ip.src))]
      BY <2>2 DEF Update, Found
    <3>3. Normalised(ReplyEntry(r, f.ip.src)).flag = "VALID"
      BY <3>1 DEF Normalised, Entry
    <3>4. after = Update(t, r.dst, ReplyEntry(r, f.ip.src))
      BY <2>2
    <3>5. Calmer(t, t)
      BY DEF Calmer
    <3>6. after \in Table /\ Calmer(after, t)
      BY <1>2, <3>1, <3>4, <3>5, PutCalm
    <3>7. QED
      BY <1>2, <3>2, <3>3, <3>6 DEF Table
  <2>3. QED
    BY <2>1, <2>2
<1> HIDE DEF after
<1>4. Calmer(after, rt[n])
  BY <1>2, <1>3 DEF Calmer
<1>5. QED
  BY <1>1, <1>2, <1>3, <1>4

\* The RREP that ends a search sends the packets that waited for it.
LEMMA RecvReplyAtOriginPursues ==
    ASSUME IInv, Searches, NEW f \in net, NEW anomalous \in BOOLEAN,
           RecvReplyAtOrigin(f, anomalous)
    PROVE  Searches'
<1> DEFINE n == f.to
           d == f.ip.body.dst
<1>1. /\ n \in Node /\ d \in Node /\ UNCHANGED delayedRequest
      /\ \E u : rt' = [rt EXCEPT ![n] = u] /\ Calmer(u, rt[n]) /\ u[d].flag # "IN_SEARCH"
  BY RecvReplyAtOriginCalm
<1>2. /\ \/ UNCHANGED addressReqTimer
         \/ addressReqTimer' = [addressReqTimer EXCEPT ![n][d] = FALSE]
      /\ queue' = DropPacketWithDst(n, d)
  BY DEF RecvReplyAtOrigin
<1>3. QED
  BY <1>1, <1>2, EndOfSearch

-----------------------------------------------------------------------------
\* Initially nothing waits.
LEMMA InitSearches == Init => Searches
BY DEF Init, Searches, NoStrandedSearch, NoStrandedPacket, EmptyTable, NoEntry, NewEntry

\* Every step keeps searches and packets pursued.
LEMMA NextSearches == IInv /\ Searches /\ [Next]_vars => Searches'
<1> SUFFICES ASSUME IInv, Searches, [Next]_vars
             PROVE  Searches'
  OBVIOUS
<1>1. CASE UNCHANGED vars
  BY <1>1, QuietTables, QuietStep DEF vars, searchVars
<1>2. ASSUME NEW p \in Packets, RouteOutput(p)
      PROVE  Searches'
  BY <1>2, QuietTables, QuietStep DEF RouteOutput
<1>3. ASSUME NEW f \in net, RouteInput(f)
      PROVE  Searches'
  <2>1. CASE RecvAodv(f)
    BY <2>1, RequestsQuiet, RepliesQuiet, OthersQuiet, QuietStep, RecvReplyAtOriginPursues DEF RecvAodv
  <2>2. QED
    BY <1>3, <2>1, DataQuiet, QuietStep, DeferredRouteOutputPursues DEF RouteInput
<1>4. ASSUME NEW n \in Node, Timers(n)
      PROVE  Searches'
  <2>1. CASE RreqRateLimitTimerExpire(n) \/ RerrRateLimitTimerExpire(n) \/ HelloTimerExpire(n)
    BY <2>1, QuietTables, QuietStep DEF RreqRateLimitTimerExpire, RerrRateLimitTimerExpire, HelloTimerExpire
  <2>2. QED
    BY <1>4, <2>1, RouteRequestTimerPursues, DelayedSendRequestPursues DEF Timers
<1>5. CASE Environment
  BY <1>5, EnvironmentQuiet, QuietStep
<1>6. QED
  BY <1>1, <1>2, <1>3, <1>4, <1>5 DEF Next

\* No search is ever left without a timer or a scheduled call, whatever is lost,
\* delayed, rate-limited or reset.
THEOREM NoSearchIsStranded == Spec => []NoStrandedSearch
<1>1. Searches => NoStrandedSearch
  BY DEF Searches
<1>2. QED
  BY <1>1, InitSearches, NextSearches, InvariantHolds, PTL DEF Spec

\* No packet ever waits for a route that nobody looks for.
THEOREM NoPacketIsStranded == Spec => []NoStrandedPacket
<1>1. Searches => NoStrandedPacket
  BY DEF Searches
<1>2. QED
  BY <1>1, InitSearches, NextSearches, InvariantHolds, PTL DEF Spec

-----------------------------------------------------------------------------
(* How a search passes its last retry.                                      *)

\* A search that has used its retries, and is not over yet, has a running
\* retry timer, which will end it.
CountsOK ==
    \A n \in Node :
        /\ Tidy(rt[n])
        /\ \A d \in Node : rt[n][d].flag = "IN_SEARCH" /\ rt[n][d].reqCount = RreqRetries
                             => addressReqTimer[n][d]

\* In this step the search of n for d passes RreqRetries.
Overruns(n, d) ==
    /\ rt[n][d].flag = "IN_SEARCH"
    /\ rt[n][d].reqCount <= RreqRetries
    /\ rt'[n][d].reqCount > RreqRetries

\* What is to be shown of each step.
CountsStep ==
    /\ CountsOK'
    /\ \A n, d \in Node :
          Overruns(n, d) => addressReqTimer[n][d] /\ delayedRequest'[n][d] < delayedRequest[n][d]

\* A calm change of a table brings no search to the limit or past it.
LEMMA CalmCounts ==
    ASSUME IInv, CountsOK, NEW n \in Node, NEW u, Calmer(u, rt[n])
    PROVE  /\ Tidy(u)
           /\ \A d \in Node :
                 /\ u[d].flag = "IN_SEARCH" /\ u[d].reqCount = RreqRetries
                    => rt[n][d].flag = "IN_SEARCH" /\ rt[n][d].reqCount = RreqRetries
                 /\ ~(rt[n][d].reqCount <= RreqRetries /\ u[d].reqCount > RreqRetries)
<1>1. Tidy(u)
  BY DEF Calmer, CountsOK
<1>2. ASSUME NEW d \in Node, rt[n][d].reqCount <= RreqRetries
      PROVE  ~(u[d].reqCount > RreqRetries)
  <2>1. rt[n][d].reqCount \in Nat /\ RreqRetries \in Nat
    BY ParameterAssumption, NodeFacts DEF Entry
  <2>2. u[d].reqCount = rt[n][d].reqCount \/ u[d].reqCount = 0
    BY <1>1 DEF Calmer, Tidy
  <2>3. QED
    BY <1>2, <2>1, <2>2
<1>3. QED
  BY <1>1, <1>2 DEF Calmer

\* Steps that start no search repeat none.
LEMMA QuietCounts ==
    ASSUME IInv, CountsOK, Quiet
    PROVE  CountsStep
<1>1. UNCHANGED addressReqTimer
  BY DEF Quiet, searchVars
<1>2. \A n \in Node : Calmer(rt'[n], rt[n])
  BY DEF Quiet
<1>3. QED
  BY <1>1, <1>2, CalmCounts DEF CountsStep, CountsOK, Overruns

\* Neither do those that end one, and clear its timer.
LEMMA EndCounts ==
    ASSUME IInv, CountsOK, NEW n \in Node, NEW d \in Node, NEW u,
           Calmer(u, rt[n]), u[d].flag # "IN_SEARCH", rt' = [rt EXCEPT ![n] = u],
           \/ UNCHANGED addressReqTimer
           \/ addressReqTimer' = [addressReqTimer EXCEPT ![n][d] = FALSE]
    PROVE  CountsStep
<1>1. /\ \A m \in Node : Calmer(rt'[m], rt[m])
      /\ rt'[n] = u
  BY DEF IInv, TablesOK, Calmer
<1>2. \A m, x \in Node : m # n \/ x # d => addressReqTimer'[m][x] = addressReqTimer[m][x]
  BY DEF IInv, OtherOK
<1>3. ASSUME NEW m \in Node, NEW x \in Node,
             rt'[m][x].flag = "IN_SEARCH", rt'[m][x].reqCount = RreqRetries
      PROVE  addressReqTimer'[m][x]
  <2>1. m # n \/ x # d
    BY <1>1, <1>3
  <2>2. addressReqTimer[m][x]
    BY <1>1, <1>3, CalmCounts DEF CountsOK
  <2>3. QED
    BY <1>2, <2>1, <2>2
<1>4. QED
  BY <1>1, <1>3, CalmCounts DEF CountsStep, CountsOK, Overruns

\* SendRequest.  Its caller leaves the timer of a search at the limit alone, and
\* if there is such a search, has taken a deferred call away.
LEMMA SendRequestCounts ==
    ASSUME IInv, CountsOK, NEW n \in Node, NEW d \in Node,
           NEW timer, NEW delayed, NEW frames, SendRequest(n, d, timer, delayed, frames),
           timer \in [Node -> [Node -> BOOLEAN]],
           \A m, x \in Node : m # n \/ x # d => timer[m][x] = addressReqTimer[m][x],
           rt[n][d].flag = "IN_SEARCH" /\ rt[n][d].reqCount = RreqRetries
              => timer[n][d] /\ delayed[n][d] < delayedRequest[n][d]
    PROVE  CountsStep
<1>0. /\ rt \in [Node -> Table] /\ rt[n] \in [Node -> Entry] /\ rt[n][d] \in Entry
      /\ rt[n][d].reqCount \in Nat /\ RreqRetries \in Nat
      /\ \A m, x \in Node : rt[m][x].reqCount \in Nat
  BY ParameterAssumption DEF IInv, TablesOK, Table, Entry
<1>1. CASE DeferRequest(n, d, delayed)
  <2>1. UNCHANGED rt
    BY <1>1 DEF DeferRequest
  <2>2. CountsOK'
    <3>1. addressReqTimer' = timer
      BY <1>1 DEF SendRequest, DeferRequest
    <3>2. ASSUME NEW m \in Node, NEW x \in Node,
                 rt[m][x].flag = "IN_SEARCH", rt[m][x].reqCount = RreqRetries
          PROVE  timer[m][x]
      BY <3>2 DEF CountsOK
    <3>3. QED
      BY <2>1, <3>1, <3>2 DEF CountsOK
  <2>3. \A m, x \in Node : ~Overruns(m, x)
    BY <1>0, <2>1 DEF Overruns
  <2>4. QED
    BY <2>2, <2>3 DEF CountsStep
<1>2. CASE ~DeferRequest(n, d, delayed)
  <2>1. /\ rt' = [rt EXCEPT ![n][d] = SearchEntry(@)] /\ delayedRequest' = delayed
        /\ addressReqTimer' = [timer EXCEPT ![n][d] = TRUE]
    BY <1>2 DEF SendRequest, ScheduleRreqRetry
  <2>2. /\ rt'[n][d] = SearchEntry(rt[n][d])
        /\ \A m, x \in Node : m # n \/ x # d => rt'[m][x] = rt[m][x]
    BY <1>0, <2>1 DEF Table
  <2>3. /\ addressReqTimer'[n][d]
        /\ \A m, x \in Node : m # n \/ x # d => addressReqTimer'[m][x] = addressReqTimer[m][x]
    BY <2>1
  <2>4. /\ rt'[n][d].flag = "IN_SEARCH"
        /\ rt'[n][d].reqCount \in {rt[n][d].reqCount, rt[n][d].reqCount + 1}
    BY <1>0, <2>2 DEF SearchEntry, Entry
  <2>5. CountsOK'
    <3>1. ASSUME NEW m \in Node
          PROVE  Tidy(rt'[m])
      <4>1. ASSUME NEW x \in Node, rt'[m][x].flag # "IN_SEARCH"
            PROVE  rt'[m][x].reqCount = 0
        BY <2>2, <2>4, <4>1 DEF CountsOK, Tidy
      <4>2. QED
        BY <4>1 DEF Tidy
    <3>2. ASSUME NEW m \in Node, NEW x \in Node,
                 rt'[m][x].flag = "IN_SEARCH", rt'[m][x].reqCount = RreqRetries
          PROVE  addressReqTimer'[m][x]
      BY <2>2, <2>3, <3>2 DEF CountsOK
    <3>3. QED
      BY <3>1, <3>2 DEF CountsOK
  <2>6. ASSUME NEW m \in Node, NEW x \in Node, Overruns(m, x)
        PROVE  addressReqTimer[m][x] /\ delayedRequest'[m][x] < delayedRequest[m][x]
    <3>1. m = n /\ x = d
      BY <1>0, <2>2, <2>6 DEF Overruns
    <3>2. rt[n][d].flag = "IN_SEARCH" /\ rt[n][d].reqCount = RreqRetries
      <4>1. \A p, q, r \in Nat : p <= r /\ q \in {p, p + 1} /\ q > r => p = r
        OBVIOUS
      <4>2. rt'[n][d].reqCount \in Nat
        BY <1>0, <2>4
      <4>3. QED
        BY <1>0, <2>4, <2>6, <3>1, <4>1, <4>2 DEF Overruns
    <3>3. QED
      BY <2>1, <3>1, <3>2 DEF CountsOK
  <2>7. QED
    BY <2>5, <2>6 DEF CountsStep
<1>3. QED
  BY <1>1, <1>2

\* The retry timer counts up to the limit and ends the search there; only the
\* deferred call does not look.
LEMMA TimersCounts ==
    ASSUME IInv, CountsOK, NEW n \in Node, NEW d \in Node,
           RouteRequestTimerExpire(n, d) \/ DelayedSendRequest(n, d)
    PROVE  CountsStep
<1>0. /\ addressReqTimer \in [Node -> [Node -> BOOLEAN]]
      /\ delayedRequest \in [Node -> [Node -> Nat]]
      /\ rt[n] \in [Node -> Entry]
  BY NodeFacts DEF IInv, OtherOK
<1>1. CASE RequestTimerRouteValid(n, d)
  <2>1. /\ UNCHANGED rt /\ rt[n][d].flag = "VALID"
        /\ addressReqTimer' = [addressReqTimer EXCEPT ![n][d] = FALSE]
    BY <1>1 DEF RequestTimerRouteValid, LookupValidRoute
  <2>2. rt' = [rt EXCEPT ![n] = rt[n]] /\ Calmer(rt[n], rt[n])
    BY <2>1 DEF IInv, TablesOK, Calmer
  <2>3. QED
    BY <2>1, <2>2, EndCounts
<1>2. CASE RequestTimerGiveUp(n, d)
  <2>1. /\ rt' = [rt EXCEPT ![n] = DeleteRoute(rt[n], d)]
        /\ addressReqTimer' = [addressReqTimer EXCEPT ![n][d] = FALSE]
    BY <1>2 DEF RequestTimerGiveUp
  <2>2. /\ Calmer(DeleteRoute(rt[n], d), rt[n])
        /\ DeleteRoute(rt[n], d)[d].flag # "IN_SEARCH"
    BY NodeFacts DEF Calmer, Tidy, DeleteRoute, NoEntry, NewEntry
  <2>3. QED
    BY <2>1, <2>2, EndCounts
<1>3. CASE RequestTimerRetry(n, d)
  <2> DEFINE timer == [addressReqTimer EXCEPT ![n][d] = FALSE]
  <2>1. SendRequest(n, d, timer, delayedRequest, net) /\ rt[n][d].reqCount # RreqRetries
    BY <1>3 DEF RequestTimerRetry, SearchIsOver
  <2>2. /\ timer \in [Node -> [Node -> BOOLEAN]]
        /\ \A m, x \in Node : m # n \/ x # d => timer[m][x] = addressReqTimer[m][x]
    BY <1>0
  <2> HIDE DEF timer
  <2>3. QED
    BY <2>1, <2>2, SendRequestCounts
<1>4. CASE DelayedSendRequest(n, d)
  <2> DEFINE delayed == [delayedRequest EXCEPT ![n][d] = @ - 1]
  <2>1. SendRequest(n, d, addressReqTimer, delayed, net)
    BY <1>4 DEF DelayedSendRequest
  <2>2. delayed[n][d] < delayedRequest[n][d]
    BY <1>0
  <2>3. rt[n][d].flag = "IN_SEARCH" /\ rt[n][d].reqCount = RreqRetries => addressReqTimer[n][d]
    BY DEF CountsOK
  <2> HIDE DEF delayed
  <2>4. QED
    BY <1>0, <2>1, <2>2, <2>3, SendRequestCounts
<1>5. QED
  BY <1>1, <1>2, <1>3, <1>4 DEF RouteRequestTimerExpire

\* Every step.
LEMMA NextCounts == IInv /\ CountsOK /\ [Next]_vars => CountsStep
<1> SUFFICES ASSUME IInv, CountsOK, [Next]_vars
             PROVE  CountsStep
  OBVIOUS
<1>1. CASE UNCHANGED vars
  BY <1>1, QuietTables, QuietCounts DEF vars, searchVars
<1>2. ASSUME NEW p \in Packets, RouteOutput(p)
      PROVE  CountsStep
  BY <1>2, QuietTables, QuietCounts DEF RouteOutput
<1>3. ASSUME NEW f \in net, RouteInput(f)
      PROVE  CountsStep
  <2>1. CASE RecvAodv(f) /\ ~\E anomalous \in BOOLEAN : RecvReplyAtOrigin(f, anomalous)
    BY <2>1, RequestsQuiet, RepliesQuiet, OthersQuiet, QuietCounts DEF RecvAodv
  <2>2. ASSUME NEW anomalous \in BOOLEAN, RecvReplyAtOrigin(f, anomalous)
        PROVE  CountsStep
    <3>1. /\ f.to \in Node /\ f.ip.body.dst \in Node
          /\ \E u : rt' = [rt EXCEPT ![f.to] = u] /\ Calmer(u, rt[f.to])
                     /\ u[f.ip.body.dst].flag # "IN_SEARCH"
      BY <2>2, RecvReplyAtOriginCalm
    <3>2. \/ UNCHANGED addressReqTimer
          \/ addressReqTimer' = [addressReqTimer EXCEPT ![f.to][f.ip.body.dst] = FALSE]
      BY <2>2 DEF RecvReplyAtOrigin
    <3>3. QED
      BY <3>1, <3>2, EndCounts
  <2>3. CASE DeferredRouteOutputSearch(f)
    <3>1. /\ f.to \in Node /\ f.ip.dst \in Node /\ rt[f.to][f.ip.dst].flag # "IN_SEARCH"
          /\ SendRequest(f.to, f.ip.dst, addressReqTimer, delayedRequest, net \ {f})
      BY <2>3, LoopbackFacts DEF DeferredRouteOutputSearch
    <3>2. addressReqTimer \in [Node -> [Node -> BOOLEAN]]
      BY DEF IInv, OtherOK
    <3>3. QED
      BY <3>1, <3>2, SendRequestCounts
  <2>4. CASE DeferredRouteOutputWait(f)
    <3>1. UNCHANGED <<rt, addressReqTimer>>
      BY <2>4 DEF DeferredRouteOutputWait, searchVars
    <3>2. \A m \in Node : Calmer(rt[m], rt[m])
      BY DEF Calmer
    <3>3. QED
      BY <3>1, <3>2, CalmCounts DEF CountsStep, CountsOK, Overruns
  <2>5. QED
    BY <1>3, <2>1, <2>2, <2>3, <2>4, DataQuiet, QuietCounts DEF RouteInput
<1>4. ASSUME NEW n \in Node, Timers(n)
      PROVE  CountsStep
  <2>1. CASE RreqRateLimitTimerExpire(n) \/ RerrRateLimitTimerExpire(n) \/ HelloTimerExpire(n)
    BY <2>1, QuietTables, QuietCounts DEF RreqRateLimitTimerExpire, RerrRateLimitTimerExpire, HelloTimerExpire
  <2>2. QED
    BY <1>4, <2>1, TimersCounts DEF Timers
<1>5. CASE Environment
  BY <1>5, EnvironmentQuiet, QuietCounts
<1>6. QED
  BY <1>1, <1>2, <1>3, <1>4, <1>5 DEF Next

\* Initially nothing is searched for.
LEMMA InitCounts == Init => CountsOK
<1> SUFFICES ASSUME Init, NEW n \in Node
             PROVE  /\ Tidy(rt[n])
                    /\ \A d \in Node : rt[n][d].flag # "IN_SEARCH"
  BY DEF CountsOK
<1>1. rt[n] = [d \in Node |-> NoEntry]
  BY DEF Init, EmptyTable
<1>2. NoEntry.reqCount = 0 /\ NoEntry.flag # "IN_SEARCH"
  BY DEF NoEntry, NewEntry
<1>3. QED
  BY <1>1, <1>2 DEF Tidy

\* In every network, the comparison with == in RouteRequestTimerExpire is passed
\* by one step only: a deferred call of SendRequest while the retry timer of the
\* same search runs.
THEOREM OverrunsDeferred == Spec => OverrunsAreDeferred
<1>1. IInv /\ CountsOK /\ [Next]_vars => CountsOK'
  BY NextCounts DEF CountsStep
<1>2. IInv /\ CountsOK /\ [Next]_vars =>
        [\A n, d \in Node :
           /\ rt[n][d].flag = "IN_SEARCH"
           /\ rt[n][d].reqCount <= RreqRetries
           /\ rt'[n][d].reqCount > RreqRetries
           => addressReqTimer[n][d] /\ delayedRequest'[n][d] < delayedRequest[n][d]]_vars
  BY NextCounts DEF CountsStep, Overruns
<1>3. QED
  BY <1>1, <1>2, InitCounts, InvariantHolds, PTL DEF Spec, OverrunsAreDeferred

-----------------------------------------------------------------------------
(* Steps of the tables: which routes may follow which.                      *)

\* A network without the detector suspects and verifies nobody.
DetectorOff ==
    ~EnableRttWormholeDetect => \A n \in Node : suspect[n] = {} /\ underVerification[n] = {}

\* The originators of the RREQs that node n hears of in this step.
NewOrigins(n) == {key[1] : key \in rreqIdCache'[n] \ rreqIdCache[n]}

\* Every table may follow the one before it.
Steady == \A n \in Node : Succeeds(rt'[n], rt[n], suspect[n], NewOrigins(n))

\* Who is suspect or verified changes in the detector only.
LEMMA DetectorStep ==
    ASSUME DetectorOff, UNCHANGED <<suspect, underVerification>>
    PROVE  DetectorOff'
BY DEF DetectorOff

\* A RREP that passes the detector starts a verification only where there is one.
LEMMA AcceptReplyDetector ==
    ASSUME DetectorOff, NEW f \in net, NEW anomalous \in BOOLEAN, AcceptReply(f, anomalous)
    PROVE  DetectorOff'
<1>1. /\ suspect' = suspect
      /\ anomalous => EnableRttWormholeDetect
      /\ ~anomalous => underVerification' = underVerification
  BY DEF AcceptReply, EvaluateRttProbe, IsProbed
<1>2. QED
  BY <1>1 DEF DetectorOff

\* The detector's part of the other control messages.
LEMMA OthersDetector ==
    ASSUME IInv, DetectorOff, NEW f \in net,
           \/ RecvReplyRejected(f)
           \/ \E anomalous \in BOOLEAN : RecvVerificationResponse(f, anomalous)
    PROVE  DetectorOff'
<1> SUFFICES ASSUME ~EnableRttWormholeDetect
             PROVE  \A n \in Node : suspect'[n] = {} /\ underVerification'[n] = {}
  BY DEF DetectorOff
<1>1. \A n \in Node : suspect[n] = {} /\ underVerification[n] = {}
  BY DEF DetectorOff
<1>2. CASE RecvReplyRejected(f)
  BY <1>1, <1>2 DEF RecvReplyRejected, IsProbed, IsSuspect
<1>3. CASE \E anomalous \in BOOLEAN : RecvVerificationResponse(f, anomalous)
  <2>1. PICK anomalous \in BOOLEAN : RecvVerificationResponse(f, anomalous)
    BY <1>3
  <2>2. f.to \in Node
    BY <2>1, ReceiveFacts DEF RecvVerificationResponse
  <2>3. f.ip.src \notin underVerification[f.to]
    BY <1>1, <2>2
  <2>4. suspect' = suspect /\ underVerification' = underVerification
    BY <2>1, <2>3 DEF RecvVerificationResponse
  <2>5. QED
    BY <1>1, <2>4
<1>4. QED
  BY <1>2, <1>3

\* It is enough to look at the table of the node that takes the step.
LEMMA SteadyAtNode ==
    ASSUME IInv, NEW n \in Node, NEW u, Succeeds(u, rt[n], suspect[n], NewOrigins(n)),
           rt' = [rt EXCEPT ![n] = u]
    PROVE  Steady
<1>1. \A m \in Node \ {n} : rt'[m] = rt[m] /\ rt[m] \in Table
  BY DEF IInv, TablesOK
<1>2. rt'[n] = u
  BY DEF IInv, TablesOK
<1>3. \A m \in Node \ {n} : Succeeds(rt'[m], rt[m], suspect[m], NewOrigins(m))
  BY <1>1, SucceedsItself
<1>4. QED
  BY <1>2, <1>3 DEF Steady

\* A step that changes no table is steady.
LEMMA SteadyTables ==
    ASSUME IInv, UNCHANGED rt
    PROVE  Steady
<1>1. \A n \in Node : rt[n] \in Table
  BY DEF IInv, TablesOK
<1>2. QED
  BY <1>1, SucceedsItself DEF Steady

\* The table that every handler of a control message starts from.
LEMMA ReceiveSucceeds ==
    ASSUME IInv, NEW f \in net, NEW type, Receives(f, type)
    PROVE  /\ f.to \in Node /\ f.ip.src \in Node /\ rt[f.to] \in Table
           /\ TableAfterRecvAodv(f) \in Table
           /\ Succeeds(TableAfterRecvAodv(f), rt[f.to], suspect[f.to], NewOrigins(f.to))
<1>1. f.to \in Node /\ f.ip.src \in Node /\ rt[f.to] \in Table
  BY ReceiveFacts, NodeFacts DEF Table
<1>2. QED
  BY <1>1, NeighbourChanges, NeighbourSucceeds DEF TableAfterRecvAodv

\* RREQs: what is new leads to the originator of the RREQ.
LEMMA RequestsSteady ==
    ASSUME IInv, NEW f \in net,
           \/ RecvRequestDuplicate(f) \/ RecvRequestAsDestination(f) \/ RecvRequestLoop(f)
           \/ RecvRequestAsIntermediate(f) \/ RecvRequestRelay(f)
    PROVE  Steady
<1> DEFINE t == TableAfterRequest(f)
           r == f.ip.body
           n == f.to
<1>1. CASE RecvRequestDuplicate(f)
  BY <1>1, ReceiveSucceeds, SteadyAtNode DEF RecvRequestDuplicate
<1>2. CASE ~RecvRequestDuplicate(f)
  <2>1. AcceptRequest(f)
    BY <1>2 DEF RecvRequestAsDestination, RecvRequestLoop, RecvRequestAsIntermediate, RecvRequestRelay
  <2>2. /\ n \in Node /\ f.ip.src \in Node /\ rt[n] \in Table /\ r \in Rreq
        /\ t \in GoodTable(n, seqNo) /\ t[r.origin].nextHop \in Node
    BY <2>1, ReceiveSucceeds, RequestFacts DEF AcceptRequest
  <2>3. r.origin \in NewOrigins(n)
    <3>1. rreqIdCache'[n] = rreqIdCache[n] \cup {RequestKey(r)} /\ RequestKey(r) \notin rreqIdCache[n]
      BY <2>1, <2>2 DEF AcceptRequest, IInv, OtherOK
    <3>2. RequestKey(r) \in rreqIdCache'[n] \ rreqIdCache[n] /\ RequestKey(r)[1] = r.origin
      BY <3>1 DEF RequestKey
    <3>3. QED
      BY <3>2 DEF NewOrigins
  <2>4. t \in Table /\ Succeeds(t, rt[n], suspect[n], NewOrigins(n))
    BY <2>2, <2>3, RequestSucceeds DEF TableAfterRequest, TableAfterRecvAodv
  <2>5. CASE RecvRequestAsIntermediate(f)
    <3>1. MayReply(t, r) /\ rt' = [rt EXCEPT ![n] = TableAfterReply(t, r)]
      BY <2>5 DEF RecvRequestAsIntermediate
    <3> HIDE DEF t
    <3>2. t[r.dst].nextHop \in Node
      <4>1. t[r.dst].flag = "VALID" /\ r.dst \in Node
        BY <2>2, <3>1 DEF MayReply, Rreq
      <4>2. QED
        BY <2>2, <4>1 DEF GoodTable, GoodEntry
    <3>3. SameRoutes(TableAfterReply(t, r), t)
      BY <2>2, <2>4, <3>2, ReplyTableSame
    <3>4. Succeeds(TableAfterReply(t, r), rt[n], suspect[n], NewOrigins(n))
      BY <2>4, <3>3, SameRoutesSucceed
    <3>5. QED
      BY <2>2, <3>1, <3>4, SteadyAtNode
  <2>6. CASE ~RecvRequestAsIntermediate(f)
    <3>1. rt' = [rt EXCEPT ![n] = t]
      BY <1>2, <2>6 DEF RecvRequestAsDestination, RecvRequestLoop, RecvRequestRelay
    <3> HIDE DEF t
    <3>2. QED
      BY <2>2, <2>4, <3>1, SteadyAtNode
  <2>7. QED
    BY <2>5, <2>6
<1>3. QED
  BY <1>1, <1>2

\* RREPs: their routes lead through the sender, which the node does not suspect.
LEMMA RepliesSteady ==
    ASSUME IInv, DetectorOff, NEW f \in net,
           \/ RecvReplyRejected(f) \/ RecvReplyImpossible(f) \/ RecvReplyRelay(f)
           \/ \E anomalous \in BOOLEAN : RecvReplyAtOrigin(f, anomalous)
    PROVE  Steady
<1> DEFINE t == TableAfterRecvAodv(f)
           r == f.ip.body
           n == f.to
           u == InstallReply(t, r, f.ip.src)
<1>1. CASE RecvReplyRejected(f)
  BY <1>1, ReceiveSucceeds, SteadyAtNode DEF RecvReplyRejected
<1>2. CASE ~RecvReplyRejected(f)
  <2>1. /\ Receives(f, "RREP") /\ ~IsSuspect(n, f.ip.src)
    BY <1>2 DEF RecvReplyImpossible, RecvReplyRelay, RecvReplyAtOrigin, AcceptReply
  <2>2. n \in Node /\ f.ip.src \in Node /\ rt[n] \in Table /\ r \in Rrep
    BY <2>1, ReceiveSucceeds, ReplyFacts
  <2>3. f.ip.src \notin suspect[n]
    BY <2>1, <2>2 DEF IsSuspect, DetectorOff
  <2>4. t = UpdateRouteToNeighbor(rt[n], f.ip.src)
    BY DEF TableAfterRecvAodv
  <2>5. u \in Table /\ Succeeds(u, rt[n], suspect[n], NewOrigins(n))
    BY <2>2, <2>3, <2>4, ReplySucceeds
  <2>6. CASE RecvReplyImpossible(f)
    BY <2>2, <2>5, <2>6, SteadyAtNode DEF RecvReplyImpossible
  <2>7. CASE RecvReplyRelay(f)
    <3>1. ~NoWayBack(u, r) /\ rt' = [rt EXCEPT ![n] = TableAfterRelay(u, r)]
      BY <2>7 DEF RecvReplyRelay
    <3>2. r.origin \in Node /\ u \in GoodTable(n, seqNo) /\ u[r.dst].nextHop \in Node
      BY <2>1, ReplyFacts
    <3> HIDE DEF u
    <3>3. u[r.origin].nextHop \in Node
      <4>1. u[r.origin] \in GoodEntry(n, r.origin, seqNo)
        BY <3>2 DEF GoodTable
      <4>2. QED
        BY <3>1, <4>1 DEF NoWayBack, GoodEntry, Entry, Flags
    <3>4. SameRoutes(TableAfterRelay(u, r), u)
      BY <2>2, <2>5, <3>2, <3>3, RelayTableSame
    <3>5. Succeeds(TableAfterRelay(u, r), rt[n], suspect[n], NewOrigins(n))
      BY <2>5, <3>4, SameRoutesSucceed
    <3>6. QED
      BY <2>2, <3>1, <3>5, SteadyAtNode
  <2>8. CASE \E anomalous \in BOOLEAN : RecvReplyAtOrigin(f, anomalous)
    <3> DEFINE v == IF t[r.dst].flag = "IN_SEARCH" THEN Update(t, r.dst, ReplyEntry(r, f.ip.src)) ELSE u
    <3>1. rt' = [rt EXCEPT ![n] = v]
      BY <2>8 DEF RecvReplyAtOrigin
    <3>2. Succeeds(v, rt[n], suspect[n], NewOrigins(n))
      BY <2>2, <2>3, <2>4, <2>5, ReplySucceeds
    <3> HIDE DEF v
    <3>3. QED
      BY <2>2, <3>1, <3>2, SteadyAtNode
  <2>9. QED
    BY <1>2, <2>6, <2>7, <2>8
<1>3. QED
  BY <1>1, <1>2

\* The link failure handler and RERRs.
LEMMA ReportSteady ==
    ASSUME IInv, NEW n \in Node, NEW t \in Table, Succeeds(t, rt[n], suspect[n], NewOrigins(n)),
           NEW X, NEW frames, ReportUnreachable(n, t, X, frames)
    PROVE  Steady
<1>1. Succeeds(InvalidateRoutesWithDst(t, X), rt[n], suspect[n], NewOrigins(n))
  BY InvalidateSucceeds
<1>2. rt' = [rt EXCEPT ![n] = InvalidateRoutesWithDst(t, X)]
  BY DEF ReportUnreachable
<1>3. QED
  BY <1>1, <1>2, SteadyAtNode

\* The other control messages.
LEMMA OthersSteady ==
    ASSUME IInv, NEW f \in net,
           \/ ProcessHello(f) \/ RecvReplyAck(f) \/ RecvError(f) \/ RecvVerificationProbe(f)
           \/ \E anomalous \in BOOLEAN : RecvVerificationResponse(f, anomalous)
    PROVE  Steady
<1> DEFINE t == TableAfterRecvAodv(f)
           r == f.ip.body
           n == f.to
<1>0. t = UpdateRouteToNeighbor(rt[n], f.ip.src)
  BY DEF TableAfterRecvAodv
<1>1. CASE ProcessHello(f)
  <2>1. Receives(f, "RREP") /\ r.dst = r.origin
    BY <1>1 DEF ProcessHello
  <2>2. n \in Node /\ r \in Rrep /\ rt[n] \in Table /\ f.ip.src = r.dst
    BY <2>1, ReceiveSucceeds, ReplyFacts DEF GoodRrep
  <2>3. PICK u : rt' = [rt EXCEPT ![n] = u] /\
                 \/ u = Update(t, r.dst, HelloEntry(t[r.dst], r))
                 \/ u = AddRoute(t, r.dst, NewEntry(TRUE, r.dstSeqNo, 1, r.dst))
    BY <1>1 DEF ProcessHello
  <2> HIDE DEF t
  <2>4. Succeeds(u, rt[n], suspect[n], NewOrigins(n))
    BY <1>0, <2>2, <2>3, HelloSucceeds
  <2>5. QED
    BY <2>2, <2>3, <2>4, SteadyAtNode
<1>2. CASE RecvReplyAck(f)
  <2> DEFINE u == Update(t, f.ip.src, [t[f.ip.src] EXCEPT !.flag = "VALID"])
  <2>1. Receives(f, "RREP_ACK") /\ rt' = [rt EXCEPT ![n] = u]
    BY <1>2 DEF RecvReplyAck
  <2>2. n \in Node /\ f.ip.src \in Node \ {n} /\ rt[n] \in GoodTable(n, seqNo) /\ seqNo \in SeqNos
    BY <2>1, ReceiveFacts, NodeFacts
  <2> HIDE DEF t
  <2>3. Succeeds(u, rt[n], suspect[n], NewOrigins(n))
    BY <1>0, <2>2, AckSucceeds
  <2> HIDE DEF u
  <2>4. QED
    BY <2>1, <2>2, <2>3, SteadyAtNode
<1>3. CASE RecvError(f)
  <2>1. Receives(f, "RERR")
    BY <1>3 DEF RecvError
  <2>2. n \in Node /\ t \in Table /\ Succeeds(t, rt[n], suspect[n], NewOrigins(n))
    BY <2>1, ReceiveSucceeds
  <2>3. PICK X : ReportUnreachable(n, t, X, net \ {f})
    BY <1>3 DEF RecvError
  <2> HIDE DEF t
  <2>4. QED
    BY <2>2, <2>3, ReportSteady
<1>4. CASE RecvVerificationProbe(f) \/ \E anomalous \in BOOLEAN : RecvVerificationResponse(f, anomalous)
  <2>1. Receives(f, "RVERIFY") /\ rt' = [rt EXCEPT ![n] = t]
    BY <1>4 DEF RecvVerificationProbe, RecvVerificationResponse
  <2>2. QED
    BY <2>1, ReceiveSucceeds, SteadyAtNode
<1>5. QED
  BY <1>1, <1>2, <1>3, <1>4

\* A table with an entry replaced by one that is not VALID.
LEMMA UnusedEntrySteady ==
    ASSUME IInv, NEW n \in Node, NEW d \in Node, NEW e, e.flag # "VALID" \/ e = rt[n][d],
           rt' = [rt EXCEPT ![n] = [rt[n] EXCEPT ![d] = e]]
    PROVE  Steady
<1> DEFINE u == [rt[n] EXCEPT ![d] = e]
<1>1. rt[n] \in Table /\ rt[n] \in [Node -> Entry]
  BY NodeFacts DEF Table
<1>2. \A x \in Node : u[x] = rt[n][x] \/ u[x].flag # "VALID"
  BY <1>1
<1> HIDE DEF u
<1>3. Succeeds(u, rt[n], suspect[n], NewOrigins(n))
  BY <1>1, <1>2, UnusedSucceeds
<1>4. rt' = [rt EXCEPT ![n] = u]
  BY DEF u
<1>5. QED
  BY <1>3, <1>4, SteadyAtNode

\* SendRequest.
LEMMA SendRequestSteady ==
    ASSUME IInv, NEW n \in Node, NEW d \in Node, NEW timer, NEW delayed, NEW frames,
           SendRequest(n, d, timer, delayed, frames)
    PROVE  Steady
<1>1. CASE UNCHANGED rt
  BY <1>1, SteadyTables
<1>2. CASE rt' = [rt EXCEPT ![n][d] = SearchEntry(@)]
  <2>1. rt[n][d] \in Entry
    BY NodeFacts
  <2>2. SearchEntry(rt[n][d]).flag = "IN_SEARCH"
    BY <2>1 DEF SearchEntry, Entry
  <2>3. rt' = [rt EXCEPT ![n] = [rt[n] EXCEPT ![d] = SearchEntry(rt[n][d])]]
    BY <1>2
  <2>4. QED
    BY <2>2, <2>3, UnusedEntrySteady
<1>3. QED
  BY <1>1, <1>2 DEF SendRequest, DeferRequest

\* The timers.
LEMMA TimersSteady ==
    ASSUME IInv, NEW n \in Node, Timers(n)
    PROVE  Steady
<1>1. ASSUME NEW d \in Node, RouteRequestTimerExpire(n, d)
      PROVE  Steady
  <2>1. CASE RequestTimerRouteValid(n, d)
    BY <2>1, SteadyTables DEF RequestTimerRouteValid
  <2>2. CASE RequestTimerGiveUp(n, d)
    <3>1. rt' = [rt EXCEPT ![n] = [rt[n] EXCEPT ![d] = NoEntry]]
      BY <2>2 DEF RequestTimerGiveUp, DeleteRoute
    <3>2. NoEntry.flag # "VALID"
      BY DEF NoEntry, NewEntry
    <3>3. QED
      BY <3>1, <3>2, UnusedEntrySteady
  <2>3. CASE RequestTimerRetry(n, d)
    BY <2>3, SendRequestSteady DEF RequestTimerRetry
  <2>4. QED
    BY <1>1, <2>1, <2>2, <2>3 DEF RouteRequestTimerExpire
<1>2. ASSUME NEW d \in Node, DelayedSendRequest(n, d)
      PROVE  Steady
  BY <1>2, SendRequestSteady DEF DelayedSendRequest
<1>3. CASE RreqRateLimitTimerExpire(n) \/ RerrRateLimitTimerExpire(n) \/ HelloTimerExpire(n)
  BY <1>3, SteadyTables DEF RreqRateLimitTimerExpire, RerrRateLimitTimerExpire, HelloTimerExpire
<1>4. QED
  BY <1>1, <1>2, <1>3 DEF Timers

\* The environment.
LEMMA EnvironmentSteady ==
    ASSUME IInv, Environment
    PROVE  Steady
<1>1. ASSUME NEW n \in Node, NEW h, NEW frames, CloseNeighbour(n, h, frames)
      PROVE  Steady
  <2>1. SendRerrWhenBreaksLinkToNextHop(n, h, frames)
    BY <1>1 DEF CloseNeighbour
  <2>2. rt[n] \in Table /\ Succeeds(rt[n], rt[n], suspect[n], NewOrigins(n))
    BY NodeFacts, SucceedsItself DEF Table
  <2>3. QED
    BY <2>1, <2>2, ReportSteady, SteadyTables DEF SendRerrWhenBreaksLinkToNextHop
<1>2. ASSUME NEW n \in Node, NEW d \in Node, RouteExpire(n, d)
      PROVE  Steady
  <2>1. rt' = [rt EXCEPT ![n] = [rt[n] EXCEPT ![d] = ExpireEntry(rt[n][d])]]
    BY <1>2 DEF RouteExpire
  <2>2. rt[n][d] \in Entry
    BY NodeFacts
  <2>3. ExpireEntry(rt[n][d]).flag # "VALID"
    BY <2>2 DEF ExpireEntry, Invalidate, NoEntry, NewEntry, Entry
  <2>4. QED
    BY <2>1, <2>3, UnusedEntrySteady
<1>3. ASSUME NEW n \in Node, NotifyInterfaceDown(n)
      PROVE  Steady
  <2>1. rt[n] \in Table
    BY NodeFacts DEF Table
  <2>2. \A d \in Node : EmptyTable[d].flag # "VALID"
    BY DEF EmptyTable, NoEntry, NewEntry
  <2>3. Succeeds(EmptyTable, rt[n], suspect[n], NewOrigins(n))
    BY <2>1, <2>2, UnusedSucceeds
  <2>4. QED
    BY <1>3, <2>3, SteadyAtNode DEF NotifyInterfaceDown
<1>4. ASSUME NEW f \in net, LoseFrame(f) \/ NotifyTxError(f)
      PROVE  Steady
  <2>1. CASE LoseFrame(f)
    BY <2>1, SteadyTables DEF LoseFrame
  <2>2. CASE NotifyTxError(f)
    BY <1>1, <2>2, FrameFacts DEF NotifyTxError
  <2>3. QED
    BY <1>4, <2>1, <2>2
<1>5. ASSUME NEW n \in Node, NEW a,
             NeighbourExpire(n, a) \/ QueueExpire(n, a) \/ SuspectExpire(n, a) \/ NotifyInterfaceUp(n)
      PROVE  Steady
  <2>1. CASE NeighbourExpire(n, a)
    BY <1>1, <2>1 DEF NeighbourExpire
  <2>2. CASE QueueExpire(n, a) \/ SuspectExpire(n, a) \/ NotifyInterfaceUp(n)
    BY <2>2, SteadyTables DEF QueueExpire, SuspectExpire, NotifyInterfaceUp
  <2>3. QED
    BY <1>5, <2>1, <2>2
<1>6. ASSUME NEW l, LinkChange(l)
      PROVE  Steady
  BY <1>6, SteadyTables DEF LinkChange
<1>7. QED
  BY <1>2, <1>3, <1>4, <1>5, <1>6 DEF Environment

\* Every step of the network is steady.
LEMMA NextSteady == IInv /\ DetectorOff /\ [Next]_vars => Steady
<1> SUFFICES ASSUME IInv, DetectorOff, [Next]_vars
             PROVE  Steady
  OBVIOUS
<1>1. CASE UNCHANGED vars
  BY <1>1, SteadyTables DEF vars
<1>2. ASSUME NEW p \in Packets, RouteOutput(p)
      PROVE  Steady
  BY <1>2, SteadyTables DEF RouteOutput
<1>3. ASSUME NEW f \in net, RouteInput(f)
      PROVE  Steady
  <2>1. CASE RecvAodv(f)
    BY <2>1, RequestsSteady, RepliesSteady, OthersSteady DEF RecvAodv
  <2>2. CASE DeferredRouteOutputWait(f) \/ RouteInputDrop(f) \/ LocalDeliver(f) \/ ForwardPacket(f)
             \/ ForwardWithoutRoute(f)
    BY <2>2, SteadyTables DEF DeferredRouteOutputWait, RouteInputDrop, LocalDeliver, ForwardPacket,
                              ForwardWithoutRoute
  <2>3. CASE DeferredRouteOutputSearch(f)
    <3>1. f.to \in Node /\ f.ip.dst \in Node
      BY <2>3, LoopbackFacts DEF DeferredRouteOutputSearch
    <3>2. QED
      BY <2>3, <3>1, SendRequestSteady DEF DeferredRouteOutputSearch
  <2>4. QED
    BY <1>3, <2>1, <2>2, <2>3 DEF RouteInput
<1>4. QED
  BY <1>1, <1>2, <1>3, TimersSteady, EnvironmentSteady DEF Next

\* Without the detector nobody ever becomes suspect.
LEMMA NextDetectorOff == IInv /\ DetectorOff /\ [Next]_vars => DetectorOff'
<1> SUFFICES ASSUME IInv, DetectorOff, [Next]_vars
             PROVE  DetectorOff'
  OBVIOUS
<1>1. CASE UNCHANGED vars
  BY <1>1, DetectorStep DEF vars
<1>2. ASSUME NEW p \in Packets, RouteOutput(p)
      PROVE  DetectorOff'
  BY <1>2, DetectorStep DEF RouteOutput, detectorVars
<1>3. ASSUME NEW f \in net, RouteInput(f)
      PROVE  DetectorOff'
  <2>1. CASE RecvAodv(f)
    <3>1. CASE \/ RecvRequestDuplicate(f) \/ RecvRequestAsDestination(f) \/ RecvRequestLoop(f)
               \/ RecvRequestAsIntermediate(f) \/ RecvRequestRelay(f)
      BY <3>1, DetectorStep DEF RecvRequestDuplicate, RecvRequestAsDestination, RecvRequestLoop,
                                RecvRequestAsIntermediate, RecvRequestRelay, AcceptRequest, detectorVars
    <3>2. CASE \/ RecvReplyImpossible(f) \/ RecvReplyRelay(f)
               \/ \E anomalous \in BOOLEAN : RecvReplyAtOrigin(f, anomalous)
      BY <3>2, AcceptReplyDetector DEF RecvReplyImpossible, RecvReplyRelay, RecvReplyAtOrigin
    <3>3. CASE RecvReplyRejected(f) \/ \E anomalous \in BOOLEAN : RecvVerificationResponse(f, anomalous)
      BY <3>3, OthersDetector
    <3>4. CASE ProcessHello(f) \/ RecvReplyAck(f) \/ RecvError(f) \/ RecvVerificationProbe(f)
      BY <3>4, DetectorStep DEF ProcessHello, RecvReplyAck, RecvError, RecvVerificationProbe, detectorVars
    <3>5. QED
      BY <2>1, <3>1, <3>2, <3>3, <3>4 DEF RecvAodv
  <2>2. CASE \/ DeferredRouteOutputWait(f) \/ DeferredRouteOutputSearch(f) \/ RouteInputDrop(f)
             \/ LocalDeliver(f) \/ ForwardPacket(f) \/ ForwardWithoutRoute(f)
    BY <2>2, DetectorStep DEF DeferredRouteOutputWait, DeferredRouteOutputSearch, RouteInputDrop,
                              LocalDeliver, ForwardPacket, ForwardWithoutRoute, detectorVars
  <2>3. QED
    BY <1>3, <2>1, <2>2 DEF RouteInput
<1>4. ASSUME NEW n \in Node, Timers(n)
      PROVE  DetectorOff'
  <2>1. ASSUME NEW d \in Node, RouteRequestTimerExpire(n, d) \/ DelayedSendRequest(n, d)
        PROVE  DetectorOff'
    BY <2>1, DetectorStep DEF RouteRequestTimerExpire, RequestTimerRouteValid, RequestTimerGiveUp,
                              RequestTimerRetry, DelayedSendRequest, detectorVars
  <2>2. CASE RreqRateLimitTimerExpire(n) \/ RerrRateLimitTimerExpire(n) \/ HelloTimerExpire(n)
    BY <2>2, DetectorStep DEF RreqRateLimitTimerExpire, RerrRateLimitTimerExpire, HelloTimerExpire,
                              detectorVars
  <2>3. QED
    BY <1>4, <2>1, <2>2 DEF Timers
<1>5. CASE Environment
  <2>1. CASE UNCHANGED <<suspect, underVerification>>
    BY <2>1, DetectorStep
  <2>2. CASE \E n \in Node : \E a \in suspect[n] : SuspectExpire(n, a)
    <3>1. PICK n \in Node : \E a \in suspect[n] : SuspectExpire(n, a)
      BY <2>2
    <3>2. suspect \in [Node -> SUBSET Node]
      BY DEF IInv, OtherOK
    <3>3. \A m \in Node : suspect'[m] \subseteq suspect[m] /\ underVerification' = underVerification
      BY <3>1, <3>2 DEF SuspectExpire
    <3>4. QED
      BY <3>3 DEF DetectorOff
  <2>3. QED
    BY <1>5, <2>1, <2>2 DEF Environment, LoseFrame, NotifyTxError, NeighbourExpire, CloseNeighbour,
                            RouteExpire, QueueExpire, NotifyInterfaceDown, NotifyInterfaceUp,
                            LinkChange, detectorVars
<1>6. QED
  BY <1>1, <1>2, <1>3, <1>4, <1>5 DEF Next

\* While a route with a known number stays usable, no RREQ or RREP that comes late
\* or is relayed replaces it by one with an older number, in any network and with
\* any delays; only what the destination itself sends is not compared.
THEOREM RoutesStayFresh == Spec => FreshRoutesStayFresh
<1>1. Init => DetectorOff
  BY DEF Init, DetectorOff
<1>2. Steady => \A n, d \in Node :
                    LET e == rt[n][d]
                        new == rt'[n][d]
                    IN  {e.flag, new.flag} = {"VALID"} /\ e.validSeqNo /\ new.validSeqNo
                        => new.seqNo >= e.seqNo \/ new.nextHop = d
  <2> SUFFICES ASSUME Steady, NEW n \in Node, NEW d \in Node,
                      {rt[n][d].flag, rt'[n][d].flag} = {"VALID"},
                      rt[n][d].validSeqNo, rt'[n][d].validSeqNo
               PROVE  rt'[n][d].seqNo >= rt[n][d].seqNo \/ rt'[n][d].nextHop = d
    OBVIOUS
  <2>1. rt[n][d].flag = "VALID" /\ rt'[n][d].flag = "VALID"
    OBVIOUS
  <2>2. NoOlder(rt'[n][d], rt[n][d], d)
    BY DEF Steady, Succeeds
  <2>3. QED
    BY <2>1, <2>2 DEF NoOlder
<1>3. QED
  BY <1>1, <1>2, NextSteady, NextDetectorOff, InvariantHolds, PTL DEF Spec, FreshRoutesStayFresh

\* A node takes no new route to others through a neighbour that it suspects,
\* whoever relays RREPs for it and whenever they come, except the reverse route to
\* the originator of a RREQ it has not seen.
THEOREM SuspectsAreAvoided == Spec => SuspectsGainNoRoutes
<1>1. Init => DetectorOff
  BY DEF Init, DetectorOff
<1>2. Steady => \A n, s, d \in Node :
                    LET Via(t) == LookupValidRoute(t, d) /\ t[d].nextHop = s
                    IN  s \in suspect[n] \ {d} /\ Via(rt'[n]) /\ ~Via(rt[n])
                        => \E key \in rreqIdCache'[n] \ rreqIdCache[n] : key[1] = d
  <2> SUFFICES ASSUME Steady, NEW n \in Node, NEW s \in Node, NEW d \in Node, s \in suspect[n] \ {d},
                      LookupValidRoute(rt'[n], d), rt'[n][d].nextHop = s,
                      ~(LookupValidRoute(rt[n], d) /\ rt[n][d].nextHop = s)
               PROVE  \E key \in rreqIdCache'[n] \ rreqIdCache[n] : key[1] = d
    OBVIOUS
  <2>1. d \in NewOrigins(n) \/ NoNewHop(rt'[n][d], rt[n][d], d, suspect[n])
    BY DEF Steady, Succeeds
  <2>2. d \in NewOrigins(n)
    BY <2>1 DEF NoNewHop, LookupValidRoute
  <2>3. QED
    BY <2>2 DEF NewOrigins
<1>3. QED
  BY <1>1, <1>2, NextSteady, NextDetectorOff, InvariantHolds, PTL DEF Spec, SuspectsGainNoRoutes
=============================================================================
