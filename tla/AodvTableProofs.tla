--------------------------- MODULE AodvTableProofs --------------------------
(***************************************************************************)
(* What the operations on routing tables preserve.                         *)
(***************************************************************************)
EXTENDS AodvControl, TLAPS

\* What is true of the entry of node n for destination d when the sequence
\* numbers of the nodes are s.  An entry in search may have no next hop, but
\* only as long as its sequence number is not valid.
GoodEntry(n, d, s) ==
    {e \in Entry :
        /\ e.flag \in {"VALID", "INVALID"} \/ e.validSeqNo =>
             /\ e.nextHop \in Node \ {n}
             /\ e.hop >= 1
             /\ e.hop = 1 => e.nextHop = d
        /\ e.validSeqNo => e.flag # "NONE" /\ e.seqNo <= s[d]
        /\ n \notin e.precursors}

\* The same for a whole table of node n.
GoodTable(n, s) == {t \in Table : \A d \in Node : t[d] \in GoodEntry(n, d, s)}

\* Assignments of sequence numbers to the nodes.
SeqNos == [Node -> Nat]

\* A new entry that leads to h is good, if a route of one hop leads to its
\* destination and a valid sequence number is not ahead.
LEMMA NewEntryGood ==
    ASSUME NEW n \in Node, NEW d \in Node, NEW s \in SeqNos,
           NEW v \in BOOLEAN, NEW q \in Nat, NEW k \in Nat \ {0}, NEW h \in Node \ {n},
           v => q <= s[d],
           k = 1 => h = d
    PROVE  NewEntry(v, q, k, h) \in GoodEntry(n, d, s)
BY DEF NewEntry, GoodEntry, Entry, Flags, Addr

\* A destination without an entry satisfies the invariant of entries.
LEMMA NoEntryGood ==
    ASSUME NEW n \in Node, NEW d \in Node, NEW s \in SeqNos
    PROVE  NoEntry \in GoodEntry(n, d, s)
BY DEF NoEntry, NewEntry, GoodEntry, Entry, Flags, Addr

\* Resetting the count of RREQs, as AddRoute and Update do, keeps an entry good.
LEMMA NormalisedGood ==
    ASSUME NEW n \in Node, NEW d \in Node, NEW s \in SeqNos, NEW e \in GoodEntry(n, d, s)
    PROVE  Normalised(e) \in GoodEntry(n, d, s)
BY DEF Normalised, GoodEntry, Entry

\* AddRoute, Update and DeleteRoute keep a table good when the entry is good.
LEMMA PutGood ==
    ASSUME NEW n \in Node, NEW d \in Node, NEW s \in SeqNos,
           NEW t \in GoodTable(n, s), NEW e \in GoodEntry(n, d, s)
    PROVE  /\ AddRoute(t, d, e) \in GoodTable(n, s)
           /\ Update(t, d, e) \in GoodTable(n, s)
           /\ [t EXCEPT ![d] = e] \in GoodTable(n, s)
           /\ DeleteRoute(t, d) \in GoodTable(n, s)
<1>1. Normalised(e) \in GoodEntry(n, d, s) /\ NoEntry \in GoodEntry(n, d, s)
  BY NormalisedGood, NoEntryGood
<1>2. \A x \in GoodEntry(n, d, s) : [t EXCEPT ![d] = x] \in GoodTable(n, s)
  BY DEF GoodTable, Table, GoodEntry
<1>3. QED
  BY <1>1, <1>2 DEF AddRoute, Update, DeleteRoute

\* The invariant of tables survives growing sequence numbers.
LEMMA GoodTableMonotonic ==
    ASSUME NEW n \in Node, NEW s \in SeqNos, NEW r \in SeqNos,
           \A d \in Node : s[d] <= r[d],
           NEW t \in GoodTable(n, s)
    PROVE  t \in GoodTable(n, r)
<1>1. ASSUME NEW d \in Node, NEW e \in GoodEntry(n, d, s)
      PROVE  e \in GoodEntry(n, d, r)
  <2>1. s[d] \in Nat /\ r[d] \in Nat /\ s[d] <= r[d] /\ e \in Entry /\ e.seqNo \in Nat
    BY DEF SeqNos, GoodEntry, Entry
  <2>2. QED
    BY <2>1 DEF GoodEntry
<1>2. QED
  BY <1>1 DEF GoodTable

\* The entries of a good table are good.
LEMMA GoodEntryOfTable ==
    ASSUME NEW n \in Node, NEW s \in SeqNos, NEW t \in GoodTable(n, s), NEW d \in Node
    PROVE  t[d] \in GoodEntry(n, d, s)
BY DEF GoodTable

\* RoutingTable::Clear leaves a good table.
LEMMA EmptyTableGood ==
    ASSUME NEW n \in Node, NEW s \in SeqNos
    PROVE  EmptyTable \in GoodTable(n, s)
BY NoEntryGood DEF EmptyTable, GoodTable, Table, GoodEntry

\* An entry that was valid stays good when it is invalidated.
LEMMA InvalidateGood ==
    ASSUME NEW n \in Node, NEW d \in Node, NEW s \in SeqNos, NEW e \in GoodEntry(n, d, s),
           e.flag = "VALID"
    PROVE  Invalidate(e) \in GoodEntry(n, d, s)
BY DEF Invalidate, GoodEntry, Entry, Flags

\* InvalidateRoutesWithDst keeps a table good, whatever the destinations are: it
\* does not touch entries in search, which may have no next hop.
LEMMA InvalidateRoutesGood ==
    ASSUME NEW n \in Node, NEW s \in SeqNos, NEW t \in GoodTable(n, s), NEW D
    PROVE  InvalidateRoutesWithDst(t, D) \in GoodTable(n, s)
<1>1. \A d \in Node : t[d] \in GoodEntry(n, d, s)
  BY GoodEntryOfTable
<1>2. \A d \in Node : t[d].flag = "VALID" => Invalidate(t[d]) \in GoodEntry(n, d, s)
  BY <1>1, InvalidateGood
<1>3. QED
  BY <1>1, <1>2 DEF InvalidateRoutesWithDst, GoodTable, Table, GoodEntry

\* The end of its lifetime leaves a good entry, or none.
LEMMA ExpireEntryGood ==
    ASSUME NEW n \in Node, NEW d \in Node, NEW s \in SeqNos, NEW e \in GoodEntry(n, d, s)
    PROVE  ExpireEntry(e) \in GoodEntry(n, d, s)
<1>1. CASE e.flag = "VALID"
  BY <1>1, InvalidateGood DEF ExpireEntry
<1>2. CASE e.flag = "INVALID"
  BY <1>2, NoEntryGood DEF ExpireEntry
<1>3. CASE e.flag \notin {"VALID", "INVALID"}
  BY <1>3 DEF ExpireEntry
<1>4. QED
  BY <1>1, <1>2, <1>3

\* A precursor other than the node itself keeps an entry good.
LEMMA PrecursorGood ==
    ASSUME NEW n \in Node, NEW d \in Node, NEW s \in SeqNos, NEW e \in GoodEntry(n, d, s),
           NEW a \in Node \ {n}
    PROVE  InsertPrecursor(e, a) \in GoodEntry(n, d, s)
BY DEF InsertPrecursor, GoodEntry, Entry

\* SendRequest leaves a good entry.  RingAssumption is needed: a RREP_ACK can
\* make the entry VALID while its hop count holds the ring.
LEMMA SearchEntryGood ==
    ASSUME NEW n \in Node, NEW d \in Node, NEW s \in SeqNos, NEW e \in GoodEntry(n, d, s)
    PROVE  SearchEntry(e) \in GoodEntry(n, d, s)
<1>0. /\ {TtlStart, TtlIncrement, TtlThreshold, NetDiameter} \subseteq Nat
      /\ e \in Entry
      /\ e.hop \in Nat /\ e.reqCount \in Nat
  BY ParameterAssumption DEF GoodEntry, Entry
<1>1. NextRing(e) \in Nat /\ (e.flag = "NONE" \/ e.hop = 0 \/ NextRing(e) >= 2)
  BY <1>0, RingAssumption DEF NextRing
<1>2. SearchEntry(e) \in Entry
  <2>1. (IF NextRing(e) = NetDiameter THEN e.reqCount + 1 ELSE e.reqCount) \in Nat
    BY <1>0
  <2>2. QED
    BY <1>0, <1>1, <2>1 DEF SearchEntry, Entry, Flags
<1>3. /\ SearchEntry(e).flag = "IN_SEARCH"
      /\ SearchEntry(e).validSeqNo = e.validSeqNo
      /\ SearchEntry(e).seqNo = e.seqNo
      /\ SearchEntry(e).nextHop = e.nextHop
      /\ SearchEntry(e).precursors = e.precursors
      /\ SearchEntry(e).hop = NextRing(e)
  BY <1>0 DEF SearchEntry, Entry
<1>4. e.validSeqNo => e.flag # "NONE" /\ e.hop >= 1
  BY DEF GoodEntry
<1>5. QED
  BY <1>0, <1>1, <1>2, <1>3, <1>4 DEF GoodEntry

-----------------------------------------------------------------------------
(* The tables that the handlers of control messages leave.                  *)

\* UpdateRouteToNeighbor keeps a table good.
LEMMA NeighbourTableGood ==
    ASSUME NEW n \in Node, NEW s \in SeqNos, NEW t \in GoodTable(n, s), NEW sender \in Node \ {n}
    PROVE  UpdateRouteToNeighbor(t, sender) \in GoodTable(n, s)
<1>1. NewEntry(FALSE, 0, 1, sender) \in GoodEntry(n, sender, s)
  BY DEF NewEntry, GoodEntry, Entry, Flags, Addr
<1>2. QED
  BY <1>1, PutGood DEF UpdateRouteToNeighbor

\* The RREQs, received by n from src, that the tables rely on: their numbers are
\* not ahead, and one that has made no hop comes from its originator.
GoodRreq(src, s) ==
    {r \in Rreq : /\ r.origin # r.dst
                  /\ r.originSeqNo <= s[r.origin]
                  /\ ~r.unknownSeqNo => r.dstSeqNo <= s[r.dst]
                  /\ r.hopCount = 0 => src = r.origin}

\* The reverse route of a RREQ keeps a table good, and has a valid sequence number.
LEMMA ReverseRouteGood ==
    ASSUME NEW n \in Node, NEW s \in SeqNos, NEW t \in GoodTable(n, s),
           NEW src \in Node \ {n}, NEW r \in GoodRreq(src, s)
    PROVE  /\ ReverseRoute(t, r, src) \in GoodTable(n, s)
           /\ ReverseRoute(t, r, src)[r.origin].validSeqNo
<1> DEFINE e == t[r.origin]
           fresher == ~e.validSeqNo \/ Newer(r.originSeqNo, e.seqNo)
           new == [e EXCEPT !.seqNo = IF fresher THEN r.originSeqNo ELSE @,
                            !.validSeqNo = TRUE, !.nextHop = src, !.hop = r.hopCount + 1]
<1>1. /\ r.origin \in Node /\ r.originSeqNo \in Nat /\ r.hopCount \in Nat
      /\ r.originSeqNo <= s[r.origin] /\ s[r.origin] \in Nat
      /\ r.hopCount + 1 \in Nat \ {0}
      /\ r.hopCount + 1 = 1 => src = r.origin
  BY DEF GoodRreq, Rreq, SeqNos
<1>2. e \in GoodEntry(n, r.origin, s) /\ e \in Entry
  BY <1>1, GoodEntryOfTable DEF GoodEntry
<1>3. NewEntry(TRUE, r.originSeqNo, r.hopCount + 1, src) \in GoodEntry(n, r.origin, s)
  BY <1>1, NewEntryGood
<1>4. CASE ~Found(t, r.origin)
  <2>1. /\ ReverseRoute(t, r, src) = AddRoute(t, r.origin, NewEntry(TRUE, r.originSeqNo, r.hopCount + 1, src))
    BY <1>4 DEF ReverseRoute
  <2>2. Normalised(NewEntry(TRUE, r.originSeqNo, r.hopCount + 1, src)).validSeqNo
    BY DEF Normalised, NewEntry
  <2>3. ReverseRoute(t, r, src) \in GoodTable(n, s)
    BY <1>1, <1>3, <2>1, PutGood
  <2>4. QED
    BY <1>1, <1>4, <2>1, <2>2, <2>3 DEF AddRoute, GoodTable, Table
<1>5. CASE Found(t, r.origin)
  <2>1. ReverseRoute(t, r, src) = Update(t, r.origin, new)
    BY <1>5 DEF ReverseRoute
  <2>2. /\ new \in Entry
        /\ new.flag = e.flag /\ new.validSeqNo /\ new.nextHop = src /\ new.hop = r.hopCount + 1
        /\ new.precursors = e.precursors
        /\ new.seqNo = IF fresher THEN r.originSeqNo ELSE e.seqNo
    BY <1>1, <1>2 DEF Entry, Addr
  <2>3. new.seqNo <= s[r.origin]
    BY <1>1, <1>2, <2>2 DEF GoodEntry
  <2> HIDE DEF new
  <2>4. new \in GoodEntry(n, r.origin, s)
    BY <1>1, <1>2, <1>5, <2>2, <2>3 DEF GoodEntry, Found
  <2>5. Normalised(new).validSeqNo
    BY <2>2 DEF Normalised, Entry
  <2>6. ReverseRoute(t, r, src) \in GoodTable(n, s)
    BY <1>1, <2>1, <2>4, PutGood
  <2>7. QED
    BY <1>1, <1>5, <2>1, <2>5, <2>6 DEF Update, GoodTable, Table
<1>6. QED
  BY <1>4, <1>5

\* The route to the neighbour a RREQ came from: the originator's number is stored
\* there, and does not count as valid.
LEMMA RouteToRequesterGood ==
    ASSUME NEW n \in Node, NEW s \in SeqNos, NEW t \in GoodTable(n, s),
           NEW src \in Node \ {n}, NEW r \in GoodRreq(src, s)
    PROVE  RouteToRequester(t, r, src) \in GoodTable(n, s)
<1> DEFINE new == [t[src] EXCEPT !.validSeqNo = FALSE, !.seqNo = r.originSeqNo,
                                 !.flag = "VALID", !.hop = 1, !.nextHop = src]
<1>1. t[src] \in GoodEntry(n, src, s) /\ t[src] \in Entry /\ r.originSeqNo \in Nat
  BY GoodEntryOfTable DEF GoodEntry, GoodRreq, Rreq
<1>2. NewEntry(FALSE, r.originSeqNo, 1, src) \in GoodEntry(n, src, s)
  BY <1>1 DEF NewEntry, GoodEntry, Entry, Flags, Addr
<1>3. new \in GoodEntry(n, src, s)
  <2>1. /\ new \in Entry
        /\ new.flag = "VALID" /\ new.validSeqNo = FALSE /\ new.nextHop = src /\ new.hop = 1
        /\ new.precursors = t[src].precursors
    BY <1>1 DEF Entry, Addr, Flags
  <2> HIDE DEF new
  <2>2. QED
    BY <1>1, <2>1 DEF GoodEntry
<1> HIDE DEF new
<1>4. QED
  BY <1>2, <1>3, PutGood DEF RouteToRequester, new

\* After the handling of a RREQ there is a way back to its originator, with a
\* sequence number that is not ahead even where it is not marked as valid.
LEMMA RequestTableGood ==
    ASSUME NEW n \in Node, NEW s \in SeqNos, NEW t0 \in GoodTable(n, s),
           NEW src \in Node \ {n}, NEW r \in GoodRreq(src, s), NEW t,
           t = RouteToRequester(ReverseRoute(t0, r, src), r, src)
    PROVE  /\ t \in GoodTable(n, s)
           /\ t[r.origin].nextHop \in Node \ {n}
           /\ t[r.origin].hop \in Nat \ {0}
           /\ t[r.origin].seqNo <= s[r.origin]
<1> DEFINE u == ReverseRoute(t0, r, src)
<1>1. u \in GoodTable(n, s) /\ u[r.origin].validSeqNo
  BY ReverseRouteGood
<1>2. t \in GoodTable(n, s)
  BY <1>1, RouteToRequesterGood
<1>3. r.origin \in Node /\ r.originSeqNo \in Nat /\ r.originSeqNo <= s[r.origin] /\ s[r.origin] \in Nat
  BY DEF GoodRreq, Rreq, SeqNos
<1>4. t[r.origin] \in GoodEntry(n, r.origin, s) /\ u[r.origin] \in GoodEntry(n, r.origin, s)
  BY <1>1, <1>2, <1>3, GoodEntryOfTable
<1> HIDE DEF u
<1>5. CASE src # r.origin
  <2>1. t[r.origin] = u[r.origin]
    BY <1>1, <1>3, <1>5 DEF RouteToRequester, AddRoute, Update, GoodTable, Table, u
  <2>2. QED
    BY <1>1, <1>2, <1>4, <2>1 DEF GoodEntry, Entry
<1>6. CASE src = r.origin
  <2>1. Found(u, src)
    BY <1>1, <1>4, <1>6 DEF Found, GoodEntry
  <2>2. u \in [Node -> Entry]
    BY <1>1 DEF GoodTable, Table
  <2>3. t = Update(u, src, [u[src] EXCEPT !.validSeqNo = FALSE, !.seqNo = r.originSeqNo,
                                 !.flag = "VALID", !.hop = 1, !.nextHop = src])
    BY <2>1 DEF RouteToRequester, u
  <2>4. /\ t[src].flag = "VALID"
        /\ t[src].seqNo = r.originSeqNo
    BY <2>1, <2>2, <2>3 DEF Update, Normalised, Entry
  <2>5. QED
    BY <1>2, <1>3, <1>4, <1>6, <2>4 DEF GoodEntry, Entry
<1>7. QED
  BY <1>5, <1>6

\* A reply from sender, other than n, that the tables rely on.
GoodRrep(sender, s) ==
    {r \in Rrep : /\ r.dstSeqNo <= s[r.dst]
                  /\ r.hopCount = 0 \/ r.dst = r.origin => sender = r.dst}

\* The entry that RecvReply makes of a good RREP is good.
LEMMA ReplyEntryGood ==
    ASSUME NEW n \in Node, NEW s \in SeqNos, NEW sender \in Node \ {n}, NEW r \in GoodRrep(sender, s)
    PROVE  ReplyEntry(r, sender) \in GoodEntry(n, r.dst, s)
<1>1. /\ r.dst \in Node /\ r.dstSeqNo \in Nat /\ r.hopCount \in Nat
      /\ r.hopCount + 1 \in Nat \ {0}
      /\ r.hopCount + 1 = 1 => sender = r.dst
      /\ r.dstSeqNo <= s[r.dst]
  BY DEF GoodRrep, Rrep
<1>2. QED
  BY <1>1, NewEntryGood DEF ReplyEntry

\* The entry that a RREP leaves leads to another node, whether it was replaced
\* or was better.
LEMMA InstallReplyGood ==
    ASSUME NEW n \in Node, NEW s \in SeqNos, NEW t \in GoodTable(n, s),
           NEW sender \in Node \ {n}, NEW r \in GoodRrep(sender, s)
    PROVE  /\ InstallReply(t, r, sender) \in GoodTable(n, s)
           /\ InstallReply(t, r, sender)[r.dst].nextHop \in Node \ {n}
<1>1. ReplyEntry(r, sender) \in GoodEntry(n, r.dst, s) /\ r.dst \in Node
  BY ReplyEntryGood DEF GoodRrep, Rrep
<1>2. /\ Normalised(ReplyEntry(r, sender)).nextHop = sender
  BY DEF Normalised, ReplyEntry, NewEntry
<1>3. t \in [Node -> Entry] /\ t[r.dst] \in GoodEntry(n, r.dst, s)
  BY <1>1, GoodEntryOfTable DEF GoodTable, Table
<1>4. InstallReply(t, r, sender) \in GoodTable(n, s)
  BY <1>1, PutGood DEF InstallReply
<1>5. CASE ~Found(t, r.dst)
  BY <1>1, <1>2, <1>3, <1>4, <1>5 DEF InstallReply, AddRoute
<1>6. CASE Found(t, r.dst) /\ FresherReply(t[r.dst], r, r.hopCount + 1)
  BY <1>1, <1>2, <1>3, <1>4, <1>6 DEF InstallReply, Update
<1>7. CASE Found(t, r.dst) /\ ~FresherReply(t[r.dst], r, r.hopCount + 1)
  <2>1. t[r.dst].validSeqNo /\ InstallReply(t, r, sender) = t
    BY <1>7 DEF FresherReply, InstallReply, AddRoute
  <2>2. t[r.dst].nextHop \in Node \ {n}
    BY <1>3, <2>1 DEF GoodEntry, Entry
  <2>3. QED
    BY <1>4, <2>1, <2>2
<1>8. QED
  BY <1>5, <1>6, <1>7

\* Writing an entry back with one more precursor keeps a table good.
LEMMA AddPrecursorGood ==
    ASSUME NEW n \in Node, NEW s \in SeqNos, NEW t \in GoodTable(n, s), NEW d \in Node,
           NEW e \in GoodEntry(n, d, s), NEW a \in Node \ {n}
    PROVE  Update(t, d, InsertPrecursor(e, a)) \in GoodTable(n, s)
BY PrecursorGood, PutGood

\* SendReplyByIntermediateNode keeps a table good.
LEMMA ReplyTableGood ==
    ASSUME NEW n \in Node, NEW s \in SeqNos, NEW t \in GoodTable(n, s), NEW r \in Rreq,
           t[r.dst].nextHop \in Node \ {n}, t[r.origin].nextHop \in Node \ {n}
    PROVE  TableAfterReply(t, r) \in GoodTable(n, s)
<1>1. r.dst \in Node /\ r.origin \in Node
  BY DEF Rreq
<1>2. t[r.dst] \in GoodEntry(n, r.dst, s) /\ t[r.origin] \in GoodEntry(n, r.origin, s)
  BY <1>1, GoodEntryOfTable
<1>3. Update(t, r.dst, InsertPrecursor(t[r.dst], t[r.origin].nextHop)) \in GoodTable(n, s)
  BY <1>1, <1>2, AddPrecursorGood
<1>4. QED
  BY <1>1, <1>2, <1>3, AddPrecursorGood DEF TableAfterReply

\* The precursor updates of a RREP that is passed on keep a table good, the one
\* that writes back an older copy of an entry included.
LEMMA RelayTableGood ==
    ASSUME NEW n \in Node, NEW s \in SeqNos, NEW t \in GoodTable(n, s), NEW r \in Rrep,
           t[r.dst].nextHop \in Node \ {n}, t[r.origin].nextHop \in Node \ {n}
    PROVE  TableAfterRelay(t, r) \in GoodTable(n, s)
<1> DEFINE h == t[r.dst].nextHop
           g == t[r.origin].nextHop
           Add(u, d, a) == Update(u, d, InsertPrecursor(u[d], a))
           t1 == Add(t, r.dst, g)
           t2 == Add(t1, h, g)
           t3 == Update(t2, r.origin, InsertPrecursor(t[r.origin], h))
<1>1. /\ r.dst \in Node /\ r.origin \in Node
      /\ t[r.origin] \in GoodEntry(n, r.origin, s)
  BY GoodEntryOfTable DEF Rrep
<1>2. ASSUME NEW u \in GoodTable(n, s), NEW d \in Node, NEW a \in Node \ {n}
      PROVE  Add(u, d, a) \in GoodTable(n, s)
  BY GoodEntryOfTable, AddPrecursorGood
<1> HIDE DEF Add
<1>3. t1 \in GoodTable(n, s)
  BY <1>1, <1>2
<1>4. t2 \in GoodTable(n, s)
  BY <1>2, <1>3
<1> HIDE DEF t1, t2
<1>5. t3 \in GoodTable(n, s)
  BY <1>1, <1>4, AddPrecursorGood
<1> HIDE DEF t3
<1>6. Add(t3, g, h) \in GoodTable(n, s)
  BY <1>2, <1>5
<1>7. TableAfterRelay(t, r) = IF LookupValidRoute(t, r.dst) THEN Add(t3, g, h) ELSE t
  BY DEF TableAfterRelay, Add, t1, t2, t3
<1>8. QED
  BY <1>6, <1>7

\* ProcessHello keeps a good entry good.
LEMMA HelloEntryGood ==
    ASSUME NEW n \in Node, NEW s \in SeqNos, NEW r \in Rrep, r.dst # n, r.dstSeqNo <= s[r.dst],
           NEW e \in GoodEntry(n, r.dst, s)
    PROVE  HelloEntry(e, r) \in GoodEntry(n, r.dst, s)
<1> DEFINE new == HelloEntry(e, r)
<1>1. /\ new \in Entry
      /\ new.flag = "VALID" /\ new.validSeqNo = TRUE /\ new.seqNo = r.dstSeqNo
      /\ new.hop = 1 /\ new.nextHop = r.dst /\ new.precursors = e.precursors
  BY DEF HelloEntry, GoodEntry, Entry, Rrep, Flags, Addr
<1> HIDE DEF new
<1>2. new \in GoodEntry(n, r.dst, s)
  BY <1>1 DEF GoodEntry, Rrep
<1>3. QED
  BY <1>2 DEF new

\* A RREP-ACK makes the entry of its sender, a neighbour by now, usable.
LEMMA AckTableGood ==
    ASSUME NEW n \in Node, NEW s \in SeqNos, NEW t0 \in GoodTable(n, s),
           NEW sender \in Node \ {n}, NEW t, t = UpdateRouteToNeighbor(t0, sender)
    PROVE  Update(t, sender, [t[sender] EXCEPT !.flag = "VALID"]) \in GoodTable(n, s)
<1> DEFINE new == [t[sender] EXCEPT !.flag = "VALID"]
<1>1. t \in GoodTable(n, s) /\ t[sender] \in GoodEntry(n, sender, s) /\ t0 \in [Node -> Entry]
  BY NeighbourTableGood, GoodEntryOfTable DEF GoodTable, Table
<1>2. /\ new \in Entry
      /\ new.flag = "VALID" /\ new.validSeqNo = t[sender].validSeqNo
      /\ new.seqNo = t[sender].seqNo /\ new.hop = t[sender].hop
      /\ new.nextHop = t[sender].nextHop /\ new.precursors = t[sender].precursors
  BY <1>1 DEF GoodEntry, Entry, Flags
<1>3. t[sender].validSeqNo \/ t[sender].flag = "VALID"
  BY <1>1 DEF UpdateRouteToNeighbor, AddRoute, Update, Found, Normalised, NewEntry
<1> HIDE DEF new
<1>4. new \in GoodEntry(n, sender, s)
  BY <1>1, <1>2, <1>3 DEF GoodEntry
<1>5. QED
  BY <1>1, <1>4, PutGood DEF new

-----------------------------------------------------------------------------
(* What may replace an entry: how old it is, and through whom it leads.     *)

\* A route that replaces one with a known number has no older one, unless it
\* was heard from the destination itself.
NoOlder(new, old, d) ==
    old.flag = "VALID" /\ new.flag = "VALID" /\ old.validSeqNo /\ new.validSeqNo
    => new.seqNo >= old.seqNo \/ new.nextHop = d

\* The new route to d leads through a node of S only if the old one did.
NoNewHop(new, old, d, S) ==
    new.flag = "VALID" /\ new.nextHop \in S \ {d}
    => old.flag = "VALID" /\ old.nextHop = new.nextHop

\* Table u may follow table t, at a node that takes no new route through the
\* nodes in S, except to the destinations in D.
Succeeds(u, t, S, D) ==
    \A d \in Node : /\ NoOlder(u[d], t[d], d)
                    /\ d \in D \/ NoNewHop(u[d], t[d], d, S)

\* The two tables hold the same routes, with other counts or precursors.
SameRoutes(u, t) ==
    \A d \in Node : /\ u[d].flag = t[d].flag /\ u[d].nextHop = t[d].nextHop
                    /\ u[d].validSeqNo = t[d].validSeqNo /\ u[d].seqNo = t[d].seqNo

\* A table may follow itself.
LEMMA SucceedsItself ==
    ASSUME NEW t \in Table, NEW S, NEW D
    PROVE  Succeeds(t, t, S, D)
<1>1. \A d \in Node : t[d].seqNo \in Nat
  BY DEF Table, Entry
<1>2. ASSUME NEW d \in Node
      PROVE  NoOlder(t[d], t[d], d) /\ NoNewHop(t[d], t[d], d, S)
  <2>1. NoNewHop(t[d], t[d], d, S)
    BY DEF NoNewHop
  <2>2. t[d].seqNo >= t[d].seqNo
    BY <1>1
  <2>3. NoOlder(t[d], t[d], d)
    BY <2>2, Zenon DEF NoOlder
  <2>4. QED
    BY <2>1, <2>3
<1>3. QED
  BY <1>2 DEF Succeeds

\* Precursors and counts do not matter.
LEMMA SameRoutesSucceed ==
    ASSUME NEW base, NEW t, NEW u, NEW S, NEW D, Succeeds(t, base, S, D), SameRoutes(u, t)
    PROVE  Succeeds(u, base, S, D)
BY DEF Succeeds, NoOlder, NoNewHop, SameRoutes

\* A table in which one entry is replaced may follow if the entry may.
LEMMA PutSucceeds ==
    ASSUME NEW t \in Table, NEW u \in Table, NEW d \in Node, NEW S, NEW D,
           \A x \in Node \ {d} : u[x] = t[x],
           NoOlder(u[d], t[d], d), d \in D \/ NoNewHop(u[d], t[d], d, S)
    PROVE  Succeeds(u, t, S, D)
<1>1. Succeeds(t, t, S, D)
  BY SucceedsItself
<1>2. \A x \in Node \ {d} : NoOlder(u[x], t[x], x) /\ (x \in D \/ NoNewHop(u[x], t[x], x, S))
  BY <1>1 DEF Succeeds
<1>3. QED
  BY <1>2 DEF Succeeds

\* AddRoute and Update change the entry of d only; Update writes the entry, and
\* AddRoute leaves an entry that is there.
LEMMA PutChanges ==
    ASSUME NEW t \in Table, NEW d \in Node, NEW e \in Entry
    PROVE  /\ AddRoute(t, d, e) \in Table /\ Update(t, d, e) \in Table
           /\ \A x \in Node \ {d} : AddRoute(t, d, e)[x] = t[x] /\ Update(t, d, e)[x] = t[x]
           /\ AddRoute(t, d, e)[d] = IF Found(t, d) THEN t[d] ELSE Normalised(e)
           /\ Update(t, d, e)[d] = IF Found(t, d) THEN Normalised(e) ELSE t[d]
           /\ Normalised(e) \in Entry
           /\ Normalised(e).flag = e.flag /\ Normalised(e).nextHop = e.nextHop
           /\ Normalised(e).validSeqNo = e.validSeqNo /\ Normalised(e).seqNo = e.seqNo
<1>1. /\ Normalised(e) \in Entry
      /\ Normalised(e).flag = e.flag /\ Normalised(e).nextHop = e.nextHop
      /\ Normalised(e).validSeqNo = e.validSeqNo /\ Normalised(e).seqNo = e.seqNo
  BY DEF Normalised, Entry
<1>2. QED
  BY <1>1 DEF AddRoute, Update, Table

\* A new entry has what it is made of, and no precursors.
LEMMA NewEntryFields ==
    ASSUME NEW v \in BOOLEAN, NEW q \in Nat, NEW k \in Nat, NEW h \in Node
    PROVE  /\ NewEntry(v, q, k, h) \in Entry
           /\ NewEntry(v, q, k, h).flag = "VALID" /\ NewEntry(v, q, k, h).nextHop = h
           /\ NewEntry(v, q, k, h).validSeqNo = v /\ NewEntry(v, q, k, h).seqNo = q
BY DEF NewEntry, Entry, Flags, Addr

\* UpdateRouteToNeighbor keeps the entry of the neighbour, or forgets its number
\* and leads to the neighbour itself.
LEMMA NeighbourChanges ==
    ASSUME NEW t \in Table, NEW sender \in Node, NEW u, u = UpdateRouteToNeighbor(t, sender)
    PROVE  /\ u \in Table
           /\ \A x \in Node \ {sender} : u[x] = t[x]
           /\ Found(u, sender)
           /\ \/ u[sender] = t[sender] /\ t[sender].validSeqNo /\ t[sender].hop = 1
              \/ u[sender].flag = "VALID" /\ ~u[sender].validSeqNo /\ u[sender].nextHop = sender
<1> DEFINE e == NewEntry(FALSE, 0, 1, sender)
<1>1. e \in Entry /\ e.flag = "VALID" /\ e.nextHop = sender /\ ~e.validSeqNo
  BY DEF NewEntry, Entry, Flags, Addr
<1>2. u = CASE ~Found(t, sender) -> AddRoute(t, sender, e)
            [] Found(t, sender) /\ (t[sender].validSeqNo /\ t[sender].hop = 1) -> t
            [] Found(t, sender) /\ ~(t[sender].validSeqNo /\ t[sender].hop = 1) -> Update(t, sender, e)
  BY DEF UpdateRouteToNeighbor
<1> HIDE DEF e
<1>3. CASE ~Found(t, sender)
  <2>1. u = AddRoute(t, sender, e)
    BY <1>2, <1>3
  <2>2. QED
    BY <1>1, <1>3, <2>1, PutChanges DEF Found
<1>4. CASE Found(t, sender) /\ t[sender].validSeqNo /\ t[sender].hop = 1
  BY <1>2, <1>4
<1>5. CASE Found(t, sender) /\ ~(t[sender].validSeqNo /\ t[sender].hop = 1)
  <2>1. u = Update(t, sender, e)
    BY <1>2, <1>5
  <2>2. QED
    BY <1>1, <1>5, <2>1, PutChanges DEF Found
<1>6. QED
  BY <1>3, <1>4, <1>5

\* It may follow, whomever the node suspects.
LEMMA NeighbourSucceeds ==
    ASSUME NEW t \in Table, NEW sender \in Node, NEW S, NEW D
    PROVE  Succeeds(UpdateRouteToNeighbor(t, sender), t, S, D)
<1> DEFINE u == UpdateRouteToNeighbor(t, sender)
<1>1. /\ u \in Table /\ \A x \in Node \ {sender} : u[x] = t[x]
      /\ \/ u[sender] = t[sender]
         \/ u[sender].flag = "VALID" /\ ~u[sender].validSeqNo /\ u[sender].nextHop = sender
  BY NeighbourChanges
<1>2. t[sender].seqNo \in Nat
  BY DEF Table, Entry
<1> HIDE DEF u
<1>3. NoOlder(u[sender], t[sender], sender) /\ NoNewHop(u[sender], t[sender], sender, S)
  BY <1>1, <1>2 DEF NoOlder, NoNewHop
<1>4. Succeeds(u, t, S, D)
  BY <1>1, <1>3, PutSucceeds
<1>5. QED
  BY <1>4 DEF u

\* The reverse route keeps the larger number.
LEMMA ReverseRouteChanges ==
    ASSUME NEW t \in Table, NEW r \in Rreq, NEW src \in Node, NEW u, u = ReverseRoute(t, r, src)
    PROVE  /\ u \in Table
           /\ \A x \in Node \ {r.origin} : u[x] = t[x]
           /\ Found(t, r.origin) /\ t[r.origin].validSeqNo => u[r.origin].seqNo >= t[r.origin].seqNo
<1> DEFINE q == IF ~t[r.origin].validSeqNo \/ Newer(r.originSeqNo, t[r.origin].seqNo)
                THEN r.originSeqNo ELSE t[r.origin].seqNo
           e == [t[r.origin] EXCEPT !.seqNo = q, !.validSeqNo = TRUE, !.nextHop = src,
                                    !.hop = r.hopCount + 1]
           new == NewEntry(TRUE, r.originSeqNo, r.hopCount + 1, src)
<1>1. /\ r.origin \in Node /\ r.originSeqNo \in Nat /\ r.hopCount + 1 \in Nat
      /\ t[r.origin] \in Entry /\ t[r.origin].seqNo \in Nat
  BY DEF Rreq, Table, Entry
<1>2. q \in Nat /\ (t[r.origin].validSeqNo => q >= t[r.origin].seqNo)
  BY <1>1 DEF Newer
<1>3. u = IF ~Found(t, r.origin) THEN AddRoute(t, r.origin, new) ELSE Update(t, r.origin, e)
  BY DEF ReverseRoute
<1> HIDE DEF q
<1>4. e \in Entry /\ e.seqNo = q
  BY <1>1, <1>2 DEF Entry, Addr
<1>5. new \in Entry
  BY <1>1, NewEntryFields
<1> HIDE DEF e, new
<1>6. CASE ~Found(t, r.origin)
  BY <1>1, <1>3, <1>5, <1>6, PutChanges
<1>7. CASE Found(t, r.origin)
  <2>1. u = Update(t, r.origin, e)
    BY <1>3, <1>7
  <2>2. u[r.origin].seqNo = q
    BY <1>1, <1>4, <1>7, <2>1, PutChanges
  <2>3. QED
    BY <1>1, <1>2, <1>4, <2>1, <2>2, PutChanges
<1>8. QED
  BY <1>6, <1>7

\* The entry of the neighbour that a RREQ came from loses its number.
LEMMA RouteToRequesterChanges ==
    ASSUME NEW t \in Table, NEW r \in Rreq, NEW src \in Node, NEW u, u = RouteToRequester(t, r, src)
    PROVE  /\ u \in Table
           /\ \A x \in Node \ {src} : u[x] = t[x]
           /\ ~u[src].validSeqNo /\ u[src].nextHop = src
<1> DEFINE e == [t[src] EXCEPT !.validSeqNo = FALSE, !.seqNo = r.originSeqNo,
                               !.flag = "VALID", !.hop = 1, !.nextHop = src]
           new == NewEntry(FALSE, r.originSeqNo, 1, src)
<1>1. r.originSeqNo \in Nat /\ t[src] \in Entry
  BY DEF Rreq, Table
<1>2. u = IF ~Found(t, src) THEN AddRoute(t, src, new) ELSE Update(t, src, e)
  BY DEF RouteToRequester
<1>3. e \in Entry /\ e.validSeqNo = FALSE /\ e.nextHop = src
  BY <1>1 DEF Entry, Flags, Addr
<1>4. new \in Entry /\ ~new.validSeqNo /\ new.nextHop = src
  BY <1>1 DEF NewEntry, Entry, Flags, Addr
<1> HIDE DEF e, new
<1>5. CASE ~Found(t, src)
  BY <1>2, <1>4, <1>5, PutChanges
<1>6. CASE Found(t, src)
  BY <1>2, <1>3, <1>6, PutChanges
<1>7. QED
  BY <1>5, <1>6

\* A RREQ replaces no number by an older one, and leads nowhere new but to its
\* originator.
LEMMA RequestSucceeds ==
    ASSUME NEW t0 \in Table, NEW r \in Rreq, NEW src \in Node, NEW S, NEW D, r.origin \in D,
           NEW t, t = RouteToRequester(ReverseRoute(UpdateRouteToNeighbor(t0, src), r, src), r, src)
    PROVE  t \in Table /\ Succeeds(t, t0, S, D)
<1> DEFINE u == UpdateRouteToNeighbor(t0, src)
           v == ReverseRoute(u, r, src)
<1>0. r.origin \in Node
  BY DEF Rreq
<1>1. u \in Table /\ \A x \in Node \ {src} : u[x] = t0[x]
  BY NeighbourChanges
<1> HIDE DEF u
<1>2. /\ v \in Table /\ \A x \in Node \ {r.origin} : v[x] = u[x]
      /\ Found(u, r.origin) /\ u[r.origin].validSeqNo => v[r.origin].seqNo >= u[r.origin].seqNo
  BY <1>1, ReverseRouteChanges
<1> HIDE DEF v
<1>3. t = RouteToRequester(v, r, src)
  BY DEF v, u
<1>4. /\ t \in Table /\ \A x \in Node \ {src} : t[x] = v[x]
      /\ ~t[src].validSeqNo /\ t[src].nextHop = src
  BY <1>2, <1>3, RouteToRequesterChanges
<1>5. ASSUME NEW d \in Node
      PROVE  NoOlder(t[d], t0[d], d) /\ (d \in D \/ NoNewHop(t[d], t0[d], d, S))
  <2>0. t0[d].seqNo \in Nat
    BY DEF Table, Entry
  <2>1. CASE d = src
    BY <1>4, <2>1 DEF NoOlder, NoNewHop
  <2>2. CASE d # src /\ d = r.origin
    BY <1>1, <1>2, <1>4, <2>2 DEF NoOlder, Found
  <2>3. CASE d # src /\ d # r.origin
    BY <1>1, <1>2, <1>4, <2>0, <2>3 DEF NoOlder, NoNewHop
  <2>4. QED
    BY <2>1, <2>2, <2>3
<1>6. QED
  BY <1>4, <1>5 DEF Succeeds

\* So does a RREP, which leads to its sender, whether a search takes it as it is
\* or InstallReply compares it with what is there.
LEMMA ReplySucceeds ==
    ASSUME NEW t0 \in Table, NEW r \in Rrep, NEW sender \in Node, NEW S, NEW D, sender \notin S,
           NEW t, t = UpdateRouteToNeighbor(t0, sender),
           NEW u, \/ u = InstallReply(t, r, sender)
                  \/ t[r.dst].flag = "IN_SEARCH" /\ u = Update(t, r.dst, ReplyEntry(r, sender))
    PROVE  u \in Table /\ Succeeds(u, t0, S, D)
<1> DEFINE e == ReplyEntry(r, sender)
<1>0. r.dst \in Node /\ r.dstSeqNo \in Nat /\ r.hopCount + 1 \in Nat
  BY DEF Rrep
<1>1. t \in Table /\ (\A x \in Node \ {sender} : t[x] = t0[x]) /\ Succeeds(t, t0, S, D)
  BY NeighbourChanges, NeighbourSucceeds
<1>2. e \in Entry /\ e.flag = "VALID" /\ e.nextHop = sender /\ e.validSeqNo /\ e.seqNo = r.dstSeqNo
  BY <1>0 DEF ReplyEntry, NewEntry, Entry, Flags, Addr
<1>3. /\ t[r.dst] \in Entry /\ t[r.dst].seqNo \in Nat
  BY <1>0, <1>1 DEF Table, Entry
<1>4. \/ u = t
      \/ /\ u = AddRoute(t, r.dst, e) \/ u = Update(t, r.dst, e)
         /\ t[r.dst].flag = "VALID" /\ t[r.dst].validSeqNo => e.seqNo >= t[r.dst].seqNo
  <2>1. CASE u = InstallReply(t, r, sender)
    BY <1>0, <1>2, <1>3, <2>1 DEF InstallReply, FresherReply, Newer, AddRoute, Found
  <2>2. CASE t[r.dst].flag = "IN_SEARCH"
    BY <2>1, <2>2
  <2>3. QED
    BY <2>1, <2>2
<1> HIDE DEF e
<1>5. /\ u \in Table /\ \A x \in Node \ {r.dst} : u[x] = t[x]
      /\ \/ u[r.dst] = t[r.dst]
         \/ /\ u[r.dst].nextHop = sender /\ u[r.dst].seqNo = e.seqNo
            /\ t[r.dst].flag = "VALID" /\ t[r.dst].validSeqNo => e.seqNo >= t[r.dst].seqNo
  <2>1. CASE u = t
    BY <1>1, <2>1
  <2>2. CASE u = AddRoute(t, r.dst, e)
    BY <1>0, <1>1, <1>2, <1>4, <2>2, PutChanges
  <2>3. CASE u = Update(t, r.dst, e)
    BY <1>0, <1>1, <1>2, <1>4, <2>3, PutChanges
  <2>4. QED
    BY <1>4, <2>1, <2>2, <2>3
<1>6. ASSUME NEW d \in Node
      PROVE  NoOlder(u[d], t0[d], d) /\ (d \in D \/ NoNewHop(u[d], t0[d], d, S))
  <2>1. CASE u[d] = t[d]
    BY <1>1, <2>1 DEF Succeeds
  <2>2. CASE u[d] # t[d]
    <3>1. d = r.dst /\ u[d].nextHop = sender /\ u[d].seqNo = e.seqNo
      BY <1>5, <2>2
    <3>2. NoNewHop(u[d], t0[d], d, S)
      BY <3>1 DEF NoNewHop
    <3>3. CASE d = sender
      BY <3>1, <3>2, <3>3 DEF NoOlder
    <3>4. CASE d # sender
      BY <1>1, <1>5, <2>2, <3>1, <3>2, <3>4 DEF NoOlder
    <3>5. QED
      BY <3>3, <3>4
  <2>3. QED
    BY <2>1, <2>2
<1>7. QED
  BY <1>5, <1>6 DEF Succeeds

\* A hello message, whose sender is its destination, writes the sender's entry.
LEMMA HelloSucceeds ==
    ASSUME NEW t0 \in Table, NEW r \in Rrep, NEW S, NEW D,
           NEW t, t = UpdateRouteToNeighbor(t0, r.dst),
           NEW u, \/ u = Update(t, r.dst, HelloEntry(t[r.dst], r))
                  \/ u = AddRoute(t, r.dst, NewEntry(TRUE, r.dstSeqNo, 1, r.dst))
    PROVE  u \in Table /\ Succeeds(u, t0, S, D)
<1> DEFINE e == HelloEntry(t[r.dst], r)
           new == NewEntry(TRUE, r.dstSeqNo, 1, r.dst)
<1>1. r.dst \in Node /\ r.dstSeqNo \in Nat
  BY DEF Rrep
<1>2. t \in Table /\ (\A x \in Node \ {r.dst} : t[x] = t0[x]) /\ Found(t, r.dst)
  BY <1>1, NeighbourChanges
<1>3. e \in Entry /\ e.nextHop = r.dst
  <2>1. t[r.dst] \in Entry
    BY <1>1, <1>2 DEF Table
  <2>2. QED
    BY <1>1, <2>1 DEF HelloEntry, Entry, Flags, Addr
<1>4. new \in Entry
  BY <1>1, NewEntryFields
<1>5. Succeeds(t, t0, S, D)
  BY <1>1, NeighbourSucceeds
<1> HIDE DEF e, new
<1>6. CASE u = Update(t, r.dst, e)
  <2>1. u \in Table /\ (\A x \in Node \ {r.dst} : u[x] = t0[x]) /\ u[r.dst].nextHop = r.dst
    BY <1>1, <1>2, <1>3, <1>6, PutChanges
  <2>2. NoOlder(u[r.dst], t0[r.dst], r.dst) /\ NoNewHop(u[r.dst], t0[r.dst], r.dst, S)
    BY <2>1 DEF NoOlder, NoNewHop
  <2>3. QED
    BY <1>1, <2>1, <2>2, PutSucceeds
<1>7. CASE u = AddRoute(t, r.dst, new)
  <2>1. u = t
    BY <1>2, <1>7 DEF AddRoute
  <2>2. QED
    BY <1>2, <1>5, <2>1
<1>8. QED
  BY <1>6, <1>7 DEF e, new

\* A RREP-ACK makes the route to its sender usable: it leads to the sender.
LEMMA AckSucceeds ==
    ASSUME NEW n \in Node, NEW s \in SeqNos, NEW t0 \in GoodTable(n, s), NEW sender \in Node \ {n},
           NEW S, NEW D, NEW t, t = UpdateRouteToNeighbor(t0, sender),
           NEW u, u = Update(t, sender, [t[sender] EXCEPT !.flag = "VALID"])
    PROVE  Succeeds(u, t0, S, D)
<1> DEFINE e == [t[sender] EXCEPT !.flag = "VALID"]
<1>1. /\ t \in Table /\ (\A x \in Node \ {sender} : t[x] = t0[x]) /\ Found(t, sender) /\ t0 \in Table
      /\ \/ t[sender] = t0[sender] /\ t0[sender].validSeqNo /\ t0[sender].hop = 1
         \/ t[sender].nextHop = sender
  BY NeighbourChanges DEF GoodTable
<1>2. t[sender].nextHop = sender
  BY <1>1 DEF GoodTable, GoodEntry
<1>3. e \in Entry /\ e.nextHop = sender
  BY <1>1, <1>2 DEF Table, Entry, Flags
<1>4. u = Update(t, sender, e)
  OBVIOUS
<1> HIDE DEF e
<1>5. u \in Table /\ (\A x \in Node \ {sender} : u[x] = t0[x]) /\ u[sender].nextHop = sender
  <2>1. /\ u \in Table /\ \A x \in Node \ {sender} : u[x] = t[x]
        /\ u[sender] = (IF Found(t, sender) THEN Normalised(e) ELSE t[sender])
        /\ Normalised(e).nextHop = e.nextHop
    <3>1. t \in Table /\ e \in Entry /\ sender \in Node
      BY <1>1, <1>3
    <3>2. /\ Update(t, sender, e) \in Table
          /\ \A x \in Node \ {sender} : Update(t, sender, e)[x] = t[x]
          /\ Update(t, sender, e)[sender] = (IF Found(t, sender) THEN Normalised(e) ELSE t[sender])
          /\ Normalised(e).nextHop = e.nextHop
      BY <3>1, PutChanges
    <3>3. QED
      BY <1>4, <3>2, Zenon
  <2>2. QED
    BY <1>1, <1>2, <1>3, <2>1
<1>6. NoOlder(u[sender], t0[sender], sender) /\ NoNewHop(u[sender], t0[sender], sender, S)
  BY <1>5 DEF NoOlder, NoNewHop
<1>7. QED
  BY <1>1, <1>5, <1>6, PutSucceeds

\* An entry with one more precursor is the same route.
LEMMA AddPrecursorSame ==
    ASSUME NEW t \in Table, NEW base \in Table, SameRoutes(t, base), NEW d \in Node,
           NEW e, e = t[d] \/ e = base[d], NEW a \in Node
    PROVE  /\ Update(t, d, InsertPrecursor(e, a)) \in Table
           /\ SameRoutes(Update(t, d, InsertPrecursor(e, a)), base)
<1> DEFINE x == InsertPrecursor(e, a)
<1>1. /\ x \in Entry
      /\ x.flag = e.flag /\ x.nextHop = e.nextHop /\ x.validSeqNo = e.validSeqNo /\ x.seqNo = e.seqNo
  BY DEF InsertPrecursor, Table, Entry
<1> HIDE DEF x
<1> DEFINE u == Update(t, d, x)
<1>2. /\ u \in Table /\ \A y \in Node \ {d} : u[y] = t[y]
      /\ u[d] = (IF Found(t, d) THEN Normalised(x) ELSE t[d])
      /\ Normalised(x).flag = x.flag /\ Normalised(x).nextHop = x.nextHop
      /\ Normalised(x).validSeqNo = x.validSeqNo /\ Normalised(x).seqNo = x.seqNo
  BY <1>1, PutChanges
<1> HIDE DEF u
<1>3. SameRoutes(u, base)
  BY <1>1, <1>2 DEF SameRoutes
<1>4. QED
  BY <1>2, <1>3 DEF x, u

\* SendReplyByIntermediateNode only notes precursors.
LEMMA ReplyTableSame ==
    ASSUME NEW t \in Table, NEW r \in Rreq, t[r.dst].nextHop \in Node, t[r.origin].nextHop \in Node
    PROVE  SameRoutes(TableAfterReply(t, r), t)
<1> DEFINE u == Update(t, r.dst, InsertPrecursor(t[r.dst], t[r.origin].nextHop))
<1>1. r.dst \in Node /\ r.origin \in Node /\ SameRoutes(t, t)
  BY DEF Rreq, SameRoutes
<1>2. SameRoutes(u, t) /\ u \in Table
  BY <1>1, AddPrecursorSame
<1>3. TableAfterReply(t, r) = Update(u, r.origin, InsertPrecursor(t[r.origin], t[r.dst].nextHop))
  BY DEF TableAfterReply
<1> HIDE DEF u
<1>4. QED
  BY <1>1, <1>2, <1>3, AddPrecursorSame

\* So does passing a RREP on, although it writes back an older copy of an entry.
LEMMA RelayTableSame ==
    ASSUME NEW t \in Table, NEW r \in Rrep, t[r.dst].nextHop \in Node, t[r.origin].nextHop \in Node
    PROVE  SameRoutes(TableAfterRelay(t, r), t)
<1> DEFINE h == t[r.dst].nextHop
           g == t[r.origin].nextHop
           Add(u, d, a) == Update(u, d, InsertPrecursor(u[d], a))
           t1 == Add(t, r.dst, g)
           t2 == Add(t1, h, g)
           t3 == Update(t2, r.origin, InsertPrecursor(t[r.origin], h))
<1>1. r.dst \in Node /\ r.origin \in Node /\ SameRoutes(t, t)
  BY DEF Rrep, SameRoutes
<1>2. ASSUME NEW u \in Table, SameRoutes(u, t), NEW d \in Node, NEW a \in Node
      PROVE  Add(u, d, a) \in Table /\ SameRoutes(Add(u, d, a), t)
  BY <1>2, AddPrecursorSame
<1> HIDE DEF Add
<1>3. t1 \in Table /\ SameRoutes(t1, t)
  BY <1>1, <1>2
<1> HIDE DEF t1
<1>4. t2 \in Table /\ SameRoutes(t2, t)
  BY <1>2, <1>3
<1> HIDE DEF t2
<1>5. t3 \in Table /\ SameRoutes(t3, t)
  BY <1>1, <1>4, AddPrecursorSame
<1> HIDE DEF t3
<1>6. SameRoutes(Add(t3, g, h), t)
  BY <1>2, <1>5
<1>7. TableAfterRelay(t, r) = IF LookupValidRoute(t, r.dst) THEN Add(t3, g, h) ELSE t
  BY DEF TableAfterRelay, Add, t1, t2, t3
<1>8. QED
  BY <1>1, <1>6, <1>7

\* Invalidated routes and entries that are not VALID are not used at all.
LEMMA InvalidateSucceeds ==
    ASSUME NEW t \in Table, NEW base, NEW S, NEW D, Succeeds(t, base, S, D), NEW X
    PROVE  Succeeds(InvalidateRoutesWithDst(t, X), base, S, D)
<1> DEFINE u == InvalidateRoutesWithDst(t, X)
<1>1. \A d \in Node : u[d] = t[d] \/ u[d].flag = "INVALID"
  BY DEF InvalidateRoutesWithDst, Invalidate, Table, Entry
<1> HIDE DEF u
<1>2. Succeeds(u, base, S, D)
  BY <1>1 DEF Succeeds, NoOlder, NoNewHop
<1>3. QED
  BY <1>2 DEF u

LEMMA UnusedSucceeds ==
    ASSUME NEW t \in Table, NEW u, NEW S, NEW D,
           \A d \in Node : u[d] = t[d] \/ u[d].flag # "VALID"
    PROVE  Succeeds(u, t, S, D)
<1>1. Succeeds(t, t, S, D)
  BY SucceedsItself
<1>2. ASSUME NEW d \in Node
      PROVE  NoOlder(u[d], t[d], d) /\ (d \in D \/ NoNewHop(u[d], t[d], d, S))
  <2>1. CASE u[d] = t[d]
    BY <1>1, <2>1 DEF Succeeds
  <2>2. CASE u[d].flag # "VALID"
    BY <2>2 DEF NoOlder, NoNewHop
  <2>3. QED
    BY <2>1, <2>2
<1>3. QED
  BY <1>2 DEF Succeeds
=============================================================================
