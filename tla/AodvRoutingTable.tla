-------------------------- MODULE AodvRoutingTable --------------------------
(***************************************************************************)
(* The routing table of one AODV node (src/aodv/model/aodv-rtable.{h,cc}): *)
(* a map from destination addresses to entries, and the operations of      *)
(* class RoutingTable on it, as functions from tables to tables.           *)
(*                                                                         *)
(* A table is total over Node: a destination that std::map does not hold   *)
(* has the entry NoEntry.  Lifetimes are not recorded: an entry may expire *)
(* at any moment (ExpireEntry), which covers every choice of timeouts and  *)
(* every moment at which Purge() is called.                                *)
(***************************************************************************)
EXTENDS Naturals

CONSTANTS
    Node,      \* addresses of the nodes; one interface, hence one address, each
    NoAddr     \* the default-constructed Ipv4Address()

ASSUME NoAddrAssumption == NoAddr \notin Node

Addr == Node \cup {NoAddr}

\* RouteFlags, and "NONE" for a destination without an entry.
Flags == {"NONE", "VALID", "INVALID", "IN_SEARCH"}

\* Left out: the blacklist fields.  AckTimerExpire, the only caller of
\* MarkLinkAsUnidirectional, never runs: SendReplyByIntermediateNode sets the
\* delay of the ack timer of a copy of the entry and nobody schedules it.
Entry ==
    [flag       : Flags,
     validSeqNo : BOOLEAN,
     seqNo      : Nat,
     hop        : Nat,
     nextHop    : Addr,
     precursors : SUBSET Node,
     reqCount   : Nat]

\* RoutingTableEntry's constructor: a new entry is VALID.
NewEntry(validSeqNo, seqNo, hop, nextHop) ==
    [flag |-> "VALID", validSeqNo |-> validSeqNo, seqNo |-> seqNo, hop |-> hop,
     nextHop |-> nextHop, precursors |-> {}, reqCount |-> 0]

NoEntry == [NewEntry(FALSE, 0, 0, NoAddr) EXCEPT !.flag = "NONE"]

EmptyTable == [d \in Node |-> NoEntry]

Table == [Node -> Entry]

Found(t, d) == t[d].flag # "NONE"

LookupValidRoute(t, d) == t[d].flag = "VALID"

\* Only an entry in search keeps its count of route requests.
Normalised(e) == IF e.flag # "IN_SEARCH" THEN [e EXCEPT !.reqCount = 0] ELSE e

\* std::map::insert: an entry that is already there is left alone.
AddRoute(t, d, e) == IF Found(t, d) THEN t ELSE [t EXCEPT ![d] = Normalised(e)]

\* Fails, and changes nothing, when the table has no entry for d.
Update(t, d, e) == IF Found(t, d) THEN [t EXCEPT ![d] = Normalised(e)] ELSE t

DeleteRoute(t, d) == [t EXCEPT ![d] = NoEntry]

InsertPrecursor(e, a) == [e EXCEPT !.precursors = @ \cup {a}]

\* The sequence numbers that the code collects with the destinations are
\* copied into RERR messages, and nobody reads them there.
GetListOfDestinationWithNextHop(t, h) ==
    {d \in Node : Found(t, d) /\ t[d].nextHop = h}

PrecursorsOf(t, D) == UNION {t[d].precursors : d \in D}

Invalidate(e) == [e EXCEPT !.flag = "INVALID", !.reqCount = 0]

InvalidateRoutesWithDst(t, D) ==
    [d \in Node |-> IF d \in D /\ t[d].flag = "VALID" THEN Invalidate(t[d]) ELSE t[d]]

\* What Purge() does to an entry whose lifetime is over; an entry in search
\* is kept.
ExpireEntry(e) ==
    CASE e.flag = "VALID"   -> Invalidate(e)
      [] e.flag = "INVALID" -> NoEntry
      [] OTHER              -> e

\* int32_t(a) - int32_t(b) > 0.  Sequence numbers grow by at most the RREQ
\* rate limit per second and stay far below 2^31, where the difference is exact.
Newer(a, b) == a > b
=============================================================================
