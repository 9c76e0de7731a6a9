----------------------------- MODULE AodvIdCache -----------------------------
(***************************************************************************)
(* ns3::aodv::IdCache (src/aodv/model/aodv-id-cache.cc): the ids seen      *)
(* lately.  One cache holds the RREQs of a node (originator and request    *)
(* id), another one, in DuplicatePacketDetection, the broadcast packets it *)
(* has delivered (source and packet uid).                                  *)
(***************************************************************************)
EXTENDS AodvClock

CONSTANTS
    Ids,          \* Pairs of a context and an id.
    Lifetimes     \* The values of m_lifetime.

ASSUME IdCacheAssumption == Lifetimes \subseteq Nat

VARIABLES
    idCache,        \* m_idCache.
    lifetime,       \* m_lifetime.
    acceptedUntil,  \* History: until when the last acceptance of an id counts,
    repeated        \* and whether an id was accepted again before that.

idVars == <<idCache, lifetime, acceptedUntil, repeated>>

IdCacheInit ==
    /\ idCache = {}
    /\ lifetime \in Lifetimes
    /\ acceptedUntil = [k \in Ids |-> -1]
    /\ repeated = FALSE

\* Mutant: an entry goes at the end of its lifetime, not after it.
LiveIdsShort == {u \in idCache : u.expire > now}

\* The cache after Purge().
LiveIds == {u \in idCache : u.expire >= now}

\* IsDuplicate returns true; the entry is not renewed.
IsDuplicateSeen(k) ==
    /\ \E u \in LiveIds : u.key = k
    /\ idCache' = LiveIds
    /\ UNCHANGED <<lifetime, acceptedUntil, repeated>>

\* IsDuplicate returns false: the id is accepted and remembered.
IsDuplicateNew(k) ==
    /\ \A u \in LiveIds : u.key # k
    /\ idCache' = LiveIds \cup {[key |-> k, expire |-> lifetime + now]}
    /\ acceptedUntil' = [acceptedUntil EXCEPT ![k] = lifetime + now]
    /\ repeated' = (repeated \/ acceptedUntil[k] >= now)
    /\ UNCHANGED lifetime

GetSizeOfCache ==
    /\ idCache' = LiveIds
    /\ UNCHANGED <<lifetime, acceptedUntil, repeated>>

SetLifetime(t) ==
    /\ lifetime' = t
    /\ UNCHANGED <<idCache, acceptedUntil, repeated>>

IdCacheNext ==
    \/ \E k \in Ids : IsDuplicateSeen(k) \/ IsDuplicateNew(k)
    \/ GetSizeOfCache
    \/ \E t \in Lifetimes : SetLifetime(t)
=============================================================================
