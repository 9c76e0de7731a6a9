------------------------ MODULE AodvSoftStateProofs ------------------------
(***************************************************************************)
(* What the neighbours, the id cache and the detector of AodvSoftState     *)
(* promise, for all addresses, ids, settings and times.  Each part has an  *)
(* inductive invariant of its own.                                         *)
(***************************************************************************)
EXTENDS AodvSoftState, TLAPS

-----------------------------------------------------------------------------
(* The clock.                                                              *)

\* Time is a natural number.
LEMMA ClockType == Spec => [](now \in Nat)
<1>1. Init => now \in Nat BY DEF Init
<1>2. now \in Nat /\ [Next]_vars => (now \in Nat)'
    BY DEF Next, vars, Tick
<1> QED BY <1>1, <1>2, PTL DEF Spec

\* What a step does to each part: it is one of its own operations, or the part
\* does not change.
LEMMA Steps ==
    ASSUME [Next]_vars, now \in Nat
    PROVE  /\ now' \in Nat
           /\ now' = now \/ (now' = now + 1 /\ ntimer # now /\ UNCHANGED queueVars
                              /\ UNCHANGED nbVars /\ UNCHANGED idVars
                              /\ UNCHANGED detectorVars)
           /\ (QueueNext /\ now' = now) \/ UNCHANGED queueVars
           /\ (NeighborsNext /\ now' = now) \/ UNCHANGED nbVars
           /\ (IdCacheNext /\ now' = now) \/ UNCHANGED idVars
           /\ (DetectorNext /\ now' = now) \/ UNCHANGED detectorVars
BY DEF Next, vars, Tick

-----------------------------------------------------------------------------
(* The neighbours.                                                         *)

\* The timer runs as long as there is a neighbour, has not been missed, and
\* expires no later than the delay after any neighbour is overdue.
NeighborsInv ==
    /\ nb \subseteq NeighbourEntries
    /\ ntimer \in Nat \cup {Off}
    /\ ntimer # Off => now <= ntimer
    /\ nb # {} => ntimer # Off
    /\ \A e \in nb : ntimer <= e.expire + Delay
    /\ arp \in [Neighbour -> Mac \cup {NoMac}]
    /\ attached \in BOOLEAN

\* Purge() keeps the invariant of the neighbours, if the timer it leaves alone
\* is one that has not been missed.
LEMMA PurgeKeepsNeighborsInv ==
    ASSUME now \in Nat, NEW E, E \subseteq NeighbourEntries, NEW closed, NEW t,
           t \in Nat \cup {Off}, t # Off => now <= t,
           PurgeNeighbors(E, closed, t), now' = now,
           UNCHANGED <<attached, arp>>, NeighborsInv
    PROVE  NeighborsInv'
<1> USE NeighbourAssumption DEF Off
<1>1. nb' \subseteq E /\ \A e \in nb' : e.expire >= now /\ e.expire \in Nat
    BY DEF PurgeNeighbors, CloseNeighbor, NeighbourEntries
<1>2. CASE E = {}
    BY <1>1, <1>2 DEF NeighborsInv, PurgeNeighbors
<1>3. CASE E # {}
    <2>1. ntimer' = now + Delay BY <1>3 DEF PurgeNeighbors
    <2> QED BY <1>1, <2>1 DEF NeighborsInv
<1> QED BY <1>2, <1>3

LEMMA NeighborsInvariant == Spec => [](now \in Nat /\ NeighborsInv)
<1> USE NeighbourAssumption
<1>1. Init => now \in Nat /\ NeighborsInv
    <2> SUFFICES ASSUME Init PROVE now \in Nat /\ NeighborsInv
        OBVIOUS
    <2>1. ntimer \in Nat \cup {Off} /\ (ntimer # Off => now <= ntimer) /\ now \in Nat
        <3>1. CASE EnableHello BY <3>1 DEF Init, NeighborsInit, Off
        <3>2. CASE ~EnableHello BY <3>2 DEF Init, NeighborsInit, Off
        <3> QED BY <3>1, <3>2
    <2> QED BY <2>1 DEF Init, NeighborsInit, NeighborsInv
<1>2. ASSUME now \in Nat, NeighborsInv, [Next]_vars PROVE (now \in Nat /\ NeighborsInv)'
    <2>1. now' \in Nat BY <1>2, Steps
    <2>2. CASE now' # now
        <3>1. now' = now + 1 /\ ntimer # now /\ UNCHANGED nbVars BY <1>2, <2>2, Steps
        <3> QED BY <1>2, <2>1, <3>1 DEF NeighborsInv, nbVars, Off
    <2>3. CASE now' = now /\ UNCHANGED nbVars
        BY <1>2, <2>1, <2>3 DEF NeighborsInv, nbVars
    <2>4. CASE now' = now /\ NeighborsNext
        <3> USE <1>2, <2>4
        <3>1. ASSUME NEW e \in nb, NEW i \in Intervals, UpdateKnown(e, i) PROVE NeighborsInv'
            <4> DEFINE u == [e EXCEPT !.expire = IF now + i > e.expire THEN now + i ELSE e.expire,
                                      !.mac = IF e.mac = NoMac THEN LookupMacAddress(e.addr) ELSE e.mac]
            <4> DEFINE until == IF now + i > e.expire THEN now + i ELSE e.expire
                       mac == IF e.mac = NoMac THEN LookupMacAddress(e.addr) ELSE e.mac
            <4>a. e \in NeighbourEntries BY DEF NeighborsInv
            <4>b. until \in Nat /\ until >= e.expire
                BY <4>a DEF NeighbourEntries
            <4>c. mac \in Mac \cup {NoMac}
                BY <4>a DEF NeighborsInv, NeighbourEntries, LookupMacAddress
            <4>d. u = [e EXCEPT !.expire = until, !.mac = mac] OBVIOUS
            <4> HIDE DEF u, until, mac
            <4>1. u \in NeighbourEntries /\ u.expire >= e.expire
                BY <4>a, <4>b, <4>c, <4>d DEF NeighbourEntries
            <4> USE DEF u
            <4>2. nb' = (nb \ {e}) \cup {u} /\ UNCHANGED <<ntimer, attached, arp>>
                BY <3>1 DEF UpdateKnown
            <4>3. ntimer <= u.expire + Delay
                BY <4>1, <3>1 DEF NeighborsInv, NeighbourEntries, Off
            <4> HIDE DEF u
            <4> QED BY <3>1, <4>1, <4>2, <4>3 DEF NeighborsInv
        <3>2. ASSUME NEW a \in Neighbour, NEW i \in Intervals, UpdateNew(a, i) PROVE NeighborsInv'
            <4> DEFINE u == [addr |-> a, mac |-> LookupMacAddress(a), expire |-> now + i]
            <4>1. u \in NeighbourEntries
                BY <3>2 DEF NeighborsInv, NeighbourEntries, LookupMacAddress
            <4>2. PurgeNeighbors(nb \cup {u}, {}, ntimer) /\ UNCHANGED <<attached, arp>>
                BY <3>2 DEF UpdateNew
            <4> HIDE DEF u
            <4> QED BY <4>1, <4>2, PurgeKeepsNeighborsInv DEF NeighborsInv
        <3>3. QueryNeighbors => NeighborsInv'
            BY PurgeKeepsNeighborsInv DEF NeighborsInv, QueryNeighbors
        <3>4. NeighborTimerExpire => NeighborsInv'
            BY PurgeKeepsNeighborsInv DEF NeighborsInv, NeighborTimerExpire, Off
        <3>5. ASSUME NEW m \in Mac, ProcessTxError(m) PROVE NeighborsInv'
            BY <3>5, PurgeKeepsNeighborsInv DEF NeighborsInv, ProcessTxError
        <3>6. ClearNeighbors => NeighborsInv'
            BY DEF NeighborsInv, ClearNeighbors
        <3>7. ASSUME NEW on \in BOOLEAN, SetArpCache(on) PROVE NeighborsInv'
            BY <3>7 DEF NeighborsInv, SetArpCache
        <3>8. ASSUME NEW a \in Neighbour, NEW m \in Mac \cup {NoMac}, ArpChange(a, m)
              PROVE  NeighborsInv'
            BY <3>8 DEF NeighborsInv, ArpChange
        <3> QED BY <3>1, <3>2, <3>3, <3>4, <3>5, <3>6, <3>7, <3>8 DEF NeighborsNext
    <2> QED BY <1>2, <2>1, <2>2, <2>3, <2>4, Steps
<1> QED BY <1>1, <1>2, PTL DEF Spec

\* No neighbour stays for longer than the delay of the timer after it was due,
\* whatever calls of Update, Purge, Clear and ProcessTxError come in between.
THEOREM OverdueLeave == Spec => []OverdueNeighboursLeave
<1>1. now \in Nat /\ NeighborsInv => OverdueNeighboursLeave
    BY NeighbourAssumption DEF NeighborsInv, OverdueNeighboursLeave, NeighbourEntries, Off
<1> QED BY <1>1, NeighborsInvariant, PTL

-----------------------------------------------------------------------------
(* The id cache.                                                           *)

\* An acceptance that counts has an entry in the cache.
IdCacheInv ==
    /\ lifetime \in Nat
    /\ acceptedUntil \in [Ids -> Int]
    /\ repeated = FALSE
    /\ \A k \in Ids : acceptedUntil[k] >= now =>
          \E u \in idCache : u.key = k /\ u.expire = acceptedUntil[k]

LEMMA IdCacheInvariant == Spec => [](now \in Nat /\ IdCacheInv)
<1> USE IdCacheAssumption
<1>1. Init => now \in Nat /\ IdCacheInv
    BY DEF Init, IdCacheInit, IdCacheInv
<1>2. ASSUME now \in Nat, IdCacheInv, [Next]_vars PROVE (now \in Nat /\ IdCacheInv)'
    <2>1. now' \in Nat BY <1>2, Steps
    <2>2. CASE now' # now
        <3>1. now' = now + 1 /\ UNCHANGED idVars BY <1>2, <2>2, Steps
        <3> QED BY <1>2, <2>1, <3>1 DEF IdCacheInv, idVars
    <2>3. CASE now' = now /\ UNCHANGED idVars
        BY <1>2, <2>1, <2>3 DEF IdCacheInv, idVars
    <2>4. CASE now' = now /\ IdCacheNext
        <3> USE <1>2, <2>4
        <3>1. ASSUME NEW k \in Ids, IsDuplicateSeen(k) PROVE IdCacheInv'
            BY <3>1 DEF IdCacheInv, IsDuplicateSeen, LiveIds
        <3>2. ASSUME NEW k \in Ids, IsDuplicateNew(k) PROVE IdCacheInv'
            <4>1. ~(acceptedUntil[k] >= now)
                BY <3>2 DEF IdCacheInv, IsDuplicateNew, LiveIds
            <4>2. repeated' = FALSE
                BY <3>2, <4>1 DEF IdCacheInv, IsDuplicateNew
            <4>3. ASSUME NEW j \in Ids, acceptedUntil'[j] >= now'
                  PROVE  \E u \in idCache' : u.key = j /\ u.expire = acceptedUntil'[j]
                <5>1. CASE j = k
                    <6> DEFINE u == [key |-> k, expire |-> lifetime + now]
                    <6>1. u \in idCache' /\ u.key = j /\ u.expire = lifetime + now
                        BY <3>2, <5>1 DEF IsDuplicateNew
                    <6>2. acceptedUntil'[j] = lifetime + now
                        BY <3>2, <5>1 DEF IdCacheInv, IsDuplicateNew
                    <6> QED BY <6>1, <6>2
                <5>2. CASE j # k
                    <6>1. acceptedUntil'[j] = acceptedUntil[j]
                        BY <3>2, <5>2 DEF IdCacheInv, IsDuplicateNew
                    <6>2. PICK u \in idCache : u.key = j /\ u.expire = acceptedUntil[j]
                        BY <4>3, <6>1 DEF IdCacheInv
                    <6>3. u \in idCache'
                        BY <3>2, <4>3, <6>1, <6>2 DEF IsDuplicateNew, LiveIds
                    <6> QED BY <6>1, <6>2, <6>3
                <5> QED BY <5>1, <5>2
            <4> QED BY <3>2, <4>2, <4>3 DEF IdCacheInv, IsDuplicateNew
        <3>3. GetSizeOfCache => IdCacheInv'
            BY DEF IdCacheInv, GetSizeOfCache, LiveIds
        <3>4. ASSUME NEW t \in Lifetimes, SetLifetime(t) PROVE IdCacheInv'
            BY <3>4 DEF IdCacheInv, SetLifetime
        <3> QED BY <2>1, <3>1, <3>2, <3>3, <3>4 DEF IdCacheNext
    <2> QED BY <1>2, <2>1, <2>2, <2>3, <2>4, Steps
<1> QED BY <1>1, <1>2, PTL DEF Spec

\* No RREQ is processed and no broadcast packet delivered twice while the cache
\* should know it, also if the lifetime of the entries is changed.
THEOREM IdsAcceptedOnce == Spec => []AcceptedOnce
<1>1. IdCacheInv => AcceptedOnce
    BY DEF IdCacheInv, AcceptedOnce
<1> QED BY <1>1, IdCacheInvariant, PTL

-----------------------------------------------------------------------------
(* The wormhole detector.                                                  *)

\* A probe that is out started in the past, an echo under way belongs to the
\* verification of its neighbour, and what was learned lies where it should.
DetectorInv ==
    /\ requests \subseteq [dst : Dest, at : Nat]
    /\ rttProbeStart \in [Dest -> Int]
    /\ \A d \in Dest : rttProbeStart[d] # None => rttProbeStart[d] \in 0..now
    /\ verificationStart \in [Peer -> Int]
    /\ \A s \in Peer : verificationStart[s] # None => verificationStart[s] \in 0..now
    /\ echoes \subseteq [peer : Peer, at : Nat]
    /\ SecondProbeIsTimed
    /\ estimatedMean \in [Peer -> Int]
    /\ estimatedVar \in [Peer -> Int]
    /\ accepted \in [Peer -> [lowest : Nat, highest : Nat]]
    /\ LearnedRttWithinAccepted

\* The rounded part of a difference lies between zero and the difference.
LEMMA PartBetween ==
    ASSUME NEW t \in Int, NEW n \in {4, 8}
    PROVE  /\ Part(t, n) \in Int
           /\ t >= 0 => 0 <= Part(t, n) /\ Part(t, n) <= t
           /\ t < 0 => t <= Part(t, n) /\ Part(t, n) <= 0
<1>1. CASE n = 4 BY <1>1 DEF Part, Absolute
<1>2. CASE n = 8 BY <1>2 DEF Part, Absolute
<1> QED BY <1>1, <1>2

\* A round trip is a natural number of parts.
LEMMA RoundTrip ==
    ASSUME now \in Nat, NEW t \in 0..now
    PROVE  Scale * (now - t) \in Nat
<1>1. now - t \in Nat /\ Scale \in Nat BY DetectorAssumption
<1>2. \A x, y \in Nat : x * y \in Nat BY SMT
<1> QED BY <1>1, <1>2

\* Learning a round trip keeps mean and deviation within those accepted.
LEMMA UpdateStats ==
    ASSUME DetectorInv, NEW s \in Peer, NEW sample \in Nat, UpdateNeighborRttStats(s, sample)
    PROVE  /\ estimatedMean' \in [Peer -> Int]
           /\ estimatedVar' \in [Peer -> Int]
           /\ accepted' \in [Peer -> [lowest : Nat, highest : Nat]]
           /\ LearnedRttWithinAccepted'
<1> DEFINE mean == estimatedMean[s]
           var == estimatedVar[s]
           low == accepted[s].lowest
           high == accepted[s].highest
           mean2 == IF mean = None THEN sample ELSE mean + Part(sample - mean, 8)
           var2 == IF mean = None THEN sample \div 2 ELSE var + Part(Absolute(sample - mean) - var, 4)
           acc2 == IF mean = None THEN [lowest |-> sample, highest |-> sample]
                   ELSE [lowest |-> Smaller(low, sample), highest |-> Larger(high, sample)]
<1>1. /\ estimatedMean' = [estimatedMean EXCEPT ![s] = mean2]
      /\ estimatedVar' = [estimatedVar EXCEPT ![s] = var2]
      /\ accepted' = [accepted EXCEPT ![s] = acc2]
    BY DEF DetectorInv, UpdateNeighborRttStats
<1>2. mean \in Int /\ var \in Int /\ low \in Nat /\ high \in Nat
    BY DEF DetectorInv
<1>3. mean # None => low <= mean /\ mean <= high /\ 0 <= var /\ var <= high
    BY DEF DetectorInv, LearnedRttWithinAccepted
<1>4. /\ mean2 \in Int /\ var2 \in Int
      /\ acc2 \in [lowest : Nat, highest : Nat]
      /\ acc2.lowest <= mean2 /\ mean2 <= acc2.highest
      /\ 0 <= var2 /\ var2 <= acc2.highest
    <2> HIDE DEF mean, var, low, high
    <2>1. CASE mean = None
        BY <1>2, <2>1
    <2>2. CASE mean # None
        <3> DEFINE d == Absolute(sample - mean)
        <3>1. d \in Nat /\ d <= Larger(high, sample)
            BY <1>2, <1>3, <2>2 DEF Absolute, Larger
        <3>2. /\ Smaller(low, sample) \in Nat /\ Larger(high, sample) \in Nat
              /\ Smaller(low, sample) <= low /\ Smaller(low, sample) <= sample
              /\ high <= Larger(high, sample) /\ sample <= Larger(high, sample)
            BY <1>2 DEF Smaller, Larger
        <3>3. /\ mean2 = mean + Part(sample - mean, 8)
              /\ var2 = var + Part(d - var, 4)
              /\ acc2 = [lowest |-> Smaller(low, sample), highest |-> Larger(high, sample)]
            BY <2>2
        <3> HIDE DEF mean2, var2, acc2, d
        <3>4. /\ Part(sample - mean, 8) \in Int
              /\ sample - mean >= 0 => 0 <= Part(sample - mean, 8) /\ Part(sample - mean, 8) <= sample - mean
              /\ sample - mean < 0 => sample - mean <= Part(sample - mean, 8) /\ Part(sample - mean, 8) <= 0
            BY <1>2, PartBetween
        <3>5. /\ Part(d - var, 4) \in Int
              /\ d - var >= 0 => 0 <= Part(d - var, 4) /\ Part(d - var, 4) <= d - var
              /\ d - var < 0 => d - var <= Part(d - var, 4) /\ Part(d - var, 4) <= 0
            BY <1>2, <3>1, PartBetween
        <3>6. /\ mean2 \in Int
              /\ Smaller(low, sample) <= mean2 /\ mean2 <= Larger(high, sample)
            BY <1>2, <1>3, <2>2, <3>2, <3>3, <3>4
        <3>7. /\ var2 \in Int
              /\ 0 <= var2 /\ var2 <= Larger(high, sample)
            BY <1>2, <1>3, <2>2, <3>1, <3>2, <3>3, <3>5
        <3> QED BY <3>2, <3>3, <3>6, <3>7
    <2> QED BY <2>1, <2>2
<1> HIDE DEF mean, var, low, high, mean2, var2, acc2
<1>5. /\ estimatedMean' \in [Peer -> Int]
      /\ estimatedVar' \in [Peer -> Int]
      /\ accepted' \in [Peer -> [lowest : Nat, highest : Nat]]
    BY <1>1, <1>4 DEF DetectorInv
<1>6. ASSUME NEW q \in Peer, estimatedMean'[q] # None
      PROVE  /\ accepted'[q].lowest <= estimatedMean'[q] /\ estimatedMean'[q] <= accepted'[q].highest
             /\ 0 <= estimatedVar'[q] /\ estimatedVar'[q] <= accepted'[q].highest
    <2>1. CASE q = s
        BY <1>1, <1>4, <2>1 DEF DetectorInv
    <2>2. CASE q # s
        <3>1. estimatedMean'[q] = estimatedMean[q] /\ estimatedVar'[q] = estimatedVar[q]
              /\ accepted'[q] = accepted[q]
            BY <1>1, <2>2 DEF DetectorInv
        <3> QED BY <1>6, <3>1 DEF DetectorInv, LearnedRttWithinAccepted
    <2> QED BY <2>1, <2>2
<1> QED BY <1>5, <1>6 DEF LearnedRttWithinAccepted

\* An echo is the only one of its neighbour.
LEMMA OneEcho ==
    ASSUME DetectorInv, NEW e \in echoes, NEW f \in echoes, e.peer = f.peer
    PROVE  e = f
<1>1. e.at = f.at BY DEF DetectorInv, SecondProbeIsTimed
<1> QED BY <1>1 DEF DetectorInv

\* An answered probe was out, and no probe is out for its destination afterwards.
LEMMA AnsweredKeeps ==
    ASSUME now \in Nat, now' = now, DetectorInv, NEW r \in requests, NEW s \in Peer,
           ProbeAnswered(r, s)
    PROVE  /\ requests' \subseteq [dst : Dest, at : Nat]
           /\ rttProbeStart' \in [Dest -> Int]
           /\ \A d \in Dest : rttProbeStart'[d] # None => rttProbeStart'[d] \in 0..now'
           /\ "RVERIFY" \notin misread'
           /\ Scale * (now - rttProbeStart[r.dst]) \in Nat
<1>1. r.dst \in Dest BY DEF DetectorInv
<1>2. Scale * (now - rttProbeStart[r.dst]) \in Nat
    BY <1>1, RoundTrip DEF DetectorInv, ProbeAnswered
<1>3. "RVERIFY" \notin misread'
    BY DEF DetectorInv, SecondProbeIsTimed, ProbeAnswered
<1>4. \A d \in Dest : rttProbeStart'[d] # None => rttProbeStart'[d] \in 0..now'
    BY DEF DetectorInv, ProbeAnswered
<1> QED BY <1>1, <1>2, <1>3, <1>4 DEF DetectorInv, ProbeAnswered, None

\* The echo that is measured leaves the others as they were.
LEMMA EchoKeeps ==
    ASSUME now \in Nat, now' = now, DetectorInv, NEW e \in echoes, EchoMeasured(e)
    PROVE  /\ verificationStart' \in [Peer -> Int]
           /\ \A s \in Peer : verificationStart'[s] # None => verificationStart'[s] \in 0..now'
           /\ echoes' \subseteq [peer : Peer, at : Nat]
           /\ SecondProbeIsTimed'
           /\ Scale * (now - verificationStart[e.peer]) \in Nat
           /\ e.peer \in Peer
           /\ UNCHANGED <<rttProbeStart, requests>>
<1>1. e.peer \in Peer BY DEF DetectorInv
<1>2. Scale * (now - verificationStart[e.peer]) \in Nat
    BY <1>1, RoundTrip DEF DetectorInv, EchoMeasured
<1>3. "RVERIFY" \notin misread'
    BY DEF DetectorInv, SecondProbeIsTimed, EchoMeasured
<1>4. ASSUME NEW f \in echoes' PROVE f.peer \in verifying' /\ verificationStart'[f.peer] = f.at
    <2>1. f \in echoes /\ f # e BY DEF EchoMeasured
    <2>2. f.peer # e.peer /\ f.peer \in Peer BY <2>1, OneEcho DEF DetectorInv
    <2> QED BY <2>1, <2>2 DEF DetectorInv, SecondProbeIsTimed, EchoMeasured
<1>5. \A s \in Peer : verificationStart'[s] # None => verificationStart'[s] \in 0..now'
    BY DEF DetectorInv, EchoMeasured
<1> QED BY <1>1, <1>2, <1>3, <1>4, <1>5 DEF DetectorInv, SecondProbeIsTimed, EchoMeasured, None

\* A second probe is one that is timed.
LEMMA VerificationKeeps ==
    ASSUME now \in Nat, now' = now, DetectorInv, NEW s \in Peer,
           SendVerificationTestPacket(s), "RVERIFY" \notin misread'
    PROVE  /\ verificationStart' \in [Peer -> Int]
           /\ \A q \in Peer : verificationStart'[q] # None => verificationStart'[q] \in 0..now'
           /\ echoes' \subseteq [peer : Peer, at : Nat]
           /\ SecondProbeIsTimed'
<1>1. CASE s \in verifying
    BY <1>1 DEF DetectorInv, SecondProbeIsTimed, SendVerificationTestPacket
<1>2. CASE s \notin verifying
    <2>1. /\ verifying' = verifying \cup {s}
          /\ verificationStart' = [verificationStart EXCEPT ![s] = now]
          /\ echoes' = echoes \cup {[peer |-> s, at |-> now]}
        BY <1>2 DEF SendVerificationTestPacket
    <2>2. ASSUME NEW f \in echoes' PROVE f.peer \in verifying' /\ verificationStart'[f.peer] = f.at
        <3>1. CASE f \in echoes
            <4>1. f.peer # s /\ f.peer \in Peer
                BY <1>2, <3>1 DEF DetectorInv, SecondProbeIsTimed
            <4> QED BY <2>1, <3>1, <4>1 DEF DetectorInv, SecondProbeIsTimed
        <3>2. CASE f = [peer |-> s, at |-> now]
            BY <2>1, <3>2 DEF DetectorInv
        <3> QED BY <2>1, <3>1, <3>2
    <2>3. \A q \in Peer : verificationStart'[q] # None => verificationStart'[q] \in 0..now'
        BY <2>1 DEF DetectorInv
    <2> QED BY <2>1, <2>2, <2>3 DEF DetectorInv, SecondProbeIsTimed
<1> QED BY <1>1, <1>2

LEMMA DetectorInvariant == Spec => [](now \in Nat /\ DetectorInv)
<1>1. Init => now \in Nat /\ DetectorInv
    BY DEF Init, DetectorInit, DetectorInv, SecondProbeIsTimed, LearnedRttWithinAccepted, None
<1>2. ASSUME now \in Nat, DetectorInv, [Next]_vars PROVE (now \in Nat /\ DetectorInv)'
    <2>1. now' \in Nat BY <1>2, Steps
    <2>2. CASE now' = now + 1 /\ UNCHANGED detectorVars
        BY <1>2, <2>1, <2>2 DEF DetectorInv, SecondProbeIsTimed, LearnedRttWithinAccepted,
                               detectorVars, detectorStats
    <2>3. CASE now' = now /\ UNCHANGED detectorVars
        BY <1>2, <2>1, <2>3 DEF DetectorInv, SecondProbeIsTimed, LearnedRttWithinAccepted,
                               detectorVars, detectorStats
    <2>4. CASE now' = now /\ DetectorNext
        <3> USE <1>2, <2>4
        <3>1. ASSUME NEW f \in BOOLEAN, SetSecondProbeVerificationEnable(f) PROVE DetectorInv'
            BY <3>1 DEF DetectorInv, SecondProbeIsTimed, LearnedRttWithinAccepted,
                        detectorStats, SetSecondProbeVerificationEnable
        <3>2. ASSUME NEW d \in Dest, StartRttProbe(d) PROVE DetectorInv'
            <4>1. rttProbeStart' \in [Dest -> Int]
                  /\ \A c \in Dest : rttProbeStart'[c] # None => rttProbeStart'[c] \in 0..now'
                BY <3>2 DEF DetectorInv, StartRttProbe
            <4>2. requests' \subseteq [dst : Dest, at : Nat]
                BY <3>2 DEF DetectorInv, StartRttProbe
            <4> QED BY <3>2, <4>1, <4>2 DEF DetectorInv, SecondProbeIsTimed,
                        LearnedRttWithinAccepted, detectorStats, StartRttProbe
        <3>3. ASSUME NEW r \in requests, NEW s \in Peer, EvaluateRttProbeNormal(r, s)
              PROVE  DetectorInv'
            BY <3>3, AnsweredKeeps, UpdateStats
               DEF EvaluateRttProbeNormal, DetectorInv, SecondProbeIsTimed
        <3>4. ASSUME NEW r \in requests, NEW s \in Peer, EvaluateRttProbeDetected(r, s)
              PROVE  DetectorInv'
            BY <3>4, AnsweredKeeps DEF EvaluateRttProbeDetected, DetectorInv, SecondProbeIsTimed,
                        LearnedRttWithinAccepted, detectorStats
        <3>5. ASSUME NEW r \in requests, NEW s \in Peer, EvaluateRttProbeSuspected(r, s)
              PROVE  DetectorInv'
            <4>1. ProbeAnswered(r, s) /\ SendVerificationTestPacket(s) /\ UNCHANGED detectorStats
                BY <3>5 DEF EvaluateRttProbeSuspected
            <4> QED BY <4>1, AnsweredKeeps, VerificationKeeps
                    DEF DetectorInv, LearnedRttWithinAccepted, detectorStats
        <3>6. ASSUME NEW e \in echoes, EvaluateVerificationProbeConfirmed(e) PROVE DetectorInv'
            BY <3>6, EchoKeeps DEF EvaluateVerificationProbeConfirmed, DetectorInv,
                        LearnedRttWithinAccepted, detectorStats
        <3>7. ASSUME NEW e \in echoes, EvaluateVerificationProbeCleared(e) PROVE DetectorInv'
            BY <3>7, EchoKeeps, UpdateStats DEF EvaluateVerificationProbeCleared, DetectorInv
        <3> QED BY <3>1, <3>2, <3>3, <3>4, <3>5, <3>6, <3>7 DEF DetectorNext
    <2> QED BY <1>2, <2>1, <2>2, <2>3, <2>4, Steps
<1> QED BY <1>1, <1>2, PTL DEF Spec

\* However anomalies, answers and time alternate, an echo finds the probe it
\* answers, with its own start time.
THEOREM SecondProbesTimed == Spec => []SecondProbeIsTimed
<1>1. DetectorInv => SecondProbeIsTimed BY DEF DetectorInv
<1> QED BY <1>1, DetectorInvariant, PTL

\* The mean and the deviation of a neighbour never leave the range of the round
\* trips that were accepted, for every unit and order of the samples.
THEOREM LearnedRttBounded == Spec => []LearnedRttWithinAccepted
<1>1. DetectorInv => LearnedRttWithinAccepted BY DEF DetectorInv
<1> QED BY <1>1, DetectorInvariant, PTL
=============================================================================
