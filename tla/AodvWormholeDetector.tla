------------------------ MODULE AodvWormholeDetector ------------------------
(***************************************************************************)
(* The RTT wormhole detector of one node, inside RoutingProtocol           *)
(* (src/aodv/model/aodv-routing-protocol.cc), with its times: when a probe *)
(* started, which round trips a neighbour usually has, which ones are      *)
(* anomalous and until when a neighbour is suspect.  AodvControl leaves    *)
(* the outcome of these comparisons open.                                  *)
(*                                                                         *)
(* The first probe is a RREQ and its RREP.  The second one is an RVERIFY   *)
(* that the neighbour echoes.  Round trips are compared in parts of the    *)
(* clock's unit, Scale of them.                                            *)
(***************************************************************************)
EXTENDS AodvClock, FiniteSets

CONSTANTS
    Peer,                       \* The neighbours.
    Dest,                       \* The destinations that are searched for.
    Scale,
    NodeTraversalTime,          \* These, in parts of the unit.
    CpuProcessBase,
    TransmissionTime,           \* EstimateTransmissionTime of a control packet.
    Pd,
    DefaultVariation,           \* 1 ms.
    SmallVariation,             \* 1 us.
    MuHalves,                   \* Twice m_wormholeMu.
    BufferLimit,                \* m_maxQueueLen.
    BlackListTimeout,           \* In units.
    MaxRequests                 \* Bound: the number of RREQs.

ASSUME DetectorAssumption ==
    /\ {Scale, NodeTraversalTime, CpuProcessBase, TransmissionTime, Pd, DefaultVariation,
        SmallVariation, MuHalves, BufferLimit, BlackListTimeout, MaxRequests} \subseteq Nat
    /\ BufferLimit > 0

VARIABLES
    secondProbe,        \* m_enableSecondProbeVerification.
    rttProbeStart,      \* m_rttProbeStartTime, or None.
    estimatedMean,      \* m_neighborEstimatedRtt, or None.
    estimatedVar,       \* m_neighborEstimatedVar.
    verifying,          \* m_underVerification.
    verificationStart,  \* m_verificationProbeStartTime, or None.
    suspectUntil,       \* m_suspectUntil, or None.
    detected,           \* m_detectedWormholePeers.
    requests,           \* The RREQs sent, which any neighbour may answer any time.
    echoes,             \* The RVERIFYs under way.
    misread,            \* History: probes that were not measured from their start,
    accepted            \* and the smallest and largest RTT learned of a neighbour.

detectorStats == <<estimatedMean, estimatedVar, accepted>>
detectorVars == <<secondProbe, rttProbeStart, detectorStats, verifying, verificationStart, suspectUntil,
                  detected, requests, echoes, misread>>

None == -1

DetectorInit ==
    /\ secondProbe \in BOOLEAN
    /\ rttProbeStart = [d \in Dest |-> None]
    /\ estimatedMean = [s \in Peer |-> None]
    /\ estimatedVar = [s \in Peer |-> 0]
    /\ verifying = {}
    /\ verificationStart = [s \in Peer |-> None]
    /\ suspectUntil = [s \in Peer |-> None]
    /\ detected = {}
    /\ requests = {}
    /\ echoes = {}
    /\ misread = {}
    /\ accepted = [s \in Peer |-> [lowest |-> 0, highest |-> 0]]

-----------------------------------------------------------------------------
Absolute(t) == IF t < 0 THEN -t ELSE t

Smaller(s, t) == IF s < t THEN s ELSE t

Larger(s, t) == IF s > t THEN s ELSE t

\* t / n, rounded half away from zero, as Time::FromDouble does.
Part(t, n) ==
    LET rounded == (2 * Absolute(t) + n) \div (2 * n)
    IN  IF t < 0 THEN -rounded ELSE rounded

EstimateProcessingTime(load) ==
    CpuProcessBase + Part(CpuProcessBase * Smaller(load, BufferLimit), BufferLimit)

\* The RTT that is usual for s while load probes are out.
ExpectedRtt(s, load) ==
    LET baseline == IF estimatedMean[s] = None THEN 2 * NodeTraversalTime ELSE estimatedMean[s]
    IN  baseline + EstimateProcessingTime(load) + TransmissionTime + Pd

Variation(s) == IF estimatedVar[s] > SmallVariation THEN estimatedVar[s] ELSE DefaultVariation

\* Whether the code takes an RTT of s for that of a wormhole.
Anomalous(s, load, rtt) ==
    Absolute(rtt - ExpectedRtt(s, load)) > Part(MuHalves * Variation(s), 2)

\* Mutant: the error has the wrong sign, and the mean moves away from the sample.
UpdateNeighborRttStatsOvershoots(s, sample) ==
    LET mean == estimatedMean[s]
    IN  /\ estimatedMean' = [estimatedMean EXCEPT ![s] =
              IF mean = None THEN sample ELSE mean + Part(mean - sample, 8)]
        /\ estimatedVar' = [estimatedVar EXCEPT ![s] =
              IF mean = None THEN sample \div 2
              ELSE @ + Part(Absolute(sample - mean) - @, 4)]
        /\ accepted' = [accepted EXCEPT ![s] =
              IF mean = None THEN [lowest |-> sample, highest |-> sample]
              ELSE [lowest |-> Smaller(@.lowest, sample), highest |-> Larger(@.highest, sample)]]

UpdateNeighborRttStats(s, sample) ==
    LET mean == estimatedMean[s]
    IN  /\ estimatedMean' = [estimatedMean EXCEPT ![s] =
              IF mean = None THEN sample ELSE mean + Part(sample - mean, 8)]
        /\ estimatedVar' = [estimatedVar EXCEPT ![s] =
              IF mean = None THEN sample \div 2
              ELSE @ + Part(Absolute(sample - mean) - @, 4)]
        /\ accepted' = [accepted EXCEPT ![s] =
              IF mean = None THEN [lowest |-> sample, highest |-> sample]
              ELSE [lowest |-> Smaller(@.lowest, sample), highest |-> Larger(@.highest, sample)]]

IsNeighborTemporarilySuspect(s) == suspectUntil[s] # None /\ now <= suspectUntil[s]

\* The neighbour counts as the end of a wormhole for some time.
Condemn(s) ==
    /\ suspectUntil' = [suspectUntil EXCEPT ![s] = now + BlackListTimeout]
    /\ detected' = detected \cup {s}

OutstandingProbes(start) == Cardinality({k \in DOMAIN start : start[k] # None})

-----------------------------------------------------------------------------
\* SendRequest calls StartRttProbe for every RREQ, the repeated ones too.
StartRttProbe(d) ==
    /\ Cardinality(requests) < MaxRequests
    /\ rttProbeStart' = [rttProbeStart EXCEPT ![d] = now]
    /\ requests' = requests \cup {[dst |-> d, at |-> now]}
    /\ UNCHANGED <<secondProbe, detectorStats, verifying, verificationStart, suspectUntil,
                   detected, echoes, misread>>

\* A RREP for r arrives from s and finds a probe; the probe is over.
ProbeAnswered(r, s) ==
    /\ ~IsNeighborTemporarilySuspect(s)
    /\ rttProbeStart[r.dst] # None
    /\ rttProbeStart' = [rttProbeStart EXCEPT ![r.dst] = None]
    /\ misread' = misread \cup (IF rttProbeStart[r.dst] = r.at THEN {} ELSE {"RREP"})
    /\ UNCHANGED <<secondProbe, requests>>

AnswerIsAnomalous(r, s) ==
    Anomalous(s, OutstandingProbes(rttProbeStart), Scale * (now - rttProbeStart[r.dst]))

EvaluateRttProbeNormal(r, s) ==
    /\ ProbeAnswered(r, s)
    /\ ~AnswerIsAnomalous(r, s)
    /\ UpdateNeighborRttStats(s, Scale * (now - rttProbeStart[r.dst]))
    /\ UNCHANGED <<verifying, verificationStart, suspectUntil, detected, echoes>>

\* Without a second probe the neighbour is condemned, and the RREP rejected.
EvaluateRttProbeDetected(r, s) ==
    /\ ~secondProbe
    /\ ProbeAnswered(r, s)
    /\ AnswerIsAnomalous(r, s)
    /\ Condemn(s)
    /\ UNCHANGED <<detectorStats, verifying, verificationStart, echoes>>

\* Mutant: another second probe while the first one is under way.
SendVerificationTestPacketAgain(s) ==
    /\ verifying' = verifying \cup {s}
    /\ verificationStart' = [verificationStart EXCEPT ![s] = now]
    /\ echoes' = echoes \cup {[peer |-> s, at |-> now]}

\* The second probe, unless one is under way.
SendVerificationTestPacket(s) ==
    IF s \in verifying THEN UNCHANGED <<verifying, verificationStart, echoes>>
    ELSE /\ verifying' = verifying \cup {s}
         /\ verificationStart' = [verificationStart EXCEPT ![s] = now]
         /\ echoes' = echoes \cup {[peer |-> s, at |-> now]}

EvaluateRttProbeSuspected(r, s) ==
    /\ secondProbe
    /\ ProbeAnswered(r, s)
    /\ AnswerIsAnomalous(r, s)
    /\ SendVerificationTestPacket(s)
    /\ UNCHANGED <<detectorStats, suspectUntil, detected>>

\* The echo e of a second probe arrives, and its time is taken.
EchoMeasured(e) ==
    /\ e.peer \in verifying
    /\ verificationStart[e.peer] # None
    /\ verifying' = verifying \ {e.peer}
    /\ verificationStart' = [verificationStart EXCEPT ![e.peer] = None]
    /\ echoes' = echoes \ {e}
    /\ misread' = misread \cup (IF verificationStart[e.peer] = e.at THEN {} ELSE {"RVERIFY"})
    /\ UNCHANGED <<secondProbe, rttProbeStart, requests>>

EchoIsAnomalous(e) ==
    Anomalous(e.peer, OutstandingProbes(verificationStart),
              Scale * (now - verificationStart[e.peer]))

EvaluateVerificationProbeConfirmed(e) ==
    /\ EchoMeasured(e)
    /\ EchoIsAnomalous(e)
    /\ Condemn(e.peer)
    /\ UNCHANGED detectorStats

EvaluateVerificationProbeCleared(e) ==
    /\ EchoMeasured(e)
    /\ ~EchoIsAnomalous(e)
    /\ UpdateNeighborRttStats(e.peer, Scale * (now - verificationStart[e.peer]))
    /\ UNCHANGED <<suspectUntil, detected>>

SetSecondProbeVerificationEnable(f) ==
    /\ secondProbe' = f
    /\ UNCHANGED <<rttProbeStart, detectorStats, verifying, verificationStart, suspectUntil,
                   detected, requests, echoes, misread>>

DetectorNext ==
    \/ \E f \in BOOLEAN : SetSecondProbeVerificationEnable(f)
    \/ \E d \in Dest : StartRttProbe(d)
    \/ \E r \in requests, s \in Peer :
          \/ EvaluateRttProbeNormal(r, s)
          \/ EvaluateRttProbeDetected(r, s)
          \/ EvaluateRttProbeSuspected(r, s)
    \/ \E e \in echoes :
          \/ EvaluateVerificationProbeConfirmed(e)
          \/ EvaluateVerificationProbeCleared(e)
=============================================================================
