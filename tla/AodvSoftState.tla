---------------------------- MODULE AodvSoftState ----------------------------
(***************************************************************************)
(* The tables of one node that live by the clock: the request queue, the   *)
(* neighbours, the id cache and the wormhole detector.  Time is the        *)
(* simulator's, in whole units; any number of calls may happen at the same *)
(* time, in any order, and time does not pass a timer that is due.         *)
(***************************************************************************)
EXTENDS AodvRequestQueue, AodvNeighbors, AodvIdCache, AodvWormholeDetector

CONSTANT MaxTime    \* Bound: the time at which a behaviour ends.

vars == <<now, queueVars, nbVars, idVars, detectorVars>>

Init ==
    /\ now = 0
    /\ QueueInit
    /\ NeighborsInit
    /\ IdCacheInit
    /\ DetectorInit

Tick ==
    /\ now < MaxTime
    /\ ntimer # now
    /\ now' = now + 1
    /\ UNCHANGED <<queueVars, nbVars, idVars, detectorVars>>

Next ==
    \/ Tick
    \/ QueueNext /\ UNCHANGED <<now, nbVars, idVars, detectorVars>>
    \/ NeighborsNext /\ UNCHANGED <<now, queueVars, idVars, detectorVars>>
    \/ IdCacheNext /\ UNCHANGED <<now, queueVars, nbVars, detectorVars>>
    \/ DetectorNext /\ UNCHANGED <<now, queueVars, nbVars, idVars>>

Spec == Init /\ [][Next]_vars

-----------------------------------------------------------------------------
Buffer == INSTANCE AodvPacketBuffer WITH
    waiting <- Waits(queue), limit <- maxLen

\* The request queue is the buffer that the protocol modules use: it holds no
\* packet twice, does not grow past a limit it is within, and each packet it takes is
\* either sent or has its error callback called, once, however calls, expiry,
\* overflow and changes of the limit and the time-out alternate.
QueueIsBuffer == Buffer!Spec

\* Packets for one destination are sent in the order of their arrival, also if
\* time-outs change and some of them expire in between: a packet that was sent
\* came before those that wait, and nothing is sent that came after a packet
\* that is still there (Dequeue, SendPacketFromQueue).
SentInOrder ==
    \A w \in sent, e \in queue : w[1].dst = e.packet.dst => w[2] < e.arrival

\* A neighbour that is overdue stays for no more than the delay of the timer.
\* Purge() does not start the timer again if there is no neighbour, Clear()
\* empties the table behind the timer's back, and without hello messages
\* nothing but Update and Purge ever starts it.
OverdueNeighboursLeave == \A e \in nb : now <= e.expire + Delay

\* No id is accepted again while an earlier acceptance of it counts: a RREQ is
\* processed, and a broadcast packet delivered, at most once in this time.
AcceptedOnce == ~repeated

\* What the detector learns of a neighbour stays within the round trips it has
\* accepted: rounding and the two gains of UpdateNeighborRttStats never carry
\* the mean out of their range, nor the deviation below zero or past the largest.
LearnedRttWithinAccepted ==
    \A s \in Peer : estimatedMean[s] # None =>
        /\ accepted[s].lowest <= estimatedMean[s] /\ estimatedMean[s] <= accepted[s].highest
        /\ 0 <= estimatedVar[s] /\ estimatedVar[s] <= accepted[s].highest

\* An echo of the second probe is measured from the moment its probe was sent,
\* and finds its neighbour under verification: the checks in RecvAodv that look
\* for it never fail, whatever anomalies come in between.
SecondProbeIsTimed ==
    /\ "RVERIFY" \notin misread
    /\ \A e \in echoes : e.peer \in verifying /\ verificationStart[e.peer] = e.at

\* "Compares actual RTT against expected baseline": a RREP is measured from the
\* RREQ it answers.
FirstProbeIsTimed == "RREP" \notin misread
=============================================================================
