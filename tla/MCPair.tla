------------------------------- MODULE MCPair -------------------------------
(* Two nodes, the first of which sends to the second.                       *)
EXTENDS AodvRoutingProtocol

CONSTANTS a, b

PairLinks == {{a, b}}

OnePacket == {[src |-> a, dst |-> b, id |-> 1]}

TwoPackets == OnePacket \cup {[src |-> a, dst |-> b, id |-> 2]}

\* All variables but delivered, on which no guard, no other variable and neither
\* of the invariants checked with it depends: states that differ only in it are
\* explored once.
Undelivered ==
    <<rt, nb, ownVars, queue, searchVars, rerrCount, up, helloVars, detectorVars,
      net, links, sent, events>>
=============================================================================
