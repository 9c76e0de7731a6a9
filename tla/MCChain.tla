------------------------------ MODULE MCChain ------------------------------
(* Three nodes in a row, and the packets of several scenarios.              *)
EXTENDS AodvRoutingProtocol

CONSTANTS a, b, c

ChainLinks == {{a, b}, {b, c}}

NoLinks == {}

\* The first node sends one packet to the last.
ChainPackets == {[src |-> a, dst |-> c, id |-> 1]}

\* The last one sends to the first as well.
BothEnds == ChainPackets \cup {[src |-> c, dst |-> a, id |-> 2]}

\* The first node sends two packets to the last.
TwoPackets == ChainPackets \cup {[src |-> a, dst |-> c, id |-> 2]}

\* And one to its neighbour.
TwoDestinations == TwoPackets \cup {[src |-> a, dst |-> b, id |-> 3]}
=============================================================================
