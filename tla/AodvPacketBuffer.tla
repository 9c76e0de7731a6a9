-------------------------- MODULE AodvPacketBuffer --------------------------
(***************************************************************************)
(* What RoutingProtocol expects of its request queue: a buffer that takes  *)
(* packets, does not grow past its limit unless the limit was lowered      *)
(* below its size, holds no packet twice, and ends each wait in one of two *)
(* ways, by handing the packet out or by calling its error callback, once. *)
(* It may give up packets whenever it is used.                             *)
(* The protocol modules AodvDiscovery and AodvRoutingProtocol work with    *)
(* this buffer.                                                            *)
(***************************************************************************)
EXTENDS Naturals, FiniteSets

CONSTANTS Packets

VARIABLES
    waiting,    \* The waits that go on: pairs of a packet and a number.
    sent,       \* The ones that ended with the packet sent,
    failed,     \* and with its error callback.
    limit       \* The largest number of packets.

bufferVars == <<waiting, sent, failed, limit>>

Init == waiting = {} /\ sent = {} /\ failed = {} /\ limit \in Nat

\* Takes a packet that is not waiting, as a new wait w, and gives up the waits G.
Take(w, G) ==
    /\ w \in Packets \X Nat
    /\ \A v \in waiting \cup sent \cup failed : v[2] # w[2]
    /\ \A v \in waiting \ G : v[1] # w[1]
    /\ waiting' = (waiting \ G) \cup {w}
    /\ Cardinality(waiting) <= limit => Cardinality(waiting') <= limit
    /\ failed' = failed \cup G
    /\ UNCHANGED <<sent, limit>>

\* Hands the packet of w out, and gives up G.
HandOut(w, G) ==
    /\ w \notin G
    /\ waiting' = waiting \ (G \cup {w})
    /\ sent' = sent \cup {w}
    /\ failed' = failed \cup G
    /\ UNCHANGED limit

GiveUp(G) ==
    /\ waiting' = waiting \ G
    /\ failed' = failed \cup G
    /\ UNCHANGED <<sent, limit>>

SetLimit ==
    /\ limit' \in Nat
    /\ UNCHANGED <<waiting, sent, failed>>

Next ==
    \/ \E G \in SUBSET waiting :
          \/ \E w \in waiting' : Take(w, G)
          \/ \E w \in waiting : HandOut(w, G)
          \/ GiveUp(G)
    \/ SetLimit

Spec == Init /\ [][Next]_bufferVars
=============================================================================
