---------------------------- MODULE MCInterfaces ----------------------------
(* Two addresses of one subnet for one interface, and one for another.       *)
EXTENDS AodvInterfaces

CONSTANTS i1, i2, a1, a2, a3, lo, r, net1, net2

A1 == [local |-> a1, broadcast |-> net1]
A2 == [local |-> a2, broadcast |-> net1]
A3 == [local |-> a3, broadcast |-> net2]
Lo == [local |-> lo, broadcast |-> lo]

Addresses == {A1, A2, A3}

Homes == [a \in Addresses |-> IF a = A3 THEN i2 ELSE i1]
=============================================================================
