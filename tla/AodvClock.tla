------------------------------ MODULE AodvClock ------------------------------
(* The simulator's clock, in whole units, which the timed modules share.     *)
EXTENDS Integers

VARIABLE now    \* Simulator::Now().
=============================================================================
