----------------------------- MODULE MCNodeParts -----------------------------
(***************************************************************************)
(* The parts of a node that can be used by themselves: the tables of       *)
(* AodvSoftState, the sockets of AodvInterfaces, the estimator of TCP, and *)
(* the broadcasts of AodvBroadcast in two networks of four nodes.          *)
(* Three packets, two of them with the same uid and two for the same       *)
(* destination; two neighbours with one hardware address.                  *)
(***************************************************************************)
EXTENDS AodvSoftState, RttEstimator, MCInterfaces, AodvBroadcast

CONSTANTS
    c, d, m,
    n1, n2, n3, n4,
    TableTime   \* Bound: the time up to which the three tables are used.

ThreePackets == {[uid |-> 1, dst |-> c], [uid |-> 2, dst |-> c], [uid |-> 1, dst |-> d]}

Alphas == {<<1, 8>>, <<1, 10>>, <<1, 1>>, <<0, 1>>}
Betas == {<<1, 4>>, <<6, 10>>}

\* A ring in which the last node forwards nothing, so that its second copy may
\* come late, and a triangle with a tail, where a detour may be faster.
TwoNetworks == {
    [links |-> {{n1, n2}, {n2, n3}, {n3, n4}, {n4, n1}}, silent |-> {n4}],
    [links |-> {{n1, n2}, {n2, n3}, {n1, n3}, {n3, n4}}, silent |-> {}]}
Floods == {[src |-> n1, scope |-> "subnet"], [src |-> n2, scope |-> "limited"]}

\* The parts share nothing but the clock, so that it is enough to use one of
\* them in each behaviour.  The others keep the settings they start with.
VARIABLE inUse

Components == {"queue", "neighbours", "ids", "detector", "estimator", "interfaces", "broadcasts"}

OneInUseInit ==
    /\ Init /\ EstimatorInit /\ InterfacesInit /\ FloodInit
    /\ inUse \in Components
    /\ inUse # "queue" => maxLen = 2 /\ queueTimeout = 2
    /\ inUse # "ids" => lifetime = 2
    /\ inUse # "detector" => ~secondProbe
    /\ inUse # "broadcasts" => network.silent = {}
    /\ inUse # "estimator" => alpha = <<1, 8>> /\ beta = <<1, 4>>

OneInUseNext ==
    /\ inUse # "queue" => UNCHANGED queueVars
    /\ inUse # "neighbours" => UNCHANGED nbVars
    /\ inUse # "ids" => UNCHANGED idVars
    /\ inUse # "detector" => UNCHANGED detectorVars
    /\ inUse # "estimator" => UNCHANGED estimatorVars
    /\ inUse # "interfaces" => UNCHANGED interfaceVars
    /\ inUse # "broadcasts" => UNCHANGED floodVars
    /\ inUse \in {"estimator", "interfaces"} => UNCHANGED now
    /\ \/ Next /\ UNCHANGED <<estimatorVars, interfaceVars, floodVars>>
       \/ EstimatorNext /\ UNCHANGED <<vars, interfaceVars, floodVars>>
       \/ InterfacesNext /\ UNCHANGED <<vars, estimatorVars, floodVars>>
       \/ FloodNext /\ UNCHANGED <<vars, estimatorVars, interfaceVars>>
    /\ inUse \in {"queue", "neighbours", "ids"} => now' <= TableTime
    /\ now' # now => FloodTick
    /\ Cardinality(started') <= 1   \* Packets do not affect each other.
    /\ UNCHANGED inUse

OneInUseSpec ==
    /\ OneInUseInit
    /\ [][OneInUseNext]_<<vars, estimatorVars, interfaceVars, floodVars, inUse>>
=============================================================================
