----------------------------- MODULE MCRerrRate -----------------------------
(***************************************************************************)
(* The chain of MCChain with a history variable that counts the RERRs of   *)
(* each node, up to the first expiry of a RERR rate limit timer.           *)
(***************************************************************************)
EXTENDS MCChain

VARIABLE rerrsSent

Rerrs(n, frames) == {f \in frames : f.from = n /\ f.ip.src = n /\ f.ip.body.type = "RERR"}

CountingInit == Init /\ rerrsSent = [n \in Node |-> 0]

CountingNext ==
    /\ Next
    /\ \A n \in Node : rerrCount'[n] >= rerrCount[n]
    /\ rerrsSent' = [n \in Node |-> rerrsSent[n] +
                        IF Rerrs(n, net') \subseteq Rerrs(n, net) THEN 0 ELSE 1]

CountingSpec == CountingInit /\ [][CountingNext]_<<vars, rerrsSent>>

\* "A node SHOULD NOT originate more than RERR_RATELIMIT RERR messages per
\* second": SendRerrWhenNoRouteToForward and SendRerrMessage compare m_rerrCount
\* with the limit, and only the unicast branch of the latter counts.
RerrRateLimited == \A n \in Node : rerrsSent[n] <= RerrRateLimit
=============================================================================
