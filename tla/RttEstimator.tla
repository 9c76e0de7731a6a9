---------------------------- MODULE RttEstimator ----------------------------
(***************************************************************************)
(* ns3::RttMeanDeviation (src/internet/model/rtt-estimator.cc): the mean   *)
(* and the mean deviation of round trip times, in integers.  A gain is a   *)
(* fraction <<numerator, denominator>>.  m_SampledRTT and m_CurrentDelta,  *)
(* which nothing reads, are left out.                                      *)
(***************************************************************************)
EXTENDS Integers

CONSTANTS
    Samples,             \* The round trip times measured.
    InitialEstimation,
    AlphaValues, BetaValues   \* The values that the gains are set to.

ASSUME EstimatorAssumption ==
    /\ Samples \subseteq Nat
    /\ InitialEstimation \in Nat
    /\ \A g \in AlphaValues \cup BetaValues :
          g[1] \in Nat /\ g[2] \in Nat \ {0} /\ g[1] <= g[2]

VARIABLES
    estimatedRtt,        \* m_estimatedRtt.
    estimatedVariation,  \* m_estimatedVariation.
    nSamples,            \* m_nSamples: none, or some.
    alpha, beta,         \* m_alpha, m_beta.
    lowest, highest      \* History: the range of the samples since the last Reset.

estimatorVars == <<estimatedRtt, estimatedVariation, nSamples, alpha, beta,
                   lowest, highest>>

EstimatorInit ==
    /\ estimatedRtt = InitialEstimation
    /\ estimatedVariation = 0
    /\ nSamples = 0
    /\ alpha \in AlphaValues
    /\ beta \in BetaValues
    /\ lowest = 0
    /\ highest = 0

Magnitude(t) == IF t < 0 THEN -t ELSE t

\* Time * double, Time::FromDouble: t * g, rounded half away from zero.
Scaled(t, g) ==
    LET rounded == (2 * Magnitude(t) * g[1] + g[2]) \div (2 * g[2])
    IN  IF t < 0 THEN -rounded ELSE rounded

\* The gain is 1/2, 1/4, 1/8, 1/16 or 1/32: what CheckForReciprocalPowerOfTwo
\* returns a shift for.
IsReciprocalPowerOfTwo(g) == \E k \in {2, 4, 8, 16, 32} : g[1] * k = g[2]

\* A shift to the right by log2(k) of an estimate e shifted to the left, plus x.
ShiftedUpdate(e, x, g) == (e * (g[2] \div g[1]) + x) \div (g[2] \div g[1])

Remember(m) ==
    /\ nSamples' = 1
    /\ lowest' = IF nSamples = 0 \/ m < lowest THEN m ELSE lowest
    /\ highest' = IF nSamples = 0 \/ m > highest THEN m ELSE highest
    /\ UNCHANGED <<alpha, beta>>

-----------------------------------------------------------------------------
FirstMeasurement(m) ==
    /\ nSamples = 0
    /\ estimatedRtt' = m
    /\ estimatedVariation' = m \div 2
    /\ Remember(m)

IntegerUpdate(m) ==
    LET delta == m - estimatedRtt
    IN  /\ nSamples > 0
        /\ IsReciprocalPowerOfTwo(alpha) /\ IsReciprocalPowerOfTwo(beta)
        /\ estimatedRtt' = ShiftedUpdate(estimatedRtt, delta, alpha)
        /\ estimatedVariation' =
              ShiftedUpdate(estimatedVariation, Magnitude(delta) - estimatedVariation, beta)
        /\ Remember(m)

\* Mutant: the variation is taken off the mean, as its sign is lost.
FloatingPointUpdateUnsigned(m) ==
    LET err == m - estimatedRtt
    IN  /\ nSamples > 0
        /\ ~(IsReciprocalPowerOfTwo(alpha) /\ IsReciprocalPowerOfTwo(beta))
        /\ estimatedRtt' = estimatedRtt + Scaled(Magnitude(err), alpha)
        /\ estimatedVariation' =
              estimatedVariation + Scaled(Magnitude(err) - estimatedVariation, beta)
        /\ Remember(m)

FloatingPointUpdate(m) ==
    LET err == m - estimatedRtt
    IN  /\ nSamples > 0
        /\ ~(IsReciprocalPowerOfTwo(alpha) /\ IsReciprocalPowerOfTwo(beta))
        /\ estimatedRtt' = estimatedRtt + Scaled(err, alpha)
        /\ estimatedVariation' =
              estimatedVariation + Scaled(Magnitude(err) - estimatedVariation, beta)
        /\ Remember(m)

Reset ==
    /\ estimatedRtt' = InitialEstimation
    /\ estimatedVariation' = 0
    /\ nSamples' = 0
    /\ UNCHANGED <<alpha, beta, lowest, highest>>

SetGains(a, b) ==
    /\ alpha' = a
    /\ beta' = b
    /\ UNCHANGED <<estimatedRtt, estimatedVariation, nSamples, lowest, highest>>

EstimatorNext ==
    \/ \E m \in Samples : FirstMeasurement(m) \/ IntegerUpdate(m) \/ FloatingPointUpdate(m)
    \/ Reset
    \/ \E a \in AlphaValues, b \in BetaValues : SetGains(a, b)

EstimatorSpec == EstimatorInit /\ [][EstimatorNext]_estimatorVars

-----------------------------------------------------------------------------
\* The estimate never leaves the range of what was measured, and the variation
\* is not negative and not larger than the largest measurement, whichever of
\* the two arithmetics the gains select, however they are changed between
\* measurements and whichever way the results are rounded.
EstimateWithinSamples ==
    nSamples > 0 =>
        /\ lowest <= estimatedRtt /\ estimatedRtt <= highest
        /\ 0 <= estimatedVariation /\ estimatedVariation <= highest
=============================================================================
