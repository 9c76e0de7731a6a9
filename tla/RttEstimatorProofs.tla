-------------------------- MODULE RttEstimatorProofs --------------------------
(***************************************************************************)
(* The estimate of RttMeanDeviation stays within what was measured, for    *)
(* all samples and all gains between 0 and 1.                              *)
(***************************************************************************)
EXTENDS RttEstimator, TLAPS

-----------------------------------------------------------------------------
\* The two arithmetics.

\* Division of natural numbers rounds down.
LEMMA Quotient ==
    ASSUME NEW x \in Nat, NEW y \in Nat \ {0}
    PROVE  /\ x \div y \in Nat
           /\ y * (x \div y) <= x
           /\ x < y * (x \div y) + y
BY SMT

\* A quotient is at most t when the dividend is smaller than t + 1 divisors.
LEMMA QuotientAtMost ==
    ASSUME NEW x \in Nat, NEW y \in Nat \ {0}, NEW t \in Nat, x < y * t + y
    PROVE  x \div y <= t
<1> DEFINE q == x \div y
<1>1. q \in Nat /\ y * q <= x
    BY Quotient
<1>2. ASSUME q > t PROVE FALSE
    <2>1. PICK k \in Nat : q = t + 1 + k
        <3>1. q - t - 1 \in Nat
            BY <1>1, <1>2
        <3> QED
            BY <3>1, <1>1
    <2>2. y * q = y * t + y + y * k
        BY <2>1, SMT
    <2>3. y * k \in Nat
        BY SMT
    <2> HIDE DEF q
    <2>4. y * t \in Nat
        BY SMT
    <2> QED
        BY <1>1, <2>2, <2>3, <2>4
<1> QED
    BY <1>1, <1>2

\* What EstimatorAssumption says of a gain: a fraction between 0 and 1.
IsGain(g) == g[1] \in Nat /\ g[2] \in Nat \ {0} /\ g[1] <= g[2]

\* Floating point: the scaled time lies between 0 and the time itself.
LEMMA ScaledBounds ==
    ASSUME NEW t \in Int, NEW g, IsGain(g)
    PROVE  /\ Scaled(t, g) \in Int
           /\ t >= 0 => 0 <= Scaled(t, g) /\ Scaled(t, g) <= t
           /\ t < 0 => t <= Scaled(t, g) /\ Scaled(t, g) <= 0
<1> DEFINE n == g[1]
           d == g[2]
           a == Magnitude(t)
           x == 2 * a * n + d
<1>1. n \in Nat /\ d \in Nat \ {0} /\ n <= d
    BY DEF IsGain
<1>2. a \in Nat /\ (t >= 0 => a = t) /\ (t < 0 => a = -t)
    BY DEF Magnitude
<1> HIDE DEF n, d, a
<1>3. a * n \in Nat /\ a * d \in Nat /\ a * n <= a * d
    <2>1. PICK k \in Nat : d = n + k
        <3>1. d - n \in Nat
            BY <1>1
        <3> QED
            BY <3>1, <1>1
    <2>2. a * d = a * n + a * k
        BY <1>1, <1>2, <2>1, SMT
    <2>3. a * n \in Nat /\ a * k \in Nat
        BY <1>1, <1>2, <2>1, SMT
    <2> QED
        BY <2>2, <2>3
<1>4. x = 2 * (a * n) + d
    BY <1>1, <1>2, SMT
<1>5. (2 * d) * a = 2 * (a * d)
    BY <1>1, <1>2, SMT
<1>6. x \in Nat /\ 2 * d \in Nat \ {0} /\ x < (2 * d) * a + 2 * d
    BY <1>1, <1>3, <1>4, <1>5
<1> HIDE DEF x
<1>7. x \div (2 * d) \in Nat
    BY <1>6, Quotient
<1>8. x \div (2 * d) <= a
    BY <1>2, <1>6, QuotientAtMost
<1>9. Scaled(t, g) = IF t < 0 THEN -(x \div (2 * d)) ELSE x \div (2 * d)
    BY DEF Scaled, x, a, n, d
<1> QED
    BY <1>2, <1>7, <1>8, <1>9

\* Shifts: the divisor is the power of two.
LEMMA ShiftOfGain ==
    ASSUME NEW g, IsGain(g), IsReciprocalPowerOfTwo(g)
    PROVE  g[2] \div g[1] \in {2, 4, 8, 16, 32}
<1>1. PICK k \in {2, 4, 8, 16, 32} : g[1] * k = g[2]
    BY DEF IsReciprocalPowerOfTwo
<1> DEFINE n == g[1]
           d == g[2]
           q == d \div n
<1>2. n \in Nat \ {0} /\ d \in Nat
    BY <1>1 DEF IsGain
<1>3. q \in Nat /\ n * q <= d /\ d < n * q + n
    BY <1>2, Quotient
<1>4. q <= k
    <2>1. d < n * k + n
        BY <1>1, <1>2
    <2> QED
        BY <1>2, <2>1, QuotientAtMost
<1> HIDE DEF q
<1>5. ASSUME q < k PROVE FALSE
    <2>1. PICK j \in Nat : k = q + 1 + j
        <3>1. k - q - 1 \in Nat
            BY <1>3, <1>5
        <3> QED
            BY <3>1, <1>3
    <2>2. n * k = n * q + n + n * j
        BY <1>2, <1>3, <2>1, SMT
    <2>3. n * j \in Nat /\ n * q \in Nat /\ n * k = d
        BY <1>1, <1>2, <1>3, SMT
    <2> HIDE DEF n, d
    <2> QED
        BY <1>2, <1>3, <2>2, <2>3
<1>6. q = k
    BY <1>3, <1>4, <1>5
<1> QED
    BY <1>6 DEF q

\* The shifted update goes from e towards e + x and not past it.
LEMMA ShiftedBounds ==
    ASSUME NEW e \in Int, NEW x \in Int, NEW g, IsGain(g), IsReciprocalPowerOfTwo(g)
    PROVE  /\ ShiftedUpdate(e, x, g) \in Int
           /\ x >= 0 => e <= ShiftedUpdate(e, x, g) /\ ShiftedUpdate(e, x, g) <= e + x
           /\ x < 0 => e + x <= ShiftedUpdate(e, x, g) /\ ShiftedUpdate(e, x, g) <= e
<1> DEFINE k == g[2] \div g[1]
<1>1. k \in {2, 4, 8, 16, 32}
    BY ShiftOfGain
<1>2. ShiftedUpdate(e, x, g) = (e * k + x) \div k
    BY DEF ShiftedUpdate
<1> HIDE DEF k
<1> QED
    BY <1>1, <1>2, SMT

-----------------------------------------------------------------------------
\* The inductive invariant: the property, with the values that it is about.
EstimatorInv ==
    /\ estimatedRtt \in Nat
    /\ estimatedVariation \in Nat
    /\ nSamples \in {0, 1}
    /\ alpha \in AlphaValues
    /\ beta \in BetaValues
    /\ lowest \in Nat
    /\ highest \in Nat
    /\ EstimateWithinSamples

LEMMA GainsOfInv ==
    ASSUME EstimatorInv
    PROVE  IsGain(alpha) /\ IsGain(beta)
BY EstimatorAssumption DEF EstimatorInv, IsGain

\* What the two updates have in common: each estimate moves towards the new value
\* and not past it, so that it stays within the range that the sample extends.
LEMMA MovesTowards ==
    ASSUME EstimatorInv, nSamples > 0, NEW m \in Samples, Remember(m),
           NEW e \in Int, NEW v \in Int,
           estimatedRtt' = e, estimatedVariation' = v,
           m >= estimatedRtt => estimatedRtt <= e /\ e <= m,
           m < estimatedRtt => m <= e /\ e <= estimatedRtt,
           Magnitude(m - estimatedRtt) >= estimatedVariation =>
               estimatedVariation <= v /\ v <= Magnitude(m - estimatedRtt),
           Magnitude(m - estimatedRtt) < estimatedVariation =>
               Magnitude(m - estimatedRtt) <= v /\ v <= estimatedVariation
    PROVE  EstimatorInv'
<1>1. m \in Nat
    BY EstimatorAssumption
<1>2. /\ lowest' \in Nat /\ highest' \in Nat
      /\ lowest' <= lowest /\ lowest' <= m
      /\ highest <= highest' /\ m <= highest'
    BY <1>1 DEF EstimatorInv, Remember
<1>3. /\ Magnitude(m - estimatedRtt) \in Nat
      /\ Magnitude(m - estimatedRtt) <= highest'
    BY <1>1, <1>2 DEF EstimatorInv, EstimateWithinSamples, Magnitude
<1>4. e \in Nat /\ lowest' <= e /\ e <= highest'
    BY <1>1, <1>2 DEF EstimatorInv, EstimateWithinSamples
<1>5. v \in Nat /\ v <= highest'
    BY <1>2, <1>3 DEF EstimatorInv, EstimateWithinSamples
<1>6. nSamples' = 1 /\ alpha' = alpha /\ beta' = beta
    BY DEF Remember
<1> QED
    BY <1>2, <1>4, <1>5, <1>6 DEF EstimatorInv, EstimateWithinSamples

LEMMA FirstMeasurementStep ==
    ASSUME EstimatorInv, NEW m \in Samples, FirstMeasurement(m)
    PROVE  EstimatorInv'
<1>1. m \in Nat
    BY EstimatorAssumption
<1>2. m \div 2 \in Nat /\ m \div 2 <= m
    BY <1>1
<1> QED
    BY <1>1, <1>2 DEF EstimatorInv, EstimateWithinSamples, FirstMeasurement, Remember

LEMMA IntegerUpdateStep ==
    ASSUME EstimatorInv, NEW m \in Samples, IntegerUpdate(m)
    PROVE  EstimatorInv'
<1> DEFINE delta == m - estimatedRtt
           e == ShiftedUpdate(estimatedRtt, delta, alpha)
           v == ShiftedUpdate(estimatedVariation, Magnitude(delta) - estimatedVariation, beta)
<1>1. m \in Nat /\ estimatedRtt \in Nat /\ estimatedVariation \in Nat
    BY EstimatorAssumption DEF EstimatorInv
<1>2. delta \in Int /\ Magnitude(delta) \in Nat
    BY <1>1 DEF Magnitude
<1>3. IsReciprocalPowerOfTwo(alpha) /\ IsReciprocalPowerOfTwo(beta)
    BY DEF IntegerUpdate
<1> HIDE DEF e, v
<1>4. /\ e \in Int
      /\ delta >= 0 => estimatedRtt <= e /\ e <= estimatedRtt + delta
      /\ delta < 0 => estimatedRtt + delta <= e /\ e <= estimatedRtt
    BY <1>1, <1>2, <1>3, GainsOfInv, ShiftedBounds DEF e
<1>5. /\ v \in Int
      /\ Magnitude(delta) - estimatedVariation >= 0 =>
            /\ estimatedVariation <= v
            /\ v <= estimatedVariation + (Magnitude(delta) - estimatedVariation)
      /\ Magnitude(delta) - estimatedVariation < 0 =>
            /\ estimatedVariation + (Magnitude(delta) - estimatedVariation) <= v
            /\ v <= estimatedVariation
    <2>1. Magnitude(delta) - estimatedVariation \in Int
        BY <1>1, <1>2
    <2> HIDE DEF delta
    <2> QED
        BY <1>1, <2>1, <1>3, GainsOfInv, ShiftedBounds DEF v
<1>6. /\ m >= estimatedRtt => estimatedRtt <= e /\ e <= m
      /\ m < estimatedRtt => m <= e /\ e <= estimatedRtt
    BY <1>1, <1>4
<1>7. /\ Magnitude(delta) >= estimatedVariation =>
            estimatedVariation <= v /\ v <= Magnitude(delta)
      /\ Magnitude(delta) < estimatedVariation =>
            Magnitude(delta) <= v /\ v <= estimatedVariation
    BY <1>1, <1>2, <1>5
<1>8. estimatedRtt' = e /\ estimatedVariation' = v /\ Remember(m) /\ nSamples > 0
    BY DEF IntegerUpdate, e, v
<1> QED
    BY <1>4, <1>5, <1>6, <1>7, <1>8, MovesTowards

LEMMA FloatingPointUpdateStep ==
    ASSUME EstimatorInv, NEW m \in Samples, FloatingPointUpdate(m)
    PROVE  EstimatorInv'
<1> DEFINE err == m - estimatedRtt
           e == estimatedRtt + Scaled(err, alpha)
           v == estimatedVariation + Scaled(Magnitude(err) - estimatedVariation, beta)
<1>1. m \in Nat /\ estimatedRtt \in Nat /\ estimatedVariation \in Nat
    BY EstimatorAssumption DEF EstimatorInv
<1>2. err \in Int /\ Magnitude(err) \in Nat
    BY <1>1 DEF Magnitude
<1>3. /\ Scaled(err, alpha) \in Int
      /\ err >= 0 => 0 <= Scaled(err, alpha) /\ Scaled(err, alpha) <= err
      /\ err < 0 => err <= Scaled(err, alpha) /\ Scaled(err, alpha) <= 0
    BY <1>2, GainsOfInv, ScaledBounds
<1> DEFINE gap == Magnitude(err) - estimatedVariation
<1>4. gap \in Int
    BY <1>1, <1>2
<1>5. /\ Scaled(gap, beta) \in Int
      /\ gap >= 0 => 0 <= Scaled(gap, beta) /\ Scaled(gap, beta) <= gap
      /\ gap < 0 => gap <= Scaled(gap, beta) /\ Scaled(gap, beta) <= 0
    <2> HIDE DEF gap
    <2> QED
        BY <1>4, GainsOfInv, ScaledBounds
<1>6. /\ e \in Int
      /\ m >= estimatedRtt => estimatedRtt <= e /\ e <= m
      /\ m < estimatedRtt => m <= e /\ e <= estimatedRtt
    BY <1>1, <1>3
<1>7. /\ v \in Int
      /\ Magnitude(err) >= estimatedVariation =>
            estimatedVariation <= v /\ v <= Magnitude(err)
      /\ Magnitude(err) < estimatedVariation =>
            Magnitude(err) <= v /\ v <= estimatedVariation
    BY <1>1, <1>2, <1>5
<1>8. estimatedRtt' = e /\ estimatedVariation' = v /\ Remember(m) /\ nSamples > 0
    BY DEF FloatingPointUpdate
<1> HIDE DEF e, v
<1> QED
    BY <1>6, <1>7, <1>8, MovesTowards

LEMMA EstimatorInvariant == EstimatorSpec => []EstimatorInv
<1>1. EstimatorInit => EstimatorInv
    BY EstimatorAssumption DEF EstimatorInit, EstimatorInv, EstimateWithinSamples
<1>2. EstimatorInv /\ [EstimatorNext]_estimatorVars => EstimatorInv'
    <2> SUFFICES ASSUME EstimatorInv, [EstimatorNext]_estimatorVars
                 PROVE  EstimatorInv'
        OBVIOUS
    <2>1. CASE \E m \in Samples :
                  FirstMeasurement(m) \/ IntegerUpdate(m) \/ FloatingPointUpdate(m)
        BY <2>1, FirstMeasurementStep, IntegerUpdateStep, FloatingPointUpdateStep
    <2>2. CASE Reset
        BY <2>2, EstimatorAssumption DEF Reset, EstimatorInv, EstimateWithinSamples
    <2>3. ASSUME NEW a \in AlphaValues, NEW b \in BetaValues, SetGains(a, b)
          PROVE  EstimatorInv'
        BY <2>3 DEF SetGains, EstimatorInv, EstimateWithinSamples
    <2>4. CASE UNCHANGED estimatorVars
        BY <2>4 DEF estimatorVars, EstimatorInv, EstimateWithinSamples
    <2> QED
        BY <2>1, <2>2, <2>3, <2>4 DEF EstimatorNext
<1> QED
    BY <1>1, <1>2, PTL DEF EstimatorSpec

\* RttMeanDeviation: the mean never leaves the range of what was measured since the
\* last Reset, and the variation stays between zero and the largest measurement, for
\* all samples, all gains from 0 to 1 and all changes of the gains in between.
THEOREM EstimateStaysWithinSamples == EstimatorSpec => []EstimateWithinSamples
BY EstimatorInvariant, PTL DEF EstimatorInv
=============================================================================
