--------------------------- MODULE ThreatPredictor ---------------------------
(***************************************************************************)
(* ThreatPredictor of src/services/management-api/internal/infrastructure/ *)
(* analytics/threat_predictor.go.  The predictor keeps no state: it reads  *)
(* daily and weekly alert counts of acm_alerts and computes predictions.   *)
(* The state here is what those queries return as days pass and the last  *)
(* predictions computed from it.  The float64 arithmetic of the code is    *)
(* exact rational arithmetic here (a value is num/den with den > 0), and   *)
(* int64(x) of a float truncates towards zero.                            *)
(***************************************************************************)
EXTENDS Integers, Sequences, SequencesExt

CONSTANTS
    Types,       \* event types of acm_alerts
    MaxCount,    \* most alerts of one type on one day
    MaxDays,     \* days that pass in a behaviour (the query window is 30)
    Seasonal,    \* [Types -> [0..6 -> rational]]: getSeasonalPatterns' averages
    WeekCounts   \* <<current, previous>> weekly counts; previous 0 is no row

VARIABLES
    trends,      \* getHistoricalTrends: type -> daily counts, oldest first
    today,       \* weekday of time.Now(), 0 = Sunday
    days,        \* days passed so far
    predictions  \* the ThreatPrediction values of the last call

vars == <<trends, today, days, predictions>>

-----------------------------------------------------------------------------
(* float64 values as rationals *)

Rat(n, d) == [num |-> n, den |-> d]
Whole(n) == Rat(n, 1)
RLeq(a, b) == a.num * b.den <= b.num * a.den
RLt(a, b) == a.num * b.den < b.num * a.den
REq(a, b) == a.num * b.den = b.num * a.den
RAdd(a, b) == Rat(a.num * b.den + b.num * a.den, a.den * b.den)
RMul(a, b) == Rat(a.num * b.num, a.den * b.den)
RMinOf(a, b) == IF RLeq(a, b) THEN a ELSE b
RMaxOf(a, b) == IF RLeq(a, b) THEN b ELSE a
Trunc(a) == IF a.num >= 0 THEN a.num \div a.den ELSE -((-a.num) \div a.den)

RECURSIVE Total(_)
Total(s) == IF s = <<>> THEN 0 ELSE Head(s) + Total(Tail(s))
NonZeroDays(s) == Len(SelectSeq(s, LAMBDA c : c > 0))

-----------------------------------------------------------------------------
(* The helpers of the predictor *)

(* average: 0 for an empty slice.                                          *)
Average(data) == IF data = <<>> THEN Whole(0) ELSE Rat(Total(data), Len(data))

(* Fault model for calculateTrend: sumX2 accumulates x instead of x * x.   *)
CalculateTrendLinearX2(data) ==
    LET n == Len(data)
        sumX == Total([i \in 1..n |-> i])
    IN  IF n < 2 THEN Whole(0)
        ELSE Rat(n * Total([i \in 1..n |-> i * data[i]]) - sumX * Total(data),
                 n * sumX - sumX * sumX)

(* calculateTrend: least-squares slope over x = 1..n by the normal         *)
(* equations; 0 for fewer than two points.                                 *)
CalculateTrend(data) ==
    LET n == Len(data)
        sumX == Total([i \in 1..n |-> i])
        sumY == Total(data)
        sumXY == Total([i \in 1..n |-> i * data[i]])
        sumX2 == Total([i \in 1..n |-> i * i])
    IN  IF n < 2 THEN Whole(0)
        ELSE Rat(n * sumXY - sumX * sumY, n * sumX2 - sumX * sumX)

(* Fault model for calculateProbability: the boost without the 0.95 cap.   *)
CalculateProbabilityUncapped(historical, expectedCount) ==
    LET base == Rat(NonZeroDays(historical), Len(historical))
    IN  IF historical = <<>> THEN Rat(1, 2)
        ELSE IF expectedCount > 10 THEN RMul(base, Rat(6, 5))
        ELSE base

(* calculateProbability: the share of non-zero days, 0.5 without history,  *)
(* raised by a fifth (at most to 0.95) when more than ten are expected.    *)
CalculateProbability(historical, expectedCount) ==
    LET base == Rat(NonZeroDays(historical), Len(historical))
    IN  IF historical = <<>> THEN Rat(1, 2)
        ELSE IF expectedCount > 10 THEN RMinOf(Rat(95, 100), RMul(base, Rat(6, 5)))
        ELSE base

(* determineRiskLevel: score = probability * count against 50, 20 and 10,  *)
(* or the probability alone against 0.8, 0.6 and 0.4.                      *)
DetermineRiskLevel(probability, count) ==
    LET score == RMul(probability, Whole(count))
        Reaches(s, p) == RLeq(Whole(s), score) \/ RLeq(p, probability)
    IN  CASE Reaches(50, Rat(4, 5)) -> "CRITICAL"
          [] Reaches(20, Rat(3, 5)) -> "HIGH"
          [] Reaches(10, Rat(2, 5)) -> "MEDIUM"
          [] OTHER                  -> "LOW"

(* calculateConfidence: by the number of data points.                      *)
CalculateConfidence(historical) ==
    CASE Len(historical) >= 30 -> "HIGH"
      [] Len(historical) >= 14 -> "MEDIUM"
      [] OTHER                 -> "LOW"

(* identifyContributingFactors, in the order the code appends them.  The  *)
(* last seven days against the ones before (an empty older part averages  *)
(* 0); more than 70% non-zero days (0/0 is NaN and never greater); the    *)
(* last day above int64(1.5 times the average).                          *)
IdentifyContributingFactors(historical) ==
    LET n == Len(historical)
        recentAvg == Average(SubSeq(historical, n - 6, n))
        olderAvg == Average(SubSeq(historical, 1, n - 7))
        trend == IF n < 7 THEN <<>>
                 ELSE IF RLt(RMul(olderAvg, Rat(6, 5)), recentAvg) THEN <<"increasing">>
                 ELSE IF RLt(recentAvg, RMul(olderAvg, Rat(4, 5))) THEN <<"decreasing">>
                 ELSE <<>>
        frequent == IF n > 0 /\ RLt(Rat(7, 10), Rat(NonZeroDays(historical), n))
                    THEN <<"frequent">> ELSE <<>>
        spike == IF n > 0 /\ historical[n] > Trunc(RMul(Average(historical), Rat(3, 2)))
                 THEN <<"spike">> ELSE <<>>
    IN  trend \o frequent \o spike

(* seasonalPatterns[threatType][dayOfWeek]: 0 for a missing entry.         *)
SeasonalFor(t, dow) == Seasonal[t][dow]

-----------------------------------------------------------------------------
(* One prediction per day i of the next seven and per type with history:   *)
(* expectedCount = int64(max(0, trend * i + seasonal)).                    *)
PredictionFor(t, i) ==
    LET historical == trends[t]
        expected == Trunc(RMaxOf(Whole(0), RAdd(RMul(CalculateTrend(historical), Whole(i)),
                                             SeasonalFor(t, (today + i) % 7))))
        probability == CalculateProbability(historical, expected)
    IN  [type |-> t, day |-> i, probability |-> probability, expected |-> expected,
         risk |-> DetermineRiskLevel(probability, expected),
         confidence |-> CalculateConfidence(historical),
         factors |-> IdentifyContributingFactors(historical)]

(* PredictNextWeek: the types of the map getHistoricalTrends built, which  *)
(* has a key only for a type with at least one row.                        *)
PredictNextWeek ==
    /\ predictions' = {PredictionFor(t, i) : t \in {t \in Types : trends[t] # <<>>},
                                             i \in 1..7}
    /\ UNCHANGED <<trends, today, days>>

(* The growth_rate of the weekly_counts query: 100 when last week has no   *)
(* row, else the relative change in percent.                               *)
GrowthRate(current, previous) ==
    IF previous = 0 THEN Whole(100) ELSE Rat((current - previous) * 100, previous)

(* A row of PredictEmergingThreats: next week's count projected by the     *)
(* growth rate, probability 0.5 + growth/200 capped at 0.95, and the risk  *)
(* of the growth ratio as a probability.                                   *)
EmergingPrediction(t, current, growthRate) ==
    LET nextWeekCount == Trunc(RMul(Whole(current), RAdd(Whole(1), RMul(growthRate, Rat(1, 100)))))
    IN  [type |-> t, day |-> 7, expected |-> nextWeekCount,
         probability |-> RMinOf(Rat(95, 100), RAdd(Rat(1, 2), RMul(growthRate, Rat(1, 200)))),
         risk |-> DetermineRiskLevel(RMul(growthRate, Rat(1, 100)), nextWeekCount),
         confidence |-> "HIGH", factors |-> <<"growth", "current">>]

(* PredictEmergingThreats: the rows with growth above 30% or more than 50  *)
(* alerts this week, for this week's counts of every type.                 *)
PredictEmergingThreats ==
    \E wc \in [Types -> WeekCounts] :
        /\ predictions' =
              {EmergingPrediction(t, wc[t][1], GrowthRate(wc[t][1], wc[t][2])) :
                 t \in {t \in Types : RLt(Whole(30), GrowthRate(wc[t][1], wc[t][2]))
                                      \/ wc[t][1] > 50}}
        /\ UNCHANGED <<trends, today, days>>

(* A day passes.  getHistoricalTrends groups acm_alerts by date and type,  *)
(* so a day on which a type had no alert adds no row for it.  The         *)
(* predictions of an earlier call went to its caller; the predictor keeps  *)
(* none.                                                                   *)
EndOfDay ==
    /\ days < MaxDays
    /\ \E count \in [Types -> 0..MaxCount] :
          trends' = [t \in Types |-> IF count[t] = 0 THEN trends[t]
                                     ELSE Append(trends[t], count[t])]
    /\ today' = (today + 1) % 7
    /\ days' = days + 1
    /\ predictions' = {}

Init ==
    /\ trends = [t \in Types |-> <<>>]
    /\ today \in 0..6
    /\ days = 0
    /\ predictions = {}

Next == EndOfDay \/ PredictNextWeek \/ PredictEmergingThreats

Spec == Init /\ [][Next]_vars

-----------------------------------------------------------------------------
(* Properties *)

(* calculateTrend computes the least-squares slope: for every history      *)
(* getHistoricalTrends can return, its normal-equation form equals the      *)
(* slope as the ratio of the pairwise sums of (x_i - x_j)(y_i - y_j) and    *)
(* (x_i - x_j)^2, a definition with no running sums to get wrong.           *)
PairwiseSlope(data) ==
    LET n == Len(data)
        cov == Total([k \in 1..n*n |-> LET i == (k - 1) \div n + 1
                                            j == ((k - 1) % n) + 1
                                        IN (i - j) * (data[i] - data[j])])
        var == Total([k \in 1..n*n |-> LET i == (k - 1) \div n + 1
                                            j == ((k - 1) % n) + 1
                                        IN (i - j) * (i - j)])
    IN  Rat(cov, var)

TrendIsLeastSquares ==
    \A t \in Types : Len(trends[t]) >= 2 => REq(CalculateTrend(trends[t]), PairwiseSlope(trends[t]))

(* Every prediction PredictNextWeek and PredictEmergingThreats return has   *)
(* a probability in [0, 1], as TestPredictNextWeek asserts: the 1.2 boost  *)
(* of calculateProbability and the growth term of an emerging threat must  *)
(* both stay under the 0.95 cap.                                           *)
ProbabilityInUnitInterval ==
    \A p \in predictions : RLeq(Whole(0), p.probability) /\ RLeq(p.probability, Whole(1))
=============================================================================
