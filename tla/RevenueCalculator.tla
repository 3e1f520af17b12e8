------------------------- MODULE RevenueCalculator -------------------------
(***************************************************************************)
(* RevenueCalculator.calculateImpact of src/services/management-api/       *)
(* internal/infrastructure/analytics/revenue_calculator.go over the        *)
(* acm_alerts and acm_call_records tables.  The report is five SQL         *)
(* statements issued one after another outside a transaction, so the      *)
(* detection engine's writes to the two tables interleave between them.    *)
(* Every row lies in the report's period; a call duration is abstracted   *)
(* to whole minutes, and money to hundredths of a naira, so that every     *)
(* sum is exact.  A percentage is a rational [num, den].                   *)
(***************************************************************************)
EXTENDS Integers, Sequences, FiniteSets, FiniteSetsExt

CONSTANTS
    EventTypes,     \* acm_alerts.event_type values
    Countries,      \* acm_alerts.source_country values, NullCountry among them
    NullCountry,    \* source_country IS NULL
    Minutes,        \* call durations, in minutes
    Periods,        \* "Daily", "Weekly": the periods of the exported methods
    MaxAlerts,      \* bound on acm_alerts rows
    MaxCalls,       \* bound on acm_call_records rows
    MaxRequests,    \* bound on reports requested in a behaviour
    DbFailures,     \* TRUE: a statement may return an error
    NoImpact        \* model value: no report returned yet

ASSUME NullCountry \in Countries /\ DbFailures \in BOOLEAN

(* An alert's status and resolution_type as the two statements read them. *)
Statuses == {"NEW", "RESOLVED", "FALSE_POSITIVE"}
Resolutions == {"none", "CONFIRMED", "FALSE_POSITIVE"}

VARIABLES
    alerts,     \* acm_alerts, by id
    calls,      \* acm_call_records, by id; alert 0 is alert_id IS NULL
    calc,       \* the request in progress: statement reached, rows read so far
    impact,     \* the last RevenueImpact returned
    requests    \* reports requested so far

vars == <<alerts, calls, calc, impact, requests>>

Alert == [type : EventTypes, country : Countries, status : Statuses,
          resolution : Resolutions]
CallRecord == [alert : 0..MaxAlerts, minutes : Minutes, suspicious : BOOLEAN]
Ratio == [num : Int, den : Nat \ {0}]
Zero == [num |-> 0, den |-> 1]

(* NewRevenueCalculator's rates, in hundredths of a naira per minute, and *)
(* its cost per day.                                                       *)
InterconnectRate == 850
InternationalRate == 4500
LocalRate == 550
OperationalCostPerDay == 15000000
PeriodDays == [p \in Periods |-> IF p = "Daily" THEN 1 ELSE 7]

(* determineRate: a NULL country is an interconnect call, NGA or 234 a    *)
(* local one, any other country an international one.                      *)
determineRate(country) ==
    CASE country = NullCountry        -> InterconnectRate
      [] country \in {"NGA", "234"}   -> LocalRate
      [] OTHER                        -> InternationalRate

(* max of two percentages.                                                 *)
max(a, b) == IF a.num * b.den > b.num * a.den THEN a ELSE b

-----------------------------------------------------------------------------
(* The statements.  acm_alerts LEFT JOIN acm_call_records: an alert with  *)
(* records gives one row per record, one without gives one row whose      *)
(* duration is NULL.  A row is <<alert id, record id or 0>>.               *)
RecordsOf(i) == {j \in DOMAIN calls : calls[j].alert = i}

Join(S) == UNION {IF RecordsOf(i) = {} THEN {<<i, 0>>} ELSE {<<i, j>> : j \in RecordsOf(i)}
                  : i \in S}

(* SUM(duration_seconds / 60.0), NULL durations adding nothing.            *)
JoinMinutes(S) == MapThenSumSet(LAMBDA r : IF r[2] = 0 THEN 0 ELSE calls[r[2]].minutes, Join(S))

Fraudulent(i) == alerts[i].status # "FALSE_POSITIVE"

(* Statement 1: the number and the minutes of the joined rows of the      *)
(* alerts not marked FALSE_POSITIVE.                                       *)
FraudMetrics ==
    LET S == {i \in DOMAIN alerts : Fraudulent(i)} IN
    [calls |-> Cardinality(Join(S)), minutes |-> JoinMinutes(S)]

(* Statement 2: the same rows grouped by event_type and source_country.    *)
(* Fault model for statement 2: the status filter is left out.            *)
GroupAlertsUnfiltered(g) == {i \in DOMAIN alerts : <<alerts[i].type, alerts[i].country>> = g}

GroupAlerts(g) == {i \in DOMAIN alerts : Fraudulent(i) /\ <<alerts[i].type, alerts[i].country>> = g}

BreakdownGroups == {<<alerts[i].type, alerts[i].country>> : i \in {i \in DOMAIN alerts : Fraudulent(i)}}

GroupRevenue(g) == JoinMinutes(GroupAlerts(g)) * determineRate(g[2])

(* The loop over the groups: RevenueByFraudType[eventType] is assigned,    *)
(* so for each type the group that comes last, in an order the query       *)
(* leaves unspecified, is the one kept; RevenueProtected adds every group. *)
RevenueBreakdown(last) ==
    [byType |-> [t \in {g[1] : g \in BreakdownGroups} |-> GroupRevenue(last[t])],
     protected |-> MapThenSumSet(GroupRevenue, BreakdownGroups)]

LastGroups ==
    {f \in [{g[1] : g \in BreakdownGroups} -> BreakdownGroups] : \A t \in DOMAIN f : f[t][1] = t}

(* Statement 3: rows of the alerts whose resolution_type is               *)
(* FALSE_POSITIVE (a column other than the status statement 1 filters).   *)
FalsePositiveMetrics ==
    LET S == {i \in DOMAIN alerts : alerts[i].resolution = "FALSE_POSITIVE"} IN
    [calls |-> Cardinality(Join(S)), minutes |-> JoinMinutes(S)]

(* getTotalAlerts and getSuspiciousCallCount.                              *)
getTotalAlerts == Len(alerts)
getSuspiciousCallCount == Cardinality({j \in DOMAIN calls : calls[j].suspicious})

-----------------------------------------------------------------------------
(* The request.  calc.snapshot is a history variable: it is FALSE once a  *)
(* table has been written since the request's first statement.            *)
Pcs == {"idle", "breakdown", "falsePositives", "totalAlerts", "suspicious"}

Idle == [pc |-> "idle", period |-> "Daily", fraud |-> [calls |-> 0, minutes |-> 0],
         breakdown |-> [byType |-> <<>>, protected |-> 0],
         fp |-> [calls |-> 0, minutes |-> 0], total |-> 0, snapshot |-> TRUE]

Init ==
    /\ alerts = <<>>
    /\ calls = <<>>
    /\ calc = Idle
    /\ impact = NoImpact
    /\ requests = 0

(* A statement's error is returned; the request ends without a report.     *)
Fail ==
    /\ DbFailures
    /\ calc' = Idle
    /\ UNCHANGED <<alerts, calls, impact, requests>>

(* CalculateDailyImpact or CalculateWeeklyImpact: the period's bounds,     *)
(* then statement 1.                                                       *)
StartImpact ==
    /\ calc.pc = "idle"
    /\ requests < MaxRequests
    /\ requests' = requests + 1
    /\ \E p \in Periods :
          \/ calc' = [Idle EXCEPT !.pc = "breakdown", !.period = p, !.fraud = FraudMetrics]
          \/ DbFailures /\ UNCHANGED calc
    /\ UNCHANGED <<alerts, calls, impact>>

QueryBreakdown ==
    /\ calc.pc = "breakdown"
    /\ \E last \in LastGroups :
          calc' = [calc EXCEPT !.pc = "falsePositives", !.breakdown = RevenueBreakdown(last)]
    /\ UNCHANGED <<alerts, calls, impact, requests>>

QueryFalsePositives ==
    /\ calc.pc = "falsePositives"
    /\ calc' = [calc EXCEPT !.pc = "totalAlerts", !.fp = FalsePositiveMetrics]
    /\ UNCHANGED <<alerts, calls, impact, requests>>

QueryTotalAlerts ==
    /\ calc.pc = "totalAlerts"
    /\ calc' = [calc EXCEPT !.pc = "suspicious", !.total = getTotalAlerts]
    /\ UNCHANGED <<alerts, calls, impact, requests>>

(* Fault model for the rates: the division without its guard, which in   *)
(* Go yields NaN for a period with no alerts.                              *)
PercentUnguarded(part, whole) == [num |-> part * 100, den |-> whole]

(* part / whole * 100 when whole > 0, else the field's zero value.         *)
Percent(part, whole) == IF whole > 0 THEN [num |-> part * 100, den |-> whole] ELSE Zero

(* The report built from what the five statements read.                    *)
RevenueImpact(c, suspicious) ==
    LET actualLoss == c.fp.minutes * InterconnectRate
        opCost == OperationalCostPerDay * PeriodDays[c.period]
        net == c.breakdown.protected - actualLoss - opCost
    IN [fraudCalls |-> c.fraud.calls, fraudMinutes |-> c.fraud.minutes,
        revenueByFraudType |-> c.breakdown.byType,
        revenueProtected |-> c.breakdown.protected,
        actualRevenueLoss |-> actualLoss,
        potentialRevenueLoss |-> c.fraud.minutes * InterconnectRate,
        operationalCost |-> opCost, netBenefit |-> net,
        roi |-> IF opCost > 0 THEN [num |-> net, den |-> opCost \div 100] ELSE Zero,
        detectionAccuracy |-> Percent(c.fraud.calls, c.total),
        falsePositiveRate |-> Percent(c.fp.calls, c.total),
        falseNegativeRate |->
            IF suspicious > 0
            THEN max(Zero, [num |-> (suspicious - c.fraud.calls) * 100, den |-> suspicious])
            ELSE Zero,
        snapshot |-> c.snapshot]

(* Statement 5, and the report is returned.                                *)
QuerySuspicious ==
    /\ calc.pc = "suspicious"
    /\ impact' = RevenueImpact(calc, getSuspiciousCallCount)
    /\ calc' = Idle
    /\ UNCHANGED <<alerts, calls, requests>>

-----------------------------------------------------------------------------
(* The detection engine and the analysts, writing the two tables (their   *)
(* code is not in this repository): a new alert, a status change, a call  *)
(* record linked to an alert or to none.                                   *)
Written == calc' = [calc EXCEPT !.snapshot = (calc.pc = "idle")]

InsertAlert ==
    /\ Len(alerts) < MaxAlerts
    /\ \E t \in EventTypes, c \in Countries :
          alerts' = Append(alerts, [type |-> t, country |-> c, status |-> "NEW",
                                    resolution |-> "none"])
    /\ Written
    /\ UNCHANGED <<calls, impact, requests>>

UpdateAlert ==
    /\ \E i \in DOMAIN alerts, s \in Statuses \ {"NEW"}, r \in Resolutions \ {"none"} :
          /\ alerts[i].status = "NEW"
          /\ alerts' = [alerts EXCEPT ![i].status = s, ![i].resolution = r]
    /\ Written
    /\ UNCHANGED <<calls, impact, requests>>

InsertCallRecord ==
    /\ Len(calls) < MaxCalls
    /\ \E a \in 0..Len(alerts), m \in Minutes, s \in BOOLEAN :
          calls' = Append(calls, [alert |-> a, minutes |-> m, suspicious |-> s])
    /\ Written
    /\ UNCHANGED <<alerts, impact, requests>>

Next ==
    \/ StartImpact \/ QueryBreakdown \/ QueryFalsePositives \/ QueryTotalAlerts
    \/ QuerySuspicious
    \/ calc.pc # "idle" /\ Fail
    \/ InsertAlert \/ UpdateAlert \/ InsertCallRecord

Spec == Init /\ [][Next]_vars

-----------------------------------------------------------------------------
TypeOK ==
    /\ alerts \in Seq(Alert) /\ Len(alerts) <= MaxAlerts
    /\ calls \in Seq(CallRecord) /\ Len(calls) <= MaxCalls
    /\ calc.pc \in Pcs /\ calc.period \in Periods
    /\ impact = NoImpact \/
          {impact.roi, impact.detectionAccuracy, impact.falsePositiveRate,
           impact.falseNegativeRate} \subseteq Ratio
    /\ requests \in 0..MaxRequests

(* RevenueProtected prices the minutes of statement 1 at the rates of      *)
(* determineRate: when no write fell between the statements, it lies       *)
(* between those minutes at the local and at the international rate.      *)
RevenueWithinRates ==
    impact # NoImpact /\ impact.snapshot =>
        /\ LocalRate * impact.fraudMinutes <= impact.revenueProtected
        /\ impact.revenueProtected <= InternationalRate * impact.fraudMinutes

(* TestRevenueImpactBreakdown asserts that the total revenue protected is  *)
(* the sum of RevenueByFraudType over all types.                           *)
RevenueBreakdownSumsToTotal ==
    impact # NoImpact =>
        MapThenSumSet(LAMBDA t : impact.revenueByFraudType[t], DOMAIN impact.revenueByFraudType)
            = impact.revenueProtected
=============================================================================
