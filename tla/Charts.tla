------------------------------- MODULE Charts -------------------------------
(***************************************************************************)
(* The charts of the analytics plugin: what VisualizationService makes of  *)
(* the table of metrics.  Nothing in the repository writes that table, so  *)
(* metrics arrive from outside, one at a time and in any order.            *)
(*                                                                         *)
(* The calendar is a regular one: so many hours to a day, days to a month, *)
(* months to a year.  An average is kept as its sum and its count.         *)
(***************************************************************************)
EXTENDS Integers, FiniteSets, Functions

CONSTANTS
  MetricIds,
  MetricNames,
  Values,
  Hours,     \* bound: the timestamps, in hours
  Dates,     \* bound: the dates a query gives
  HoursPerDay, DaysPerMonth, MonthsPerYear,
  NoMetric

ASSUME CalendarIsRegular ==
  /\ Values \subseteq Int /\ Hours \subseteq Nat /\ Dates \subseteq Nat
  /\ {HoursPerDay, DaysPerMonth, MonthsPerYear} \subseteq Nat \ {0}

VARIABLES metrics  \* the table, by id

AnalyticsMetric == [metricName: MetricNames, value: Values, timestamp: Hours]
TimeDimension == {"hourly", "daily", "weekly", "monthly"}
TrendAnalysisDto ==
  [metricName: MetricNames, timeDimension: TimeDimension,
   startDate: Dates \cup {NoMetric}, endDate: Dates \cup {NoMetric}]

ChaTypeOK == metrics \in [MetricIds -> AnalyticsMetric \cup {NoMetric}]

ChaInit == metrics = [i \in MetricIds |-> NoMetric]

MetricArrives(i, m) ==
  /\ metrics[i] = NoMetric
  /\ metrics' = [metrics EXCEPT ![i] = m]

ChaNext == \E i \in MetricIds, m \in AnalyticsMetric : MetricArrives(i, m)

ChaSpec == ChaInit /\ [][ChaNext]_metrics

There == {i \in MetricIds : metrics[i] # NoMetric}
Time(i) == metrics[i].timestamp

-----------------------------------------------------------------------------
(* The parts of a date. *)
HoursPerYear == MonthsPerYear * DaysPerMonth * HoursPerDay
Year(t) == t \div HoursPerYear
Month(t) == (t \div (DaysPerMonth * HoursPerDay)) % MonthsPerYear
DayOfMonth(t) == (t \div HoursPerDay) % DaysPerMonth
HourOfDay(t) == t % HoursPerDay
Day(t) == t \div HoursPerDay

(* The days since the first of January, rounded up: the week never enters. *)
GetWeekNumber(t) == Day(t) - Day(Year(t) * HoursPerYear)

GetTimeKeyYearless(t, dimension) ==
  CASE dimension = "hourly" -> <<Year(t), Month(t), DayOfMonth(t), HourOfDay(t)>>
    [] dimension = "daily" -> <<Year(t), Month(t), DayOfMonth(t)>>
    [] dimension = "weekly" -> <<GetWeekNumber(t)>>
    [] dimension = "monthly" -> <<Month(t)>>

GetTimeKey(t, dimension) ==
  CASE dimension = "hourly" -> <<Year(t), Month(t), DayOfMonth(t), HourOfDay(t)>>
    [] dimension = "daily" -> <<Year(t), Month(t), DayOfMonth(t)>>
    [] dimension = "weekly" -> <<Year(t), GetWeekNumber(t)>>
    [] dimension = "monthly" -> <<Year(t), Month(t)>>

(* A window counts only when both its ends are given. *)
QueryMetrics(query) ==
  {i \in There :
    /\ metrics[i].metricName = query.metricName
    /\ query.startDate # NoMetric /\ query.endDate # NoMetric =>
         query.startDate <= Time(i) /\ Time(i) <= query.endDate}

(* aggregateMetrics leaves the name out of its query. *)
AggregateMetrics(S) ==
  [total |-> Cardinality(S), sum |-> SumFunction([i \in S |-> metrics[i].value])]

Earliest(S) == CHOOSE t \in {Time(i) : i \in S} : \A i \in S : t <= Time(i)

InOrder(points) ==
  CHOOSE chart \in [1 .. Cardinality(points) -> points] :
    /\ IsInjective(chart)
    /\ \A m, n \in DOMAIN chart : m < n => chart[m].timestamp <= chart[n].timestamp

AggregateByTimeDimension(S, dimension) ==
  LET bucket(key) == {i \in S : GetTimeKey(Time(i), dimension) = key}
      point(key) == [label |-> key, value |-> AggregateMetrics(bucket(key)),
                     timestamp |-> Earliest(bucket(key))]
      points == {point(GetTimeKey(Time(i), dimension)) : i \in S}
  IN InOrder(points)

GenerateTrendChart(analysis) ==
  AggregateByTimeDimension(QueryMetrics(analysis), analysis.timeDimension)

-----------------------------------------------------------------------------
(* A trend chart is a chart of time: each metric of the query is in one    *)
(* point and one alone, the points do not overlap in time and come in its  *)
(* order, and the value of a point lies between those it is the average of.*)
TrendInOrder ==
  \A analysis \in TrendAnalysisDto :
    LET chart == GenerateTrendChart(analysis)
        found == QueryMetrics(analysis)
        of(n) == {i \in found : GetTimeKey(Time(i), analysis.timeDimension) = chart[n].label}
    IN
      /\ found = UNION {of(n) : n \in DOMAIN chart}
      /\ \A m, n \in DOMAIN chart : m < n => \A i \in of(m), j \in of(n) : Time(i) < Time(j)
      /\ \A n \in DOMAIN chart :
           /\ \E i \in of(n) : metrics[i].value * chart[n].value.total <= chart[n].value.sum
           /\ \E i \in of(n) : metrics[i].value * chart[n].value.total >= chart[n].value.sum
=============================================================================
