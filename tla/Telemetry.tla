------------------------------ MODULE Telemetry ------------------------------
(***************************************************************************)
(* MetricsService and ErrorTrackingService of libs/common: what they keep  *)
(* of the requests and errors they are told about.  MetricsService keeps   *)
(* its lists under the key method:path, and takes the key apart again for  *)
(* its summaries.                                                          *)
(***************************************************************************)
EXTENDS SequencesExt, Integers

CONSTANTS
  Routes,     \* a method with a path
  CutTo,      \* CutTo[r]: the route that is left of r's key up to the second colon
  StatusCodes, Durations,
  MaxErrors,  \* MAX_ERRORS (1000)
  MaxMetrics, \* MAX_METRICS_PER_ROUTE (1000)
  MaxRecords  \* bound: requests and errors that are recorded

ASSUME LimitsArePositive == {MaxErrors, MaxMetrics} \subseteq Nat \ {0} /\ MaxRecords \in Nat
ASSUME MeasuresAreNumbers == StatusCodes \subseteq Nat /\ Durations \subseteq Nat

VARIABLES
  errors,   \* the newest first
  metrics,  \* the newest last; <<>> is a key the map does not hold
  records   \* history variable: what was recorded since it was last cleared

telVars == <<errors, metrics, records>>

Metric == [statusCode: StatusCodes, duration: Durations]
TrackedError == Routes

TelTypeOK ==
  /\ errors \in Seq(TrackedError)
  /\ metrics \in [Routes -> Seq(Metric)]
  /\ records \in [errors: Seq(TrackedError), metrics: [Routes -> Seq(Metric)], total: 0 .. MaxRecords]

TelInit ==
  /\ errors = <<>>
  /\ metrics = [r \in Routes |-> <<>>]
  /\ records = [errors |-> <<>>, metrics |-> metrics, total |-> 0]

Record == records.total < MaxRecords

(* The elements of s that are in A, in their order. *)
Filter(s, A) ==
  LET kept[n \in 0 .. Len(s)] ==
        IF n = 0 THEN <<>>
        ELSE IF s[n] \in A THEN Append(kept[n - 1], s[n]) ELSE kept[n - 1]
  IN kept[Len(s)]

-----------------------------------------------------------------------------
TrackErrorOneOver(path) ==
  /\ Record
  /\ errors' = IF Len(errors) > MaxErrors THEN Front(<<path>> \o errors) ELSE <<path>> \o errors
  /\ records' = [records EXCEPT !.errors = Append(@, path), !.total = @ + 1]
  /\ UNCHANGED metrics

TrackError(path) ==
  /\ Record
  /\ LET all == <<path>> \o errors IN errors' = IF Len(all) > MaxErrors THEN Front(all) ELSE all
  /\ records' = [records EXCEPT !.errors = Append(@, path), !.total = @ + 1]
  /\ UNCHANGED metrics

GetErrorsByPath(path) == Filter(errors, {path})

ErrorStatistics == [total |-> Len(errors),
                    byPath |-> [p \in Range(errors) |-> Len(GetErrorsByPath(p))]]

ClearErrors ==
  /\ errors' = <<>>
  /\ records' = [records EXCEPT !.errors = <<>>]
  /\ UNCHANGED metrics

RecordMetric(r, m) ==
  /\ Record
  /\ LET all == Append(metrics[r], m) IN
       metrics' = [metrics EXCEPT ![r] = IF Len(all) > MaxMetrics THEN Tail(all) ELSE all]
  /\ records' = [records EXCEPT !.metrics[r] = Append(@, m), !.total = @ + 1]
  /\ UNCHANGED errors

ClearMetrics(r) ==
  /\ metrics' = [metrics EXCEPT ![r] = <<>>]
  /\ records' = [records EXCEPT !.metrics[r] = <<>>]
  /\ UNCHANGED errors

ClearAllMetrics ==
  /\ metrics' = [r \in Routes |-> <<>>]
  /\ records' = [records EXCEPT !.metrics = metrics']
  /\ UNCHANGED errors

-----------------------------------------------------------------------------
Failed(m) == m.statusCode >= 400

(* The average and the rate are given by their numerators. *)
PerformanceSummary(r) ==
  LET durations == [i \in DOMAIN metrics[r] |-> metrics[r][i].duration] IN
    [total |-> Len(metrics[r]),
     sum |-> FoldLeft(LAMBDA a, b : a + b, 0, durations),
     max |-> Max(Range(durations)),
     min |-> Min(Range(durations)),
     failed |-> Len(Filter(metrics[r], {m \in Metric : Failed(m)}))]

(* The method and the path are what stands before and after the first      *)
(* colon of the key, up to the next one.                                   *)
AllPerformanceSummaries ==
  [r \in {k \in Routes : metrics[k] # <<>> /\ metrics[CutTo[k]] # <<>>} |->
     PerformanceSummary(CutTo[r])]

(* Route by route, in some order of those the map holds. *)
AllMetrics ==
  LET order == SetToSeq({r \in Routes : metrics[r] # <<>>})
      upto[n \in 0 .. Len(order)] ==
        IF n = 0 THEN <<>> ELSE upto[n - 1] \o metrics[order[n]]
  IN upto[Len(order)]

(* The slowest first; what took the same time stays in its order. *)
SlowestFirst(s) ==
  CHOOSE at \in [DOMAIN s -> DOMAIN s] :
    \A m, n \in DOMAIN s :
      m < n => \/ s[at[m]].duration > s[at[n]].duration
               \/ s[at[m]].duration = s[at[n]].duration /\ at[m] < at[n]

SlowRequests(threshold) ==
  LET slow == Filter(AllMetrics, {m \in Metric : m.duration > threshold})
  IN [n \in DOMAIN slow |-> slow[SlowestFirst(slow)[n]]]

ErrorRequests == Filter(AllMetrics, {m \in Metric : Failed(m)})

TelNext ==
  \/ \E r \in Routes :
       TrackError(r) \/ ClearMetrics(r) \/ \E m \in Metric : RecordMetric(r, m)
  \/ ClearErrors \/ ClearAllMetrics

TelSpec == TelInit /\ [][TelNext]_telVars

-----------------------------------------------------------------------------
LastOf(s, n) == SubSeq(s, Max({1, Len(s) - n + 1}), Len(s))

(* At and past their limits the services still hold exactly the newest     *)
(* errors and the newest metrics of every route                            *)
(* (error-tracking.service.ts, trackError; metrics.service.ts,             *)
(* recordMetric).                                                          *)
NewestKept ==
  /\ errors = Reverse(LastOf(records.errors, MaxErrors))
  /\ \A r \in Routes : metrics[r] = LastOf(records.metrics[r], MaxMetrics)

(* What the services hold is the newest of what they were told, and what   *)
(* they say of it agrees: the errors by path add up, the summary of a      *)
(* route whose path has no colon is in the list of all and is its own, and *)
(* a request is among the failed ones as often as the summaries count it.  *)
KeptIsTheNewest ==
  /\ NewestKept
  /\ \A p \in DOMAIN ErrorStatistics.byPath :
       ErrorStatistics.byPath[p] = Cardinality({i \in DOMAIN errors : errors[i] = p})
  /\ \A r \in Routes :
       CutTo[r] = r /\ metrics[r] # <<>> =>
         /\ r \in DOMAIN AllPerformanceSummaries
         /\ AllPerformanceSummaries[r].total = Len(metrics[r])
         /\ AllPerformanceSummaries[r].min <= AllPerformanceSummaries[r].max
  /\ Len(ErrorRequests)
       = Cardinality(UNION {{<<r, i>> : i \in {j \in DOMAIN metrics[r] : Failed(metrics[r][j])}} :
                              r \in Routes})
  /\ \A i \in 1 .. Len(SlowRequests(1)) - 1 :
       SlowRequests(1)[i].duration >= SlowRequests(1)[i + 1].duration
=============================================================================
