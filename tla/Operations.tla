----------------------------- MODULE Operations -----------------------------
(***************************************************************************)
(* The measures of the service itself: alerts, service levels and process  *)
(* control.                                                                *)
(***************************************************************************)
EXTENDS Integers, Sequences, SequencesExt, FiniteSets, FiniteSetsExt

(***************************************************************************)
(* The operational alert rules: the tier of an alert, the choice of a      *)
(* threshold under a cap on false positives and the filter for sustained   *)
(* alerts.  They are pure; a state is one input.  Scores are hundredths.   *)
(***************************************************************************)

CONSTANTS
  Risks, Consensus, Hits,    \* signals of an alert
  Scores, MaxScores,         \* labelled scores: values and how many
  FprTargets,                \* the cap on false positives, in percent
  Times, MaxAlerts           \* alert timestamps: values and how many

VARIABLE alertCase

SignalCase == [kind : {"tier"}, risk : Risks, consensus : Consensus, hits : Hits]
ThresholdCase == [kind : {"threshold"}, scores : SeqOf(Scores \X BOOLEAN, MaxScores), target : FprTargets]
SustainedCase == [kind : {"sustained"}, times : SeqOf(Times, MaxAlerts), window : {0, 2}, hits : 0..MaxAlerts]

AlertInit == alertCase \in SignalCase \cup ThresholdCase \cup SustainedCase
AlertNext == UNCHANGED alertCase

---------------------------------------------------------------------------
(* Tiers, 0 informational .. 4 critical. *)

sustained_hits(hits, n) == hits >= n

unit(x) == IF x < 0 THEN 0 ELSE IF x > 100 THEN 100 ELSE x
normalized(s) == [s EXCEPT !.risk = unit(@), !.consensus = unit(@)]

classify_alert_tier(signals) ==
  LET s == normalized(signals) IN
    CASE s.risk >= 95 /\ (s.consensus >= 80 \/ sustained_hits(s.hits, 3)) -> 4
      [] s.risk >= 80 /\ (s.consensus >= 70 \/ sustained_hits(s.hits, 3)) -> 3
      [] s.risk >= 60 /\ (s.consensus >= 55 \/ sustained_hits(s.hits, 2)) -> 2
      [] s.risk >= 35 -> 1
      [] OTHER -> 0

\* The response time of a tier, in hours, and its action.
from_tier(tier) ==
  CASE tier = 0 -> [hours |-> 24, action |-> 0]
    [] tier = 1 -> [hours |-> 24, action |-> 1]
    [] tier = 2 -> [hours |-> 4, action |-> 2]
    [] tier = 3 -> [hours |-> 0, action |-> 3]
    [] tier = 4 -> [hours |-> 0, action |-> 4]

---------------------------------------------------------------------------
(* select_threshold: the cheapest candidate, the first of equals. *)

FalsePositiveCost == 1
FalseNegativeCost == 2
NoThreshold == -1

counted_scores(scores, threshold, positive, label) ==
  Cardinality({i \in DOMAIN scores : (scores[i][1] >= threshold) = positive /\ scores[i][2] = label})

confusion(scores, threshold) ==
  [tp |-> counted_scores(scores, threshold, TRUE, TRUE), fp |-> counted_scores(scores, threshold, TRUE, FALSE),
   tn |-> counted_scores(scores, threshold, FALSE, FALSE), fn |-> counted_scores(scores, threshold, FALSE, TRUE)]

above_target(m, target) == m.fp * 100 > target * (m.fp + m.tn)
cost_of(m) == FalsePositiveCost * m.fp + FalseNegativeCost * m.fn

is_better(new, old) == cost_of(new) < cost_of(old) \/ (cost_of(new) = cost_of(old) /\ new.tp > old.tp)

candidate_thresholds(scores) == SetToSortSeq({scores[i][1] : i \in DOMAIN scores}, <)

select_threshold(scores, target) ==
  FoldLeft(LAMBDA best, t :
             LET m == confusion(scores, t) IN
               IF above_target(m, target) THEN best
               ELSE IF best = NoThreshold \/ is_better(m, confusion(scores, best)) THEN t ELSE best,
           NoThreshold, candidate_thresholds(scores))

---------------------------------------------------------------------------
(* has_sustained_alerts: a window over the sorted timestamps. *)

window_end(sorted, i, hits) == sorted[i + hits - 1]

has_sustained_alerts(times, window, hits) ==
  LET sorted == SortSeq(times, <) IN
    \/ hits = 0
    \/ /\ Len(times) >= hits
       /\ \E i \in 1..(Len(sorted) - hits + 1) : window_end(sorted, i, hits) - sorted[i] <= window

---------------------------------------------------------------------------
(* Properties. *)

\* More risk, more agreement or more correlated hits never lower the tier,
\* lengthen the response time or weaken the action.
TierIsMonotone ==
  alertCase.kind = "tier" =>
    \A s \in SignalCase :
      s.risk >= alertCase.risk /\ s.consensus >= alertCase.consensus /\ s.hits >= alertCase.hits =>
        LET lower == from_tier(classify_alert_tier(alertCase))
            upper == from_tier(classify_alert_tier(s))
        IN upper.hours <= lower.hours /\ upper.action >= lower.action

\* The threshold chosen respects the cap, no other candidate that respects
\* it costs less or finds more at the same cost, and there is none only when
\* every candidate exceeds the cap.
ThresholdIsOptimal ==
  alertCase.kind = "threshold" =>
    LET chosen == select_threshold(alertCase.scores, alertCase.target)
        allowed == {t \in ToSet(candidate_thresholds(alertCase.scores)) :
                      ~above_target(confusion(alertCase.scores, t), alertCase.target)}
        m(t) == confusion(alertCase.scores, t)
    IN IF allowed = {} THEN chosen = NoThreshold
       ELSE /\ chosen \in allowed
            /\ \A t \in allowed :
                 \/ cost_of(m(chosen)) < cost_of(m(t))
                 \/ cost_of(m(chosen)) = cost_of(m(t)) /\ m(chosen).tp >= m(t).tp

\* Alerts are sustained exactly when some window of the given length holds
\* enough of them, in whatever order they were reported.
SustainedMeansWindow ==
  alertCase.kind = "sustained" =>
    LET within(start) == {i \in DOMAIN alertCase.times : alertCase.times[i] \in start..(start + alertCase.window)}
    IN has_sustained_alerts(alertCase.times, alertCase.window, alertCase.hits)
         <=> \E start \in Times : Cardinality(within(start)) >= alertCase.hits

(***************************************************************************)
(* The service-level trackers: bounded records of detection and response   *)
(* latencies with the precision reached at each threshold, and the rolling *)
(* tracker over a time window.  They are separate objects: Init chooses    *)
(* one.  Times and latencies are seconds.                                  *)
(***************************************************************************)

CONSTANTS
  Latencies, Severities,
  MaxSlaRecords,          \* max_records, and the bound on threshold records
  Matrices,            \* confusion matrices [tp, fp, fn]
  SlaWindow, MaxSlaTime,     \* of the rolling tracker
  MaxSteps             \* bound on the calls

VARIABLES
  slaKind,
  mttdRecords, mttrRecords,
  thresholdMetrics,    \* sequence of [threshold, matrix]
  detections, responses,   \* rolling: sequences of [time]
  rollingNow,          \* the time of the last record
  slaSteps

slaVars == <<slaKind, mttdRecords, mttrRecords, thresholdMetrics, detections, responses, rollingNow, slaSteps>>

SlaInit ==
  /\ slaKind \in {"latency", "precision", "rolling"}
  /\ mttdRecords = <<>> /\ mttrRecords = <<>> /\ thresholdMetrics = <<>>
  /\ detections = <<>> /\ responses = <<>> /\ rollingNow = SlaWindow /\ slaSteps = 0

count_step(kind) == slaKind = kind /\ slaSteps < MaxSteps /\ slaSteps' = slaSteps + 1 /\ UNCHANGED slaKind

mttd_target(severity) ==
  CASE severity = "info" -> 300 [] severity = "low" -> 180 [] severity = "medium" -> 120
    [] severity = "high" -> 60 [] severity = "critical" -> 30

add_record(records, latency) ==
  Append(IF Len(records) >= MaxSlaRecords THEN Tail(records) ELSE records, latency)

\* A critical detection that is late panics before it is recorded.
record_mttd(latency, severity) ==
  /\ count_step("latency")
  /\ ~(severity = "critical" /\ latency > mttd_target(severity))
  /\ mttdRecords' = add_record(mttdRecords, [latency |-> latency, severity |-> severity])
  /\ UNCHANGED <<mttrRecords, thresholdMetrics, detections, responses, rollingNow>>

\* From timestamps: a detection before its occurrence has no latency, and a
\* late one is only reported.
record_mttd_timestamp(occurrence, detection, severity) ==
  /\ count_step("latency")
  /\ mttdRecords' = add_record(mttdRecords, [latency |-> IF detection > occurrence THEN detection - occurrence ELSE 0,
                                             severity |-> severity])
  /\ UNCHANGED <<mttrRecords, thresholdMetrics, detections, responses, rollingNow>>

record_mttr(latency, severity) ==
  /\ count_step("latency")
  /\ mttrRecords' = add_record(mttrRecords, [latency |-> latency, severity |-> severity])
  /\ UNCHANGED <<mttdRecords, thresholdMetrics, detections, responses, rollingNow>>

reset_sla ==
  /\ count_step("latency")
  /\ mttdRecords' = <<>> /\ mttrRecords' = <<>> /\ thresholdMetrics' = <<>>
  /\ UNCHANGED <<detections, responses, rollingNow>>

total_latency(records) == FoldLeft(LAMBDA sum, r : sum + r.latency, 0, records)
mttd == IF mttdRecords = <<>> THEN 0 ELSE total_latency(mttdRecords) \div Len(mttdRecords)
mttr == IF mttrRecords = <<>> THEN 0 ELSE total_latency(mttrRecords) \div Len(mttrRecords)

sorted_latencies(records) == SortSeq([i \in DOMAIN records |-> records[i].latency], <)

mttd_percentile(p) ==
  LET n == Len(mttdRecords)
      index == (p * (n - 1)) \div 100
  IN IF n = 0 THEN 0 ELSE sorted_latencies(mttdRecords)[(IF index < n - 1 THEN index ELSE n - 1) + 1]

---------------------------------------------------------------------------
(* Precision at a recall, compared as fractions. *)

precision(m) == IF m.tp + m.fp = 0 THEN <<0, 1>> ELSE <<m.tp, m.tp + m.fp>>
recall(m) == IF m.tp + m.fn = 0 THEN <<0, 1>> ELSE <<m.tp, m.tp + m.fn>>
above(a, b) == a[1] * b[2] > b[1] * a[2]
equal(a, b) == a[1] * b[2] = b[1] * a[2]

record_precision_recall(threshold, m) ==
  /\ count_step("precision")
  /\ LET grown == Append(thresholdMetrics, [threshold |-> threshold, matrix |-> m])
     IN thresholdMetrics' = IF Len(grown) > MaxSlaRecords THEN Tail(grown) ELSE grown
  /\ UNCHANGED <<mttdRecords, mttrRecords, detections, responses, rollingNow>>

preferred(m, best) ==
  \/ above(precision(m), precision(best))
  \/ equal(precision(m), precision(best)) /\ above(recall(m), recall(best))

NoMatrix == [tp |-> 0, fp |-> 0, fn |-> 0]
enough_recall(m, target) == recall(m)[1] * 100 >= target * recall(m)[2]

calculate_precision_at_recall(target) ==
  FoldLeft(LAMBDA best, r :
             IF ~enough_recall(r.matrix, target) THEN best
             ELSE IF best = NoMatrix \/ preferred(r.matrix, best) THEN r.matrix ELSE best,
           NoMatrix, thresholdMetrics)

---------------------------------------------------------------------------
(* The rolling tracker: every record prunes both queues from the front. *)

prune_old_records(queue, now) ==
  LET keep == {i \in DOMAIN queue : \E j \in 1..i : queue[j].time >= now - SlaWindow}
  IN SubSeq(queue, Len(queue) - Cardinality(keep) + 1, Len(queue))

record_detection(time) ==
  /\ count_step("rolling") /\ time >= rollingNow /\ rollingNow' = time
  /\ detections' = Append(prune_old_records(detections, time), [time |-> time])
  /\ responses' = prune_old_records(responses, time)
  /\ UNCHANGED <<mttdRecords, mttrRecords, thresholdMetrics>>

record_response(time) ==
  /\ count_step("rolling") /\ time >= rollingNow /\ rollingNow' = time
  /\ detections' = prune_old_records(detections, time)
  /\ responses' = Append(prune_old_records(responses, time), [time |-> time])
  /\ UNCHANGED <<mttdRecords, mttrRecords, thresholdMetrics>>

SlaNext ==
  \/ \E l \in Latencies, s \in Severities : record_mttd(l, s) \/ record_mttr(l, s) \/ record_mttd_timestamp(20, l, s)
  \/ reset_sla
  \/ \E t \in 1..2, m \in Matrices : record_precision_recall(t, m)
  \/ \E t \in SlaWindow..MaxSlaTime : record_detection(t) \/ record_response(t)

---------------------------------------------------------------------------
(* Properties. *)

\* The latency percentiles are ordered, start at the smallest record and end
\* at the largest, and the mean lies between, however many records there
\* are and whichever have been dropped.
PercentilesOrdered ==
  mttdRecords # <<>> =>
    LET all == {mttdRecords[i].latency : i \in DOMAIN mttdRecords} IN
      /\ mttd_percentile(0) = CHOOSE l \in all : \A k \in all : l <= k
      /\ mttd_percentile(100) = CHOOSE l \in all : \A k \in all : l >= k
      /\ \A p, q \in {0, 50, 95, 100} : p <= q => mttd_percentile(p) <= mttd_percentile(q)
      /\ mttd_percentile(0) <= mttd /\ mttd <= mttd_percentile(100)

\* The precision reported at a recall is the highest any kept threshold
\* reaches with that recall, and the recall reported is enough.
BestPrecisionReported ==
  \A target \in {50, 95} :
    LET best == calculate_precision_at_recall(target)
        kept == {r \in ToSet(thresholdMetrics) : enough_recall(r.matrix, target)}
    IN kept # {} => /\ enough_recall(best, target)
                    /\ \A r \in kept : ~above(precision(r.matrix), precision(best))

\* The rolling means are taken over the window that ends at the last record,
\* in both queues, when the records come in the order of their times.
RollingWithinWindow ==
  \A r \in ToSet(detections) \cup ToSet(responses) : r.time >= rollingNow - SlaWindow

(***************************************************************************)
(* Statistical process control: the Kolmogorov-Smirnov statistic, the      *)
(* histograms behind the stability index and the control limits of the     *)
(* moving average.  Pure; a state is one input.  Fractions are compared    *)
(* over a common denominator; p-values and logarithms are left out.        *)
(***************************************************************************)

CONSTANTS SampleValues, MaxSample, BinCounts, Deviations

VARIABLE spcCase

KsCase == [kind : {"ks"}, first : SeqOf(SampleValues, MaxSample), second : SeqOf(SampleValues, MaxSample)]
BinCase == [kind : {"bins"}, samples : SeqOf(SampleValues, MaxSample + 2), num : BinCounts]
LimitCase == [kind : {"limits"}, deviation : Deviations, multiplier : 1..4]

SpcInit == spcCase \in KsCase \cup BinCase \cup LimitCase
SpcNext == UNCHANGED spcCase

---------------------------------------------------------------------------
(* ks_test: the largest distance of the empirical distributions, times the *)
(* product of the sample sizes.                                            *)

empirical_cdf(sample, x) == Cardinality({i \in DOMAIN sample : sample[i] <= x})
distance(s1, s2, x) ==
  LET d == empirical_cdf(s1, x) * Len(s2) - empirical_cdf(s2, x) * Len(s1) IN IF d < 0 THEN -d ELSE d

all_values(s1, s2) == ToSet(s1) \cup ToSet(s2)

ks_test(s1, s2) ==
  IF s1 = <<>> \/ s2 = <<>> THEN 0 ELSE Max({distance(s1, s2, x) : x \in all_values(s1, s2)})

---------------------------------------------------------------------------
(* Histograms: the edges are the quantiles, the last a little above the    *)
(* maximum.  Values are doubled so that this fits between two of them.     *)

twice(samples) == [i \in DOMAIN samples |-> 2 * samples[i]]

quantile_edges(samples, num) ==
  LET sorted == SortSeq(twice(samples), <) IN
    <<sorted[1]>> \o [i \in 1..(num - 1) |-> sorted[(i * (Len(sorted) - 1)) \div num + 1]] \o <<sorted[Len(sorted)] + 1>>

edges_above(edges, x) == {i \in 2..Len(edges) : x <= edges[i]}

\* The first bin whose upper edge is not below the sample; a sample above
\* every edge counts in the first bin.
bin_of(edges, x) == IF edges_above(edges, x) = {} THEN 1 ELSE Min(edges_above(edges, x)) - 1

from_samples_with_edges(samples, edges) ==
  [b \in 1..(Len(edges) - 1) |-> {i \in DOMAIN samples : bin_of(edges, samples[i]) = b}]

from_samples(samples, num) == from_samples_with_edges(twice(samples), quantile_edges(samples, num))

---------------------------------------------------------------------------
(* Control limits at alpha = 3/10 and sigma = 10: the squared deviation    *)
(* against multiplier^2 * sigma^2 * alpha / (2 - alpha).                   *)

beyond(deviation, multiplier) == deviation * deviation * 17 > multiplier * multiplier * 100 * 3

alert_status_with_sigma(deviation, multiplier) ==
  IF beyond(deviation, multiplier) THEN 2 ELSE IF beyond(deviation, 2) THEN 1 ELSE 0

---------------------------------------------------------------------------
(* Properties. *)

\* The statistic is the supremum of the distance over all points, not only
\* the sampled ones; so it is symmetric, zero for the same sample in another
\* order and one for samples that do not overlap.
KsIsSupremum ==
  spcCase.kind = "ks" /\ spcCase.first # <<>> /\ spcCase.second # <<>> =>
    LET s1 == spcCase.first
        s2 == spcCase.second
    IN /\ \A x \in 0..(Max(SampleValues) + 1) : distance(s1, s2, x) <= ks_test(s1, s2)
       /\ ks_test(s1, s2) = ks_test(s2, s1)
       /\ SortSeq(s1, <) = SortSeq(s2, <) => ks_test(s1, s2) = 0
       /\ Max(ToSet(s1)) < Min(ToSet(s2)) => ks_test(s1, s2) = Len(s1) * Len(s2)

\* Every sample is in exactly one bin, and that bin's edges enclose it: also
\* with repeated values, where several edges coincide.
BinsEncloseSamples ==
  spcCase.kind = "bins" /\ Cardinality(ToSet(spcCase.samples)) > 1 =>
    LET samples == twice(spcCase.samples)
        edges == quantile_edges(spcCase.samples, spcCase.num)
        bins == from_samples(spcCase.samples, spcCase.num)
    IN /\ \A i \in DOMAIN samples : \E b \in DOMAIN bins : i \in bins[b]
       /\ \A b \in DOMAIN bins : \A i \in bins[b] :
            samples[i] <= edges[b + 1] /\ (b > 1 => samples[i] > edges[b])

\* The further the average is from its target, the higher the alert, for
\* every multiplier; and an average beyond the warning limit is never in
\* control.
FurtherIsWorse ==
  spcCase.kind = "limits" =>
    /\ \A d \in Deviations : d >= spcCase.deviation =>
         alert_status_with_sigma(d, spcCase.multiplier) >= alert_status_with_sigma(spcCase.deviation, spcCase.multiplier)
    /\ beyond(spcCase.deviation, 2) => alert_status_with_sigma(spcCase.deviation, spcCase.multiplier) > 0
=============================================================================
