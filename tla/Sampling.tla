------------------------------ MODULE Sampling ------------------------------
(***************************************************************************)
(* Sampling of interactions: the stratified sampler, whose rates follow    *)
(* the anomalies found, and the epsilon-greedy bandit.  They are separate  *)
(* objects: SamplerInit chooses one.  Rates are millionths; the bound on   *)
(* calls of optimize_sampling_rates keeps them exact.                      *)
(***************************************************************************)
EXTENDS Integers, Sequences

CONSTANTS
  Stratum,          \* the strata configured, of "critical", "high", "medium", "low"
  CustomRates,      \* rates a caller may configure, before clamping
  RateBounds,       \* <<min_rate, max_rate>> of optimize_sampling_rates
  SampleLimits,     \* no outcome is recorded beyond these counts
  MaxOptimise,
  Arms, Rewards, MaxPulls

ASSUME SamplerAssumption ==
  /\ Stratum \subseteq {"critical", "high", "medium", "low"} /\ CustomRates \subseteq Int
  /\ \A b \in RateBounds : b[1] \in Nat /\ b[2] \in Nat

VARIABLES
  samplerKind,
  strata,           \* level -> [rate, samples, anomalies]
  optimised,        \* the bounds of the last optimisation, or <<>>
  optimisations,
  arms              \* sequence of [pulls, rewards]

samplerVars == <<samplerKind, strata, optimised, optimisations, arms>>

FullRate == 1000000
default_rate(level) ==
  CASE level = "critical" -> FullRate [] level = "high" -> 500000 [] level = "medium" -> 100000 [] level = "low" -> 10000

bounded(x, lo, hi) == IF x < lo THEN lo ELSE IF x > hi THEN hi ELSE x
new_stratum(level) == [rate |-> default_rate(level), samples |-> 0, anomalies |-> 0]
with_rate(rate) == [rate |-> bounded(rate, 0, FullRate), samples |-> 0, anomalies |-> 0]

\* A caller's strata may come with counts of their own.
with_strata ==
  [Stratum -> {with_rate(r) : r \in CustomRates} \cup {[with_rate(r) EXCEPT !.samples = 40, !.anomalies = 1] : r \in CustomRates}]

SamplerInit ==
  /\ samplerKind \in {"strata", "bandit"}
  /\ strata \in {[l \in Stratum |-> new_stratum(l)]} \cup (IF samplerKind = "strata" THEN with_strata ELSE {})
  /\ optimised = <<>> /\ optimisations = 0
  /\ arms = [a \in 1..Arms |-> [pulls |-> 0, rewards |-> 0]]

---------------------------------------------------------------------------
(* The strata. *)

record_sample(s, isAnomaly) ==
  [s EXCEPT !.samples = @ + 1, !.anomalies = IF isAnomaly THEN @ + 1 ELSE @]

\* Whether an interaction is sampled is random: any outcome below the rate.
record_outcome(level, isAnomaly) ==
  /\ samplerKind = "strata" /\ strata[level].samples \notin SampleLimits
  /\ strata' = [strata EXCEPT ![level] = record_sample(@, isAnomaly)]
  /\ UNCHANGED <<samplerKind, optimised, optimisations, arms>>

\* anomaly_rate compared with five and with one percent, 0 without samples.
rate_above(s, percent) == s.samples > 0 /\ s.anomalies * 100 > percent * s.samples
rate_below(s, percent) == s.samples = 0 \/ s.anomalies * 100 < percent * s.samples

ensured(rate, lo, hi) == bounded(rate, lo, hi)

adjusted(s, lo, hi) ==
  IF rate_above(s, 5) THEN bounded(s.rate * 2, 0, hi)
  ELSE IF rate_below(s, 1) THEN bounded((s.rate * 8) \div 10, lo, FullRate * 2)
  ELSE s.rate

optimize_sampling_rates(lo, hi) ==
  /\ samplerKind = "strata" /\ optimisations < MaxOptimise /\ optimisations' = optimisations + 1
  /\ strata' = [l \in Stratum |-> [strata[l] EXCEPT !.rate = ensured(adjusted(strata[l], lo, hi), lo, hi)]]
  /\ optimised' = <<lo, hi>>
  /\ UNCHANGED <<samplerKind, arms>>

reset_stats ==
  /\ samplerKind = "strata"
  /\ strata' = [l \in Stratum |-> [strata[l] EXCEPT !.samples = 0, !.anomalies = 0]]
  /\ UNCHANGED <<samplerKind, optimised, optimisations, arms>>

---------------------------------------------------------------------------
(* The bandit. *)

\* average_reward of a exceeds, or equals, that of b; an unpulled arm has 0.
exceeds(a, b) ==
  LET pulls(arm) == IF arm.pulls = 0 THEN 1 ELSE arm.pulls
  IN a.rewards * pulls(b) > b.rewards * pulls(a)
same_reward(a, b) == ~exceeds(a, b) /\ ~exceeds(b, a)

replaces(arm, best) == exceeds(arm, best) \/ (same_reward(arm, best) /\ arm.pulls = 0)

\* The index with the best reward so far, from index 1 and reward 0.
best_arm ==
  LET best[i \in 0..Arms] ==
        IF i = 0 THEN [index |-> 1, arm |-> [pulls |-> 0, rewards |-> 0]]
        ELSE IF replaces(arms[i], best[i - 1].arm) THEN [index |-> i, arm |-> arms[i]] ELSE best[i - 1]
  IN best[Arms].index

\* Explore any arm, or exploit the best; then its reward is recorded.
select == 1..Arms \cup {best_arm}

update_arm(a, reward) ==
  /\ samplerKind = "bandit" /\ a \in select /\ arms[a].pulls < MaxPulls
  /\ arms' = [arms EXCEPT ![a] = [pulls |-> @.pulls + 1, rewards |-> @.rewards + reward]]
  /\ UNCHANGED <<samplerKind, strata, optimised, optimisations>>

SamplerNext ==
  \/ \E l \in Stratum, b \in BOOLEAN : record_outcome(l, b)
  \/ \E b \in RateBounds : optimize_sampling_rates(b[1], b[2])
  \/ reset_stats
  \/ \E a \in 1..Arms, r \in Rewards : update_arm(a, r)

SamplerSpec == SamplerInit /\ [][SamplerNext]_samplerVars

---------------------------------------------------------------------------
(* Properties. *)

\* After an optimisation every rate is within its bounds, also the rates it
\* had no reason to change and those configured outside the bounds.
RatesWithinBounds ==
  optimised # <<>> => \A l \in Stratum : strata[l].rate \in optimised[1]..optimised[2]

\* An optimisation never samples a stratum less in which more than five
\* percent were anomalies, unless its rate was above the upper bound.
AnomaliesRaiseRate ==
  [\A b \in RateBounds, l \in Stratum :
       optimize_sampling_rates(b[1], b[2]) /\ rate_above(strata[l], 5) /\ strata[l].rate <= b[2] =>
         strata'[l].rate >= strata[l].rate]_samplerVars

\* When some arm has earned a reward, the arm exploited is one with the
\* highest average: arms never pulled do not displace it.
BestArmIsBest ==
  (\E a \in 1..Arms : arms[a].rewards > 0) => \A a \in 1..Arms : ~exceeds(arms[a], arms[best_arm])
=============================================================================
