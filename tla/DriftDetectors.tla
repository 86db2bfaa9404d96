--------------------------- MODULE DriftDetectors ---------------------------
(***************************************************************************)
(* The distance-based detectors: shared calibration, percentile scores,    *)
(* and the index they search.                                              *)
(***************************************************************************)
EXTENDS Integers, Sequences, SequencesExt, FiniteSets

(***************************************************************************)
(* The shared state of the nearest-neighbour detector: the benign           *)
(* references, the leave-one-out distances cached from them and the attack  *)
(* anchors with their floor, each behind a mutex of its own, used by        *)
(* several threads.  A cached value is represented by what it was computed  *)
(* from.  add_benign_sample and calibrate hold the references throughout.   *)
(***************************************************************************)

CONSTANTS Sample, Anchor, CalThread, MinSamples, MaxHistory, None

ASSUME CalibrationAssumption == MinSamples \in 1 .. MaxHistory

VARIABLES
  benign_refs,        \* the references, oldest first
  refsHolder,         \* the thread that holds their mutex across steps, or None
  attack_anchors,
  cached_distances,   \* the references the cached distances come from, or None
  anchor_floor,       \* the anchors the floor is the minimum over, or None
  calCall,            \* per thread, what it is in the middle of
  staleFloor          \* an anchor was added while a calibration was under way

calVars == <<benign_refs, refsHolder, attack_anchors, cached_distances, anchor_floor, calCall, staleFloor>>

CalIdle == [at |-> "idle", anchors |-> {}, corpus |-> <<>>]

CalInit ==
  /\ benign_refs = <<>>
  /\ refsHolder = None
  /\ attack_anchors \in SUBSET Anchor
  /\ cached_distances = None
  /\ anchor_floor = None
  /\ calCall = [t \in CalThread |-> CalIdle]
  /\ staleFloor = FALSE

CalAt(t, step) == calCall[t].at = step
CalGoto(t, step) == calCall' = [calCall EXCEPT ![t].at = step]

invalidated(cached) == None

with_sample(refs, s) == Append(IF Len(refs) >= MaxHistory THEN Tail(refs) ELSE refs, s)

pushed_sample(s) ==
  /\ refsHolder = None
  /\ benign_refs' = with_sample(benign_refs, s)
  /\ cached_distances' = invalidated(cached_distances)
  /\ UNCHANGED <<refsHolder, attack_anchors, anchor_floor, staleFloor>>

add_benign_sample(t, s) ==
  /\ CalAt(t, "idle")
  /\ pushed_sample(s)
  /\ UNCHANGED calCall

---------------------------------------------------------------------------
(* add_attack_anchor pushes under one mutex and resets the floor under      *)
(* another.                                                                 *)

PushAnchor(t, a) ==
  /\ CalAt(t, "idle") /\ a \notin attack_anchors
  /\ attack_anchors' = attack_anchors \cup {a}
  /\ staleFloor' = (staleFloor \/ refsHolder # None)
  /\ CalGoto(t, "pushed")
  /\ UNCHANGED <<benign_refs, refsHolder, cached_distances, anchor_floor>>

no_floor(floor) == None

ResetFloor(t) ==
  /\ CalAt(t, "pushed")
  /\ anchor_floor' = no_floor(anchor_floor)
  /\ CalGoto(t, "idle")
  /\ UNCHANGED <<benign_refs, refsHolder, attack_anchors, cached_distances, staleFloor>>

---------------------------------------------------------------------------
(* calibrate: take the references, give up when there are too few, read the *)
(* anchors, then store the distances and the floor.                         *)

MayCalibrate(t) == CalAt(t, "idle") \/ (CalAt(t, "corpus") /\ calCall[t].corpus = <<>>)

TooFew(t) ==
  /\ MayCalibrate(t)
  /\ refsHolder = None /\ Len(benign_refs) < MinSamples
  /\ CalGoto(t, "idle")
  /\ UNCHANGED <<benign_refs, refsHolder, attack_anchors, cached_distances, anchor_floor, staleFloor>>

Measure(t) ==
  /\ MayCalibrate(t)
  /\ refsHolder = None /\ Len(benign_refs) >= MinSamples
  /\ refsHolder' = t
  /\ calCall' = [calCall EXCEPT ![t] = [at |-> "measured", anchors |-> attack_anchors, corpus |-> <<>>]]
  /\ UNCHANGED <<benign_refs, attack_anchors, cached_distances, anchor_floor, staleFloor>>

StoreDistances(t) ==
  /\ CalAt(t, "measured")
  /\ cached_distances' = benign_refs
  /\ CalGoto(t, "stored")
  /\ UNCHANGED <<benign_refs, refsHolder, attack_anchors, anchor_floor, staleFloor>>

StoreFloor(t) ==
  /\ CalAt(t, "stored")
  /\ anchor_floor' = IF calCall[t].anchors = {} THEN None ELSE calCall[t].anchors
  /\ refsHolder' = None
  /\ calCall' = [calCall EXCEPT ![t] = CalIdle]
  /\ staleFloor' = (staleFloor /\ calCall[t].anchors # attack_anchors)
  /\ UNCHANGED <<benign_refs, attack_anchors, cached_distances>>

---------------------------------------------------------------------------
(* calibrate_from_corpus and CalibrationPipeline::run: clear the references *)
(* (and nothing else), add the corpus one by one, calibrate.                *)

ClearRefs(t, corpus) ==
  /\ CalAt(t, "idle") /\ refsHolder = None
  /\ benign_refs' = <<>>
  /\ calCall' = [calCall EXCEPT ![t] = [CalIdle EXCEPT !.at = "corpus", !.corpus = corpus]]
  /\ UNCHANGED <<refsHolder, attack_anchors, cached_distances, anchor_floor, staleFloor>>

AddOfCorpus(t) ==
  /\ CalAt(t, "corpus") /\ calCall[t].corpus # <<>>
  /\ pushed_sample(Head(calCall[t].corpus))
  /\ calCall' = [calCall EXCEPT ![t].corpus = Tail(@)]

CalNext ==
  \E t \in CalThread :
    \/ \E s \in Sample : add_benign_sample(t, s)
    \/ \E a \in Anchor : PushAnchor(t, a)
    \/ ResetFloor(t)
    \/ TooFew(t)
    \/ Measure(t)
    \/ StoreDistances(t)
    \/ StoreFloor(t)
    \/ \E corpus \in SeqOf(Sample, MinSamples) : ClearRefs(t, corpus)
    \/ AddOfCorpus(t)

---------------------------------------------------------------------------
(* Properties                                                               *)

\* A percentile ranks a distance among distances of the same references:
\* while no calibration holds the references and there are any, the cached
\* distances are absent or were computed from exactly the references in
\* force, although the two sit behind different mutexes and a new corpus
\* clears the one without the other.
PercentilesMatchRefs ==
  refsHolder = None /\ benign_refs # <<>> => cached_distances \in {None, benign_refs}

\* A floor in force is the minimum over every attack anchor, once
\* add_attack_anchor has returned, unless the anchor came while a calibration
\* had read the anchors and not yet stored its floor.
FloorCoversAnchors ==
  anchor_floor # None /\ ~staleFloor /\ (\A t \in CalThread : ~CalAt(t, "pushed"))
  => anchor_floor = attack_anchors

(***************************************************************************)
(* The percentile-based drift scores: the ZEDD score of cognitive/src/     *)
(* drift.rs (which the MCP guard uses), the multi-scale detector of        *)
(* ensemble_divergence.rs with its leave-one-out calibration, and the      *)
(* reference distributions of calibration.rs with their four-tier          *)
(* decision.  Embeddings are points on a line, distance One stands for     *)
(* 1.0; averages and percentile ranks are fractions <<n, of>>, percentile  *)
(* thresholds tenths of a percent.  One case is chosen initially; the      *)
(* operators are pure.                                                     *)
(***************************************************************************)

CONSTANTS
    Places,      \* coordinates of embeddings, and benign scores
    MaxRefs,     \* bound on the number of references
    MaxBenign,   \* bound on the number of benign scores
    DriftKs,     \* the k of a core distance
    KValues,     \* the scales of the multi-scale detector, increasing
    MinRefs,     \* references below which calibrate returns (50)
    One,         \* the distance 1.0
    Ranks        \* percentiles looked up, in tenths of a percent

VARIABLE driftCase

scoringVars == <<driftCase>>

apart(x, y) == IF x < y THEN y - x ELSE x - y

distances_to(query, refs) ==
    SortSeq([i \in DOMAIN refs |-> apart(query, refs[i])], <)

\* Comparing two fractions, and the thresholds a fraction exceeds or reaches.
at_most(a, b) == a[1] * b[2] <= b[1] * a[2]

exceeded(f, thresholds) == {t \in thresholds : f[1] * 1000 > t * f[2]}

reached(f, thresholds) == {t \in thresholds : f[1] * 1000 >= t * f[2]}

-----------------------------------------------------------------------------
\* drift.rs

kth(k) == IF k = 0 THEN 1 ELSE k

core_distance(query, refs, k) ==
    LET d == distances_to(query, refs)
    IN  IF Len(refs) < k \/ kth(k) > Len(d) THEN One ELSE d[kth(k)]

counts_below(value, x) == x <= value

percentile_rank(value, historical) ==
    IF historical = <<>> THEN <<1, 2>>
    ELSE <<Cardinality({i \in DOMAIN historical :
                counts_below(value, historical[i])}), Len(historical)>>

zedd_drift_score(query, refs, historical, k) ==
    percentile_rank(core_distance(query, refs, k), historical)

-----------------------------------------------------------------------------
\* ensemble_divergence.rs

trimmed_mean(data) ==
    LET trim == (Len(data) * 2) \div 10
        kept == SubSeq(data, trim + 1, Len(data) - trim)
    IN  IF data = <<>> THEN <<0, 1>>
        ELSE <<FoldSeq(+, 0, kept), Len(kept)>>

\* The leave-one-out distance of reference i, over the scales that fit.
calibration_row(refs, i) ==
    LET others == distances_to(refs[i], RemoveAt(refs, i))
        half == Len(others) \div 2
        max_k == IF half < 1 THEN 1 ELSE half
        scales == SelectSeq(KValues, LAMBDA k : k <= max_k /\ k <= Len(others))
    IN  IF scales = <<>> THEN <<One, 1>>
        ELSE trimmed_mean([s \in DOMAIN scales |-> others[scales[s]]])

calibrate(refs) ==
    IF Len(refs) < MinRefs THEN <<>>
    ELSE [i \in DOMAIN refs |-> calibration_row(refs, i)]

kth_nearest_distance(query, refs, k) == core_distance(query, refs, k)

raw_distance(query, refs) ==
    trimmed_mean(SortSeq([s \in DOMAIN KValues |->
                    kth_nearest_distance(query, refs, KValues[s])], <))

calculate_percentile(distance, historical) ==
    IF historical = <<>> THEN <<0, 1>>
    ELSE <<Cardinality({i \in DOMAIN historical :
                at_most(historical[i], distance)}), Len(historical)>>

\* AlertTier::from_percentile, as its ordinal.
alert_tier(p) == Cardinality(exceeded(p, {800, 950, 995, 999}))

compute_drift_score(query, refs) ==
    alert_tier(calculate_percentile(raw_distance(query, refs), calibrate(refs)))

-----------------------------------------------------------------------------
\* calibration.rs

reference_distribution(benign) == SortSeq(benign, <)

(***************************************************************************)
(* percentile: the positions binary_search_by may return.  Several equal   *)
(* scores allow any of their positions, a missing score its insertion      *)
(* point.                                                                  *)
(***************************************************************************)
hits(scores, score) == {i - 1 : i \in {j \in DOMAIN scores : scores[j] = score}}

insertion_point(scores, score) ==
    Cardinality({i \in DOMAIN scores : scores[i] < score})

percentile(scores, score) ==
    LET found == hits(scores, score)
        size == IF scores = <<>> THEN 1 ELSE Len(scores)
    IN  {<<pos, size>> :
            pos \in IF found # {} THEN found
                    ELSE {insertion_point(scores, score)}}

compute_percentile(scores, p) ==
    LET last == Len(scores) - 1
        idx == (2 * p * last + 1000) \div 2000
    IN  scores[1 + (IF idx < last THEN idx ELSE last)]

Precomputed == <<500, 800, 900, 950, 990, 995, 999>>

\* (p * 10.0) as u8 saturates.
cache_key(p) == IF p > 255 THEN 255 ELSE p

\* A later insert replaces the value of an equal key.
last_inserted(keyed) == CHOOSE i \in keyed : \A j \in keyed : i >= j

score_at_percentile(scores, p) ==
    LET keyed == {i \in DOMAIN Precomputed :
                    cache_key(Precomputed[i]) = cache_key(p)}
    IN  compute_percentile(scores,
            IF keyed # {} THEN Precomputed[last_inserted(keyed)] ELSE p)

\* decide: 0 Allow, 1 Monitor, 2 Review, 3 Contain.
decide(p) == Cardinality(reached(p, {800, 950, 995}))

-----------------------------------------------------------------------------

SeqsUpTo(n) == UNION {[1..m -> Places] : m \in 0..n}

DriftInit ==
    driftCase \in
        [kind : {"zedd"}, refs : SeqsUpTo(MaxRefs), extra : Places, k : DriftKs,
         near : Places, far : Places]
          \union
        [kind : {"benign"}, scores : SeqsUpTo(MaxBenign), low : Places, high : Places]

DriftNext == UNCHANGED scoringVars

DriftSpec == DriftInit /\ [][DriftNext]_scoringVars

-----------------------------------------------------------------------------

\* Each reference is at least as far from the second query as from the first.
Further(c) ==
    \A i \in DOMAIN c.refs :
        apart(c.near, c.refs[i]) <= apart(c.far, c.refs[i])

(***************************************************************************)
(* A query further from every reference is never scored as drifting less:  *)
(* neither by the ZEDD percentile, with the references' own distances as   *)
(* history, nor by the alert tier of the calibrated multi-scale detector,  *)
(* whatever scales the references are too few for.                         *)
(***************************************************************************)
DriftFollowsDistance ==
    (driftCase.kind = "zedd" /\ Further(driftCase)) =>
        LET c == driftCase
            historical == [i \in DOMAIN c.refs |->
                              core_distance(c.refs[i], c.refs, c.k)]
        IN  /\ at_most(zedd_drift_score(c.near, c.refs, historical, c.k),
                       zedd_drift_score(c.far, c.refs, historical, c.k))
            /\ compute_drift_score(c.near, c.refs)
                 <= compute_drift_score(c.far, c.refs)

(***************************************************************************)
(* Once there are k references, one more never raises a core distance, so  *)
(* learning benign behaviour never makes a query look more anomalous.      *)
(***************************************************************************)
DenserNeverFurther ==
    (driftCase.kind = "zedd" /\ driftCase.refs # <<>>
        /\ Len(driftCase.refs) >= driftCase.k) =>
        LET c == driftCase
        IN  core_distance(c.near, Append(c.refs, c.extra), c.k)
              <= core_distance(c.near, c.refs, c.k)

(***************************************************************************)
(* A higher score is never decided more leniently, although the binary     *)
(* search may answer any of several equal scores and gives an absent score *)
(* its insertion point.                                                    *)
(***************************************************************************)
DecisionFollowsScore ==
    (driftCase.kind = "benign" /\ driftCase.low < driftCase.high) =>
        LET scores == reference_distribution(driftCase.scores)
        IN  \A p \in percentile(scores, driftCase.low),
               q \in percentile(scores, driftCase.high) : decide(p) <= decide(q)

(***************************************************************************)
(* The inverse lookup never reports a score below the percentile asked     *)
(* for.  It is not exact: every precomputed key saturates to the same u8,  *)
(* so from 25.5% on each lookup answers the 99.9th percentile.             *)
(***************************************************************************)
InverseNeverBelow ==
    (driftCase.kind = "benign" /\ driftCase.scores # <<>>) =>
        LET scores == reference_distribution(driftCase.scores)
        IN  \A p \in Ranks :
               score_at_percentile(scores, p) >= compute_percentile(scores, p)

(***************************************************************************)
(* The approximate nearest-neighbour index of the semantic drift detector  *)
(* (cognitive/src/semantic_monitoring.rs): HnswIndex::new links every      *)
(* reference to its max_connections nearest ones, HnswIndex::search walks  *)
(* that graph best first from reference 0, and k_core_distance reads the   *)
(* k-th distance off the answer.  Embeddings are points on a line; heap    *)
(* ties are broken arbitrarily.                                            *)
(***************************************************************************)

CONSTANTS
    Points,     \* coordinates of references and queries
    MaxPoints,  \* bound on the number of references
    Ks,         \* the numbers of neighbours asked for
    Efs,        \* the values of ef_search
    Links       \* the values of max_connections

VARIABLES
    index,      \* [refs, query, k, ef, m]: the index and one query of it
    visited,    \* the reference numbers marked visited
    candidates, \* the candidate heap
    todo,       \* neighbours of the popped candidate not looked at yet
    results     \* the result heap

hnswVars == <<index, visited, candidates, todo, results>>

Far(x, y) == IF x < y THEN y - x ELSE x - y

query_distance(j) == Far(index.query, index.refs[j])

(***************************************************************************)
(* The neighbours of reference i: a stable sort of the others by distance, *)
(* cut to max_connections.                                                 *)
(***************************************************************************)
neighbours(i) ==
    LET d(j) == Far(index.refs[i], index.refs[j])
        others == SetToSortSeq(DOMAIN index.refs \ {i},
                      LAMBDA a, b : d(a) < d(b) \/ (d(a) = d(b) /\ a < b))
    IN  SubSeq(others, 1, IF Len(others) < index.m THEN Len(others)
                                                   ELSE index.m)

entry_point == 1

SearchInit ==
    /\ index \in [refs : UNION {[1..n -> Points] : n \in 1..MaxPoints},
                  query : Points, k : Ks, ef : Efs, m : Links]
    /\ visited = {entry_point}
    /\ candidates = <<entry_point>>
    /\ todo = <<>>
    /\ results = <<>>

\* Positions of a heap that hold its nearest, or its furthest, reference.
nearest(heap) ==
    {i \in DOMAIN heap : \A j \in DOMAIN heap :
        query_distance(heap[i]) <= query_distance(heap[j])}

furthest(heap) ==
    {i \in DOMAIN heap : \A j \in DOMAIN heap :
        query_distance(heap[i]) >= query_distance(heap[j])}

\* results.peek() is beaten by a reference at distance d.
beats_worst(d) == \E w \in furthest(results) : d < query_distance(results[w])

(***************************************************************************)
(* Pop the nearest candidate, keep it among the k best results, and turn   *)
(* to its neighbours.                                                      *)
(***************************************************************************)
PopCandidate ==
    /\ todo = <<>>
    /\ \E i \in nearest(candidates) :
          LET current == candidates[i] IN
          /\ candidates' = RemoveAt(candidates, i)
          /\ todo' = neighbours(current)
          /\ \/ /\ Len(results) < index.k
                /\ results' = Append(results, current)
             \/ /\ Len(results) >= index.k
                /\ beats_worst(query_distance(current))
                /\ \E w \in furthest(results) :
                      results' = Append(RemoveAt(results, w), current)
             \/ /\ Len(results) >= index.k
                /\ ~beats_worst(query_distance(current))
                /\ UNCHANGED results
    /\ UNCHANGED <<index, visited>>

dominated_by_results(d) == Len(results) >= index.k /\ ~beats_worst(d)

mark_visited(j) == visited \union {j}

(***************************************************************************)
(* Look at one neighbour: skip it when visited, else mark it and, unless   *)
(* the results dominate it, make it a candidate; a full candidate heap     *)
(* first drops its nearest member.                                         *)
(***************************************************************************)
ExploreNeighbour ==
    /\ todo # <<>>
    /\ todo' = Tail(todo)
    /\ LET j == Head(todo) IN
          \/ /\ j \in visited
             /\ UNCHANGED <<visited, candidates>>
          \/ /\ j \notin visited
             /\ visited' = mark_visited(j)
             /\ \/ /\ dominated_by_results(query_distance(j))
                   /\ UNCHANGED candidates
                \/ /\ ~dominated_by_results(query_distance(j))
                   /\ Len(candidates) < index.ef
                   /\ candidates' = Append(candidates, j)
                \/ /\ ~dominated_by_results(query_distance(j))
                   /\ Len(candidates) >= index.ef
                   /\ \E i \in nearest(candidates) :
                         candidates' = Append(RemoveAt(candidates, i), j)
    /\ UNCHANGED <<index, results>>

SearchNext == PopCandidate \/ ExploreNeighbour

SearchSpec == SearchInit /\ [][SearchNext]_hnswVars

-----------------------------------------------------------------------------

finished == candidates = <<>> /\ todo = <<>>

ByDistance(nodes) ==
    SortSeq([i \in DOMAIN nodes |-> query_distance(nodes[i])], <)

found_distances == ByDistance(results)

true_distances == ByDistance([i \in 1..Len(index.refs) |-> i])

(***************************************************************************)
(* As long as every reference is linked to every other and the candidate   *)
(* heap never fills, the search is exact: it returns the k smallest        *)
(* distances, ties and duplicates included, although it prunes neighbours  *)
(* by the results found so far.                                            *)
(***************************************************************************)
ExactWhileLinked ==
    (finished /\ Len(index.refs) <= index.m + 1 /\ index.ef >= Len(index.refs))
        => found_distances
             = SubSeq(true_distances, 1,
                      IF Len(index.refs) < index.k THEN Len(index.refs)
                                                   ELSE index.k)

(***************************************************************************)
(* Whatever the graph misses, the i-th distance the search reports is      *)
(* never smaller than the true i-th distance, so a core distance errs      *)
(* towards "further away": no reference is counted twice.                  *)
(***************************************************************************)
NeverUnderestimates ==
    /\ Len(results) <= Len(index.refs)
    /\ \A i \in DOMAIN results : found_distances[i] >= true_distances[i]
=============================================================================
