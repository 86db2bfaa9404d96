---------------------------- MODULE AgentVersions ----------------------------
(***************************************************************************)
(* Versions of a self-improving agent: snapshots, submitted improvements,  *)
(* the decision on them, the version in force and the lineage.  Requests   *)
(* run concurrently, and submit_improvement holds no lock between reading  *)
(* the baseline, storing the proposal and recording the lineage.           *)
(*                                                                         *)
(* One agent.  A version is its number, its goal, the similarity class of  *)
(* the goal's embedding, the generation of its anomaly model and its       *)
(* thresholds (a missing key is NoValue).                                  *)
(***************************************************************************)
EXTENDS Integers, Sequences, FiniteSets, FiniteSetsExt, Functions, TLC

CONSTANTS
  Submitter, Embedding, Similarity, NoValue,
  Cases,       \* adversarial cases per category
  Snapshot,    \* the states of the agent a snapshot may find
  Proposal,    \* the versions submitted, without their number
  SessionGoal, \* goals of sessions, NoValue when the request names none
  LineageCap, MaxSubmissions, MaxNumber

Limit == {"anomaly_threshold", "rate_limit", "goal_drift_threshold", "amount_threshold"}

ASSUME VersionsAssumption ==
  /\ Similarity \in [Embedding \X Embedding -> (0..100) \cup {NoValue}]
  /\ \A b \in Snapshot \cup Proposal :
       /\ b.emb \in Embedding /\ b.limits \in [Limit -> Nat \cup {NoValue}]
       /\ b = [goal |-> b.goal, emb |-> b.emb, gen |-> b.gen, limits |-> b.limits]
  /\ NoValue \notin Int /\ Cases \in Nat \ {0} /\ LineageCap \in Nat \ {0} /\ MaxSubmissions \in Nat /\ MaxNumber \in Nat \ {0}

VARIABLES
  inForce,    \* VersionStore.inner: the stored version
  counter,    \* VersionStore.counters, 0 when vacant
  handedOut,  \* the numbers next_version gave
  lineage,    \* VersionStore.lineage
  request,    \* what each submitter's request is doing
  submitted   \* how many requests there were

versionVars == <<inForce, counter, handedOut, lineage, request, submitted>>

NoVersion == [number |-> 0]
numbered(n, body) == [number |-> n, goal |-> body.goal, emb |-> body.emb, gen |-> body.gen, limits |-> body.limits]
Waiting == [at |-> "idle"]

VersionsInit ==
  /\ inForce = NoVersion /\ counter = 0 /\ handedOut = <<>> /\ lineage = <<>>
  /\ request = [s \in Submitter |-> Waiting]
  /\ submitted = 0

---------------------------------------------------------------------------
(* The decision: a pure function of the baseline and the proposal. *)

\* More than 20% of the old value; a threshold that was missing counts as
\* zero, and any step away from zero is a hundredfold one.
large_delta(old, new) ==
  IF old = 0 THEN new # 0
  ELSE 100 * (IF new > old THEN new - old ELSE old - new) > 20 * old

or_zero(x) == IF x = NoValue THEN 0 ELSE x

threshold_deltas(old, new) ==
  {<<or_zero(old.limits[k]), new.limits[k]>> :
     k \in {l \in Limit : new.limits[l] # NoValue /\ new.limits[l] # or_zero(old.limits[l])}}

compute_diff(old, new) ==
  [goal_changed |-> old.goal # new.goal,
   shift |-> Similarity[<<old.emb, new.emb>>],
   replaced |-> old.gen # new.gen,
   deltas |-> threshold_deltas(old, new)]

is_trivial_noop(d) ==
  ~d.goal_changed /\ d.shift \in {NoValue, 100} /\ ~d.replaced /\ d.deltas = {}

changes_core_behavior(d) == d.goal_changed \/ (d.shift # NoValue /\ d.shift < 70)

has_large_threshold_delta(d) == \E x \in d.deltas : large_delta(x[1], x[2])

\* The adversarial suite.  Each limit has a default and the range its scores
\* are drawn from; the generator shifts 64 bits by 33 and divides by 2^32, so
\* the scores spread evenly over the lower half of the range.
Gate ==
  "anomaly_threshold" :> [default |-> 700, low |-> 500, high |-> 1000] @@
  "rate_limit" :> [default |-> 60, low |-> 60, high |-> 150] @@
  "goal_drift_threshold" :> [default |-> 300, low |-> 200, high |-> 800] @@
  "amount_threshold" :> [default |-> 500, low |-> 400, high |-> 2000]

or_default(x, k) == IF x = NoValue THEN Gate[k].default ELSE x

\* Score i of limit k exceeds x (in multiples of 2 * Cases).
case_score(i, k) == 2 * Cases * Gate[k].low + i * (Gate[k].high - Gate[k].low)
flags(i, k, version) == case_score(i, k) > 2 * Cases * or_default(version.limits[k], k)

\* What the old limits catch, the new ones must catch.
test_limit(i, k, old, new) == flags(i, k, old) => flags(i, k, new)

run_case(i, category, old, new) ==
  IF category = "compound"
  THEN test_limit(i, "anomaly_threshold", old, new) /\ test_limit(i, "rate_limit", old, new)
  ELSE test_limit(i, category, old, new)

gate_passed(old, new) ==
  LET Suite == (0..(Cases - 1)) \X (Limit \cup {"compound"})
      passed == {c \in Suite : run_case(c[1], c[2], old, new)}
  IN 100 * Cardinality(passed) >= 95 * Cardinality(Suite)

\* Two embeddings of which one is zero have no similarity: shift 100.
sandbox_check(old, new, d) ==
  LET moved == IF d.shift # NoValue THEN 100 - d.shift
               ELSE IF "none" \in {old.emb, new.emb} THEN 0 ELSE 100
  IN moved + (IF d.replaced THEN 15 ELSE 0) <= 50

validate_improvement_full(old, new) ==
  LET d == compute_diff(old, new) IN
  IF is_trivial_noop(d) THEN "Approve"
  ELSE IF changes_core_behavior(d) \/ has_large_threshold_delta(d) THEN "RequireHumanApproval"
  ELSE IF ~gate_passed(old, new) \/ ~sandbox_check(old, new, d) THEN "Reject"
  ELSE "GradualRollout"

promoted(decision) == decision \in {"Approve", "GradualRollout"}

---------------------------------------------------------------------------
(* The store. *)

next_version == counter + 1

\* store() inserts first and raises the counter to the version's number
\* second; it never lowers it.
raised(c, n) == Max({c, n})

snapshot_agent_version(s) ==
  /\ request[s] = Waiting /\ submitted < MaxSubmissions
  /\ counter' = next_version /\ handedOut' = Append(handedOut, next_version)
  /\ submitted' = submitted + 1
  /\ UNCHANGED <<inForce, lineage, request>>

\* Without a stored version the current state becomes the baseline.
submit_improvement(s, proposed, now) ==
  /\ request[s] = Waiting /\ submitted < MaxSubmissions
  /\ submitted' = submitted + 1
  /\ IF inForce # NoVersion
     THEN /\ request' = [request EXCEPT ![s] = [at |-> "decide", old |-> inForce, new |-> proposed]]
          /\ UNCHANGED <<inForce, counter, handedOut>>
     ELSE /\ counter' = next_version /\ handedOut' = Append(handedOut, next_version)
          /\ request' = [request EXCEPT ![s] =
               [at |-> "baseline", old |-> numbered(next_version, now), new |-> proposed]]
          /\ UNCHANGED inForce
  /\ UNCHANGED lineage

StoreBaseline(s) ==
  /\ request[s].at = "baseline"
  /\ inForce' = request[s].old
  /\ counter' = raised(counter, request[s].old.number)
  /\ request' = [request EXCEPT ![s].at = "decide"]
  /\ UNCHANGED <<handedOut, lineage, submitted>>

\* The goal of the session, when one is named, replaces the baseline's.
\* A session without a goal leaves none.
with_session_goal(old, g) == IF g = NoValue THEN old ELSE [old EXCEPT !.goal = g.goal, !.emb = g.emb]

Decide(s, g) ==
  /\ request[s].at = "decide"
  /\ LET old == with_session_goal(request[s].old, g)
         decision == validate_improvement_full(old, request[s].new)
     IN request' = [request EXCEPT ![s] =
          [at |-> IF promoted(decision) THEN "store" ELSE "record",
           old |-> old, new |-> @.new, decision |-> decision]]
  /\ UNCHANGED <<inForce, counter, handedOut, lineage, submitted>>

InsertPromoted(s) ==
  /\ request[s].at = "store"
  /\ inForce' = request[s].new
  /\ request' = [request EXCEPT ![s].at = "raise"]
  /\ UNCHANGED <<counter, handedOut, lineage, submitted>>

RaiseCounter(s) ==
  /\ request[s].at = "raise"
  /\ counter' = raised(counter, request[s].new.number)
  /\ request' = [request EXCEPT ![s].at = "record"]
  /\ UNCHANGED <<inForce, handedOut, lineage, submitted>>

with_entry(q, e) == Append(IF Len(q) >= LineageCap THEN Tail(q) ELSE q, e)

record_lineage(s) ==
  /\ request[s].at = "record"
  /\ lineage' = with_entry(lineage, [old |-> request[s].old, new |-> request[s].new, decision |-> request[s].decision])
  /\ request' = [request EXCEPT ![s] = Waiting]
  /\ UNCHANGED <<inForce, counter, handedOut, submitted>>

VersionsNext ==
  \E s \in Submitter :
    \/ snapshot_agent_version(s)
    \/ \E n \in 1..MaxNumber, body \in Proposal, now \in Snapshot :
         submit_improvement(s, numbered(n, body), now)
    \/ /\ request[s] # Waiting
       /\ \/ StoreBaseline(s)
          \/ \E g \in SessionGoal : Decide(s, g)
          \/ InsertPromoted(s) \/ RaiseCounter(s) \/ record_lineage(s)

VersionsSpec == VersionsInit /\ [][VersionsNext]_versionVars

---------------------------------------------------------------------------
(* Properties. *)

\* Whatever submissions and snapshots overlap, next_version never gives a
\* number twice: a promoted version with a small number of its own does not
\* set the counter back.
SnapshotNumbersDistinct == IsInjective(handedOut)

\* Whatever submissions overlap, nothing is promoted without a person that
\* changes the goal it was compared with or moves a threshold it names by more
\* than a fifth of the baseline's, and an approval without a canary phase keeps
\* the anomaly model.  (A threshold the proposal leaves out is not compared.)
PromotedIsClose ==
  \A e \in Range(lineage) : promoted(e.decision) =>
    /\ e.new.goal = e.old.goal
    /\ \A k \in Limit : e.new.limits[k] # NoValue =>
         5 * or_zero(e.new.limits[k]) \in (4 * or_zero(e.old.limits[k]))..(6 * or_zero(e.old.limits[k]))
    /\ e.decision = "Approve" => e.new.gen = e.old.gen
=============================================================================
