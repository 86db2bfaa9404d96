------------------------------ MODULE Learning ------------------------------
(***************************************************************************)
(* The learning loop of the validator: reviewers judge blocked             *)
(* transactions, a loop turns the verdicts into recommendations to move a  *)
(* threshold, and reviewers approve, reject or revert them while agents    *)
(* are served from the threshold store.  Every request runs on its own     *)
(* task, so the steps below are the ones between which another task can    *)
(* run: a query, an update, one operation on a concurrent map.             *)
(*                                                                         *)
(* A threshold is a level: +10% is one level up, -10% one level down, and  *)
(* the clamp at 0.0001 is level 0.  `recs` is the table of recommendations *)
(* with a database and the map in memory without one; with a database the  *)
(* map is only a fallback of the listing and is left out.                  *)
(***************************************************************************)
EXTENDS Integers, FiniteSets, Sequences, FiniteSetsExt

CONSTANTS Tx, Key, ValidKey, KeyOf, Agent, Variant, Reviewer, Admin,
          NoVariant, NoRec, MinSample, DefaultLevel, MaxLevel, MaxRecs,
          MaxVerdicts, PatchLevel, MaxDisturbed

ASSUME LearningAssumption ==
  /\ ValidKey \subseteq Key /\ KeyOf \in [Tx -> Key] /\ Admin \subseteq Reviewer
  /\ MinSample \in Nat \ {0} /\ MaxLevel \in Nat /\ DefaultLevel \in 0..MaxLevel
  /\ MaxRecs \in Nat /\ MaxVerdicts \in Nat /\ MaxDisturbed \in Nat
  /\ NoVariant \notin Variant /\ PatchLevel \subseteq 0..MaxLevel /\ IsFiniteSet(Tx)

VARIABLES
  db,          \* is a database configured?
  review,      \* the review queue: the last verdict on each transaction
  outcomes,    \* the rows of decision_outcomes, oldest first
  persisting,  \* spawned inserts of outcomes that have not run yet
  bucket,      \* what the running loop counted and has not handled yet
  recs,        \* recommendations by id
  overrides,   \* ThresholdStore.overrides, -1 where there is none
  variants,    \* ThresholdStore.variants
  enrolled,    \* ThresholdStore.agent_variants
  task,        \* what each reviewer's request is doing
  disturbed    \* how many restarts and manual updates there were

reviewVars == <<review, outcomes, persisting>>
storeVars == <<overrides, variants, enrolled>>
learningVars == <<db, reviewVars, bucket, recs, storeVars, task, disturbed>>

Verdicts == {"TRUE_POSITIVE", "FALSE_POSITIVE"}
RecId == 1..MaxRecs
Level == 0..MaxLevel
Rec == [rkey : Key \X Nat \X Nat \X Nat, current : Level, proposed : Level,
        status : {"pending", "approved", "applied", "rejected", "reverted"},
        variant : Variant \cup {NoVariant}]
VariantRec == [key : Key, level : Level, agents : SUBSET Agent]
Steps == {"apply", "insert", "record", "reject", "remove", "check", "unenrol", "undone"}
Idle == [at |-> "idle"]

\* A recommendation, or a variant, is told from the value for none.
ASSUME NoneAssumption == NoRec \notin Rec /\ NoVariant \notin VariantRec

Exists(i) == recs[i] # NoRec
key_of(rec) == rec.rkey[1]

\* The shapes of the maps, and that a request in progress works on a copy
\* of a whole recommendation.
LearningTypeOK ==
  /\ db \in BOOLEAN
  /\ review \in [Tx -> Verdicts \cup {"pending"}]
  /\ outcomes \in Seq([tx : Tx, verdict : Verdicts])
  /\ \A i \in RecId : Exists(i) => recs[i] \in Rec
  /\ overrides \in [Key -> Level \cup {-1}]
  /\ \A v \in Variant : variants[v] # NoVariant => variants[v] \in VariantRec
  /\ enrolled \in [Agent -> Variant \cup {NoVariant}]
  /\ \A r \in Reviewer :
       task[r] # Idle => /\ task[r].at \in Steps /\ task[r].id \in RecId
                         /\ task[r].rec \in Rec /\ task[r].agents \subseteq Agent

LearningInit ==
  /\ db \in BOOLEAN
  /\ review = [t \in Tx |-> "pending"]
  /\ outcomes = <<>> /\ persisting = {} /\ bucket = {}
  /\ recs = [i \in RecId |-> NoRec]
  /\ overrides = [k \in Key |-> -1]
  /\ variants = [v \in Variant |-> NoVariant]
  /\ enrolled = [a \in Agent |-> NoVariant]
  /\ task = [r \in Reviewer |-> Idle]
  /\ disturbed = 0

---------------------------------------------------------------------------
(* Reviews. *)

may_decide(r) == r \in Admin

\* The verdict replaces the one in the queue at once; with a database a
\* task that inserts a row is spawned, one per submission.
submit_review_outcome(t, v) ==
  /\ review' = [review EXCEPT ![t] = v]
  /\ persisting' = IF db THEN persisting \cup {[tx |-> t, verdict |-> v]} ELSE persisting

submit_outcome(r, t, v) ==
  /\ may_decide(r)
  /\ Len(outcomes) + Cardinality(persisting) < MaxVerdicts
  /\ submit_review_outcome(t, v)
  /\ UNCHANGED <<db, outcomes, bucket, recs, storeVars, task, disturbed>>

\* The insert runs, or fails with a warning and the row is missing.
insert_decision_outcome(o) ==
  /\ o \in persisting
  /\ persisting' = persisting \ {o}
  /\ outcomes' \in {Append(outcomes, o), outcomes}
  /\ UNCHANGED <<db, review, bucket, recs, storeVars, task, disturbed>>

---------------------------------------------------------------------------
(* The loop: started by a timer and by administrators, so runs overlap. *)

\* The verdicts the loop works on: the rows, or the judged entries.
list_learning_outcomes ==
  IF db THEN {<<outcomes[i], i>> : i \in DOMAIN outcomes}
  ELSE {<<[tx |-> t, verdict |-> review[t]], 0>> : t \in {u \in Tx : review[u] # "pending"}}

count(k, verdicts) ==
  Cardinality({o \in list_learning_outcomes : KeyOf[o[1].tx] = k /\ o[1].verdict \in verdicts})

\* <<key, sample, fp, tp>>, which is also the key of the recommendation.
counted(k) == <<k, count(k, Verdicts), count(k, {"FALSE_POSITIVE"}), count(k, {"TRUE_POSITIVE"})>>

LearningTick ==
  /\ bucket' = bucket \cup {counted(k) : k \in {KeyOf[o[1].tx] : o \in list_learning_outcomes}}
  /\ UNCHANGED <<db, reviewVars, recs, storeVars, task, disturbed>>

run_recommendations(r) == may_decide(r) /\ LearningTick

current_threshold(k) == IF overrides[k] = -1 THEN DefaultLevel ELSE overrides[k]

\* Mostly false alarms raise the threshold, mostly hits lower it.
proposed_threshold(b) ==
  LET now == current_threshold(b[1])
  IN IF b[2] < MinSample THEN now
     ELSE IF 2 * b[3] >= b[2] THEN Min({now + 1, MaxLevel})
     ELSE IF 10 * b[4] >= 8 * b[2] THEN Max({now - 1, 0})
     ELSE now

MutReopen(old, new) == new

\* ON CONFLICT (recommendation_key) the row keeps its status and variant.
after_conflict(old, new) ==
  [old EXCEPT !.current = new.current, !.proposed = new.proposed]

upsert_adjustment_recommendation(b) ==
  LET same == {i \in RecId : Exists(i) /\ recs[i].rkey = b}
      free == {i \in RecId : ~Exists(i)}
      new == [rkey |-> b, current |-> current_threshold(b[1]),
              proposed |-> proposed_threshold(b), status |-> "pending", variant |-> NoVariant]
  IN IF db /\ same # {}
     THEN recs' = [i \in RecId |-> IF i \in same THEN after_conflict(recs[i], new) ELSE recs[i]]
     ELSE free # {} /\ recs' = [recs EXCEPT ![Min(free)] = new]

\* With a database the upsert may fail; a warning is all that comes of it.
run_learning_loop_once(b) ==
  /\ b \in bucket
  /\ bucket' = bucket \ {b}
  /\ IF proposed_threshold(b) = current_threshold(b[1])
     THEN UNCHANGED recs
     ELSE upsert_adjustment_recommendation(b) \/ (db /\ UNCHANGED recs)
  /\ UNCHANGED <<db, reviewVars, storeVars, task, disturbed>>

---------------------------------------------------------------------------
(* Decisions on recommendations. *)

\* A request starts by copying the recommendation.
get_adjustment_recommendation(r, i, at, agents) ==
  /\ may_decide(r)
  /\ task[r] = Idle
  /\ Exists(i)
  /\ task' = [task EXCEPT ![r] = [at |-> at, id |-> i, rec |-> recs[i], agents |-> agents]]
  /\ UNCHANGED <<db, reviewVars, bucket, recs, storeVars, disturbed>>

goes(r, at) == task' = [task EXCEPT ![r].at = at]

\* Only a pending recommendation of a known domain can be approved.  It is
\* applied to everyone (no agents named) or to some agents as a variant.
approve_recommendation(r, i, agents) ==
  /\ get_adjustment_recommendation(r, i, "apply", agents)
  /\ recs[i].status = "pending"
  /\ key_of(recs[i]) \in ValidKey

ApproveGlobally(r) ==
  /\ task[r].at = "apply" /\ task[r].agents = {}
  /\ overrides' = [overrides EXCEPT ![key_of(task[r].rec)] = task[r].rec.proposed]
  /\ goes(r, "record")
  /\ UNCHANGED <<db, reviewVars, bucket, recs, variants, enrolled, disturbed>>

\* The ids of variants are random and never used twice.
Fresh(v) == /\ variants[v] = NoVariant
            /\ \A a \in Agent : enrolled[a] # v
            /\ \A i \in RecId : Exists(i) => recs[i].variant # v
            /\ \A r \in Reviewer : task[r] # Idle => task[r].rec.variant # v

\* add_variant enrols the agents first ...
Enrol(r, v) ==
  /\ task[r].at = "apply" /\ task[r].agents # {} /\ Fresh(v)
  /\ enrolled' = [a \in Agent |-> IF a \in task[r].agents THEN v ELSE enrolled[a]]
  /\ task' = [task EXCEPT ![r].at = "insert", ![r].rec.variant = v]
  /\ UNCHANGED <<db, reviewVars, bucket, recs, overrides, variants, disturbed>>

variant_of(rec, agents) == [key |-> key_of(rec), level |-> rec.proposed, agents |-> agents]

\* ... and inserts the variant second.
InsertVariant(r) ==
  /\ task[r].at = "insert"
  /\ variants' = [variants EXCEPT ![task[r].rec.variant] = variant_of(task[r].rec, task[r].agents)]
  /\ goes(r, "record")
  /\ UNCHANGED <<db, reviewVars, bucket, recs, overrides, enrolled, disturbed>>

\* The row takes the status and, unless it is missing, the variant
\* (COALESCE); the map takes the whole copy.
stored(old, new) ==
  IF db THEN [old EXCEPT !.status = new.status,
                         !.variant = IF new.variant = NoVariant THEN @ ELSE new.variant]
        ELSE new

decide_adjustment_recommendation(r, status) ==
  /\ LET new == [task[r].rec EXCEPT !.status = status] IN
     recs' = [recs EXCEPT ![task[r].id] = stored(@, new)]
  /\ task' = [task EXCEPT ![r] = Idle]
  /\ UNCHANGED <<db, reviewVars, bucket, storeVars, disturbed>>

RecordApproval(r) ==
  /\ task[r].at = "record"
  /\ decide_adjustment_recommendation(r,
       IF task[r].rec.variant # NoVariant THEN "applied" ELSE "approved")

\* A rejection looks at no status.
reject_recommendation(r, i) == get_adjustment_recommendation(r, i, "reject", {})

RecordRejection(r) ==
  /\ task[r].at = "reject"
  /\ decide_adjustment_recommendation(r, "rejected")

\* Only an applied recommendation can be reverted, and it has a variant.
revert_recommendation(r, i) ==
  /\ get_adjustment_recommendation(r, i, "remove", {})
  /\ recs[i].status = "applied"

\* remove_variant takes the variant out; if another request already did,
\* the rest is skipped.
RemoveVariant(r) ==
  /\ task[r].at = "remove"
  /\ LET v == task[r].rec.variant IN
     /\ variants' = [variants EXCEPT ![v] = NoVariant]
     /\ task' = [task EXCEPT
          ![r].at = IF variants[v] = NoVariant THEN "undone" ELSE "check",
          ![r].agents = IF variants[v] = NoVariant THEN {} ELSE variants[v].agents]
  /\ UNCHANGED <<db, reviewVars, bucket, recs, overrides, enrolled, disturbed>>

\* For each agent of the variant: read the enrolment, then remove it.
still_enrolled(r) == {a \in task[r].agents : enrolled[a] = task[r].rec.variant}

CheckEnrolled(r) ==
  /\ task[r].at = "check"
  /\ task' = [task EXCEPT ![r].at = "unenrol", ![r].agents = still_enrolled(r)]
  /\ UNCHANGED <<db, reviewVars, bucket, recs, storeVars, disturbed>>

Unenrol(r) ==
  /\ task[r].at = "unenrol"
  /\ enrolled' = [a \in Agent |-> IF a \in task[r].agents THEN NoVariant ELSE enrolled[a]]
  /\ goes(r, "undone")
  /\ UNCHANGED <<db, reviewVars, bucket, recs, overrides, variants, disturbed>>

mark_recommendation_reverted(r) ==
  /\ task[r].at = "undone"
  /\ decide_adjustment_recommendation(r, "reverted")

\* The update fails: the request ends with an error and what it did to the
\* threshold store stays.
DecisionLost(r) ==
  /\ db /\ task[r].at \in {"record", "reject", "undone"}
  /\ task' = [task EXCEPT ![r] = Idle]
  /\ UNCHANGED <<db, reviewVars, bucket, recs, storeVars, disturbed>>

---------------------------------------------------------------------------
(* The rest. *)

patch_threshold(r, k, l) ==
  /\ may_decide(r)
  /\ disturbed < MaxDisturbed
  /\ disturbed' = disturbed + 1
  /\ overrides' = [overrides EXCEPT ![k] = l]
  /\ UNCHANGED <<db, reviewVars, bucket, recs, variants, enrolled, task>>

\* A restart keeps the tables and nothing else.
LearningRestart ==
  /\ disturbed < MaxDisturbed
  /\ disturbed' = disturbed + 1
  /\ review' = [t \in Tx |-> "pending"] /\ persisting' = {} /\ bucket' = {}
  /\ recs' = IF db THEN recs ELSE [i \in RecId |-> NoRec]
  /\ overrides' = [k \in Key |-> -1]
  /\ variants' = [v \in Variant |-> NoVariant]
  /\ enrolled' = [a \in Agent |-> NoVariant]
  /\ task' = [r \in Reviewer |-> Idle]
  /\ UNCHANGED <<db, outcomes>>

LearningNext ==
  \/ \E o \in persisting : insert_decision_outcome(o)
  \/ LearningTick
  \/ \E b \in bucket : run_learning_loop_once(b)
  \/ \E r \in Reviewer :
       \/ \E t \in Tx, v \in Verdicts : submit_outcome(r, t, v)
       \/ run_recommendations(r)
       \/ \E k \in Key, l \in PatchLevel : patch_threshold(r, k, l)
       \/ \E i \in RecId, agents \in SUBSET Agent : approve_recommendation(r, i, agents)
       \/ \E i \in RecId : reject_recommendation(r, i) \/ revert_recommendation(r, i)
       \/ task[r] # Idle /\ \/ ApproveGlobally(r)
                            \/ \E v \in Variant : Enrol(r, v)
                            \/ InsertVariant(r) \/ RecordApproval(r)
                            \/ RecordRejection(r)
                            \/ RemoveVariant(r) \/ CheckEnrolled(r) \/ Unenrol(r)
                            \/ mark_recommendation_reverted(r) \/ DecisionLost(r)
  \/ LearningRestart

LearningSpec == LearningInit /\ [][LearningNext]_learningVars

---------------------------------------------------------------------------
(* Properties. *)

\* A recommendation that a reviewer decided never turns pending again, also
\* when the loop meets the same verdicts and recommends the same change
\* again: the upsert of run_learning_loop_once keeps the status.
DecidedStaysDecided ==
  [\A i \in RecId :
       Exists(i) /\ recs[i].status # "pending" /\ recs'[i] # NoRec => recs'[i].status # "pending"]_learningVars

\* Without a database, a recommendation that is recorded as applied has its
\* variant in force, unless a revert is taking it out right now: no order of
\* concurrent approvals, rejections and reverts records a variant that is gone.
AppliedInForce ==
  ~db => \A i \in RecId :
    Exists(i) /\ recs[i].status = "applied" =>
      \/ variants[recs[i].variant] # NoVariant
      \/ \E r \in Reviewer : /\ task[r] # Idle /\ task[r].rec.variant = recs[i].variant
                             /\ task[r].at \in {"check", "unenrol", "undone"}

\* effective_thresholds overlays a variant only for agents that enrolled in
\* it: whatever approvals and reverts overlap, an agent enrolled in a variant
\* that exists is one of the agents the variant was approved for.
OverlayOnlyListed ==
  \A a \in Agent : LET v == enrolled[a] IN
    v # NoVariant /\ variants[v] # NoVariant => a \in variants[v].agents
=============================================================================
