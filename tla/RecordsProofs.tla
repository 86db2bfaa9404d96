--------------------------- MODULE RecordsProofs ----------------------------
(***************************************************************************)
(* Proofs about the records the server keeps: recommendations of the       *)
(* learning loop, policy versions of the tenants and the tables of an      *)
(* SQLite file, for any sets of reviewers, callers and rows.               *)
(***************************************************************************)
EXTENDS Learning, TenantDb, SqliteStore, AgentVersions,
        FiniteSetTheorems, SequenceTheorems, WellFoundedInduction, TLAPS

-----------------------------------------------------------------------------
(* The learning loop. *)

(* A set of naturals that is not empty has a least element. *)
LEMMA LeastNat ==
    ASSUME NEW S, S \subseteq Nat, S # {}
    PROVE  \E x \in S : \A y \in S : x <= y
<1> DEFINE R == OpToRel(<, Nat)
<1>1. IsWellFoundedOn(R, Nat)
  BY Zenon, NatLessThanWellFounded
<1> HIDE DEF R
<1>2. PICK x \in S : \A y \in S : ~ (<<y, x>> \in R)
  BY Zenon, <1>1, WFMin
<1>3. ASSUME NEW y \in S PROVE x <= y
  <2>1. R = {ss \in Nat \X Nat : ss[1] < ss[2]}
    BY Zenon DEF R, OpToRel
  <2>2. <<y, x>> \notin R /\ x \in Nat /\ y \in Nat
    BY Zenon, <1>2
  <2>3. QED
    BY <2>1, <2>2
<1>4. QED
  BY Zenon, <1>3

(* The least of two integers. *)
LEMMA LeastOfTwo ==
    ASSUME NEW a \in Int, NEW b \in Int
    PROVE  Min({a, b}) \in {a, b} /\ Min({a, b}) <= a /\ Min({a, b}) <= b
<1>1. \E x \in {a, b} : \A y \in {a, b} : x =< y
  OBVIOUS
<1>2. Min({a, b}) \in {a, b} /\ \A y \in {a, b} : Min({a, b}) =< y
  BY <1>1, Zenon DEF Min
<1>3. QED
  BY <1>2, Zenon

(* The greatest of two integers. *)
LEMMA GreatestOfTwo ==
    ASSUME NEW a \in Int, NEW b \in Int
    PROVE  Max({a, b}) \in {a, b} /\ Max({a, b}) >= a /\ Max({a, b}) >= b
<1>1. \E x \in {a, b} : \A y \in {a, b} : x >= y
  OBVIOUS
<1>2. Max({a, b}) \in {a, b} /\ \A y \in {a, b} : Max({a, b}) >= y
  BY <1>1, Zenon DEF Max
<1>3. QED
  BY <1>2, Zenon

(* The least element belongs to the set. *)
LEMMA LeastIsMember ==
    ASSUME NEW S, S \subseteq Nat, S # {}
    PROVE  Min(S) \in S
<1>1. \E x \in S : \A y \in S : x =< y
  BY Zenon, LeastNat
<1>2. QED
  BY <1>1, Zenon DEF Min

\* A recommendation that is recorded as applied names its variant.
GoodRec == {x \in Rec : x.status = "applied" => x.variant \in Variant}

\* A request in progress works on a copy of a whole recommendation; one that
\* inserts or removes a variant has one.
GoodTask ==
  {x \in [at : Steps, id : RecId, rec : GoodRec, agents : SUBSET Agent] :
     x.at \in {"insert", "remove", "check", "unenrol"} => x.rec.variant \in Variant}

GoodOutcome == [tx : Tx, verdict : Verdicts]
Counts == Key \X Nat \X Nat \X Nat

LearnInv ==
  /\ db \in BOOLEAN
  /\ review \in [Tx -> Verdicts \cup {"pending"}]
  /\ outcomes \in Seq(GoodOutcome) /\ persisting \subseteq GoodOutcome
  /\ bucket \subseteq Counts
  /\ recs \in [RecId -> GoodRec \cup {NoRec}]
  /\ overrides \in [Key -> Level \cup {-1}]
  /\ variants \in [Variant -> VariantRec \cup {NoVariant}]
  /\ enrolled \in [Agent -> Variant \cup {NoVariant}]
  /\ task \in [Reviewer -> {Idle} \cup GoodTask]
  /\ \A r \in Reviewer : task[r] # Idle => Exists(task[r].id)

(* The invariant holds the types. *)
LEMMA LearnTyped == ASSUME LearnInv PROVE LearningTypeOK
<1>1. \A i \in RecId : Exists(i) => recs[i] \in Rec
  BY Zenon DEF LearnInv, Exists, GoodRec
<1>2. \A r \in Reviewer : task[r] # Idle => /\ task[r].at \in Steps /\ task[r].id \in RecId
                         /\ task[r].rec \in Rec /\ task[r].agents \subseteq Agent
  BY Zenon DEF LearnInv, GoodTask, GoodRec
<1>3. \A v \in Variant : variants[v] # NoVariant => variants[v] \in VariantRec
  BY Zenon DEF LearnInv
<1>4. QED
  BY Zenon, <1>1, <1>2, <1>3 DEF LearnInv, LearningTypeOK, GoodOutcome

(* At the start there is no recommendation. *)
LEMMA InitialLearning == ASSUME LearningInit PROVE LearnInv
  BY DEF LearningInit, LearnInv, Exists

---------------------------------------------------------------------------
\* The loop counts naturals and proposes levels.
LEMMA FiniteImage ==
    ASSUME NEW S, IsFiniteSet(S), NEW f, f = [x \in S |-> f[x]]
    PROVE  IsFiniteSet({f[x] : x \in S})
<1>1. f \in Surjection(S, {f[x] : x \in S})
  BY Zenon DEF Surjection
<1>2. QED
  BY Zenon, <1>1, FS_Surjection

(* The outcomes that are listed are finitely many and of known              *)
(* transactions.                                                            *)
LEMMA OutcomesListed ==
    ASSUME LearnInv
    PROVE  /\ IsFiniteSet(list_learning_outcomes)
           /\ \A o \in list_learning_outcomes : o[1].tx \in Tx
<1>1. CASE db
  <2>1. outcomes \in Seq(GoodOutcome) /\ DOMAIN outcomes = 1..Len(outcomes) /\ Len(outcomes) \in Nat
    BY DEF LearnInv
  <2>2. list_learning_outcomes = {<<outcomes[i], i>> : i \in 1..Len(outcomes)}
    BY Zenon, <1>1, <2>1 DEF list_learning_outcomes
  <2>3. IsFiniteSet(1..Len(outcomes))
    BY <2>1, FS_Interval
  <2>4. IsFiniteSet(list_learning_outcomes)
    <3> DEFINE f == [i \in 1..Len(outcomes) |-> <<outcomes[i], i>>]
    <3>1. f = [i \in 1..Len(outcomes) |-> f[i]] /\ {f[i] : i \in 1..Len(outcomes)} = list_learning_outcomes
      BY Zenon, <2>2
    <3> HIDE DEF f
    <3>2. IsFiniteSet({f[i] : i \in 1..Len(outcomes)})
      BY Zenon, <2>3, <3>1, FiniteImage
    <3>3. QED
      BY Zenon, <3>1, <3>2
  <2>5. \A i \in 1..Len(outcomes) : outcomes[i] \in GoodOutcome
    BY Zenon, <2>1, ElementOfSeq
  <2>6. QED
    BY <2>2, <2>4, <2>5 DEF GoodOutcome
<1>2. CASE ~db
  <2> DEFINE judged == {u \in Tx : review[u] # "pending"}
  <2>1. IsFiniteSet(judged)
    BY Zenon, LearningAssumption, FS_Subset
  <2>2. list_learning_outcomes = {<<[tx |-> t, verdict |-> review[t]], 0>> : t \in judged}
    BY Zenon, <1>2 DEF list_learning_outcomes
  <2>3. QED
    <3> DEFINE f == [t \in judged |-> <<[tx |-> t, verdict |-> review[t]], 0>>]
    <3>1. f = [t \in judged |-> f[t]] /\ {f[t] : t \in judged} = list_learning_outcomes
      BY Zenon, <2>2
    <3>2. \A o \in list_learning_outcomes : o[1].tx \in Tx
      BY <2>2
    <3> HIDE DEF f, judged
    <3>3. IsFiniteSet({f[t] : t \in judged})
      BY Zenon, <2>1, <3>1, FiniteImage
    <3>4. QED
      BY Zenon, <3>1, <3>2, <3>3
<1>3. QED
  BY Zenon, <1>1, <1>2

(* The verdicts on a key are counted in naturals. *)
LEMMA CountedTyped ==
    ASSUME LearnInv, NEW k \in Key
    PROVE  counted(k) \in Counts
<1>1. ASSUME NEW vs PROVE count(k, vs) \in Nat
  <2> DEFINE S == {o \in list_learning_outcomes : KeyOf[o[1].tx] = k /\ o[1].verdict \in vs}
  <2>1. IsFiniteSet(S)
    BY Zenon, OutcomesListed, FS_Subset
  <2>2. Cardinality(S) \in Nat
    BY Zenon, <2>1, FS_CardinalityType
  <2>3. QED
    BY Zenon, <2>2 DEF count
<1>2. QED
  BY Zenon, <1>1 DEF counted, Counts

(* The level in force and the proposed one are levels. *)
LEMMA LevelsProposed ==
    ASSUME LearnInv, NEW b \in Counts
    PROVE  current_threshold(b[1]) \in Level /\ proposed_threshold(b) \in Level
<1> DEFINE now == current_threshold(b[1])
           up == Min({now + 1, MaxLevel})
           down == Max({now - 1, 0})
<1>1. b[1] \in Key /\ b[2] \in Nat /\ b[3] \in Nat /\ b[4] \in Nat
  BY Zenon DEF Counts
<1>2. now \in Level
  BY Zenon, <1>1, LearningAssumption DEF current_threshold, LearnInv, Level
<1>3. MaxLevel \in Nat /\ MaxLevel \in Int
  BY LearningAssumption
<1>4. proposed_threshold(b) \in {now, up, down}
  BY Zenon DEF proposed_threshold
<1> HIDE DEF now
<1>5. now \in Int /\ now + 1 \in Int /\ now - 1 \in Int /\ 0 <= now /\ now <= MaxLevel
  BY <1>2, <1>3 DEF Level
<1>6. up \in {now + 1, MaxLevel} /\ up <= MaxLevel
  BY <1>3, <1>5, LeastOfTwo, Zenon
<1>7. down \in {now - 1, 0} /\ down >= 0
  BY <1>5, 0 \in Int, GreatestOfTwo, Zenon
<1> HIDE DEF up, down
<1>8. up \in Level /\ down \in Level
  BY <1>3, <1>5, <1>6, <1>7 DEF Level
<1>9. QED
  BY Zenon, <1>2, <1>4, <1>8 DEF now

(* A recommendation that meets an existing one keeps its status and         *)
(* overlay.                                                                 *)
LEMMA ConflictKeeps ==
    ASSUME NEW old \in GoodRec, NEW new \in Rec
    PROVE  after_conflict(old, new) \in GoodRec /\ after_conflict(old, new).status = old.status
<1> DEFINE t == [old EXCEPT !.current = new.current]
           u == [t EXCEPT !.proposed = new.proposed]
<1>1. t \in Rec /\ t.status = old.status /\ t.variant = old.variant
  BY Zenon DEF GoodRec, Rec
<1> HIDE DEF t
<1>2. u \in Rec /\ u.status = t.status /\ u.variant = t.variant
  BY Zenon, <1>1 DEF Rec
<1>3. after_conflict(old, new) = u
  BY Zenon DEF after_conflict, t
<1> HIDE DEF u
<1>4. QED
  BY Zenon, <1>1, <1>2, <1>3 DEF GoodRec

\* A step keeps the recommendations whole, forgets none that exists and
\* reopens none that was decided.
RecsKept ==
  /\ recs' \in [RecId -> GoodRec \cup {NoRec}]
  /\ \A i \in RecId : Exists(i) =>
       recs'[i] # NoRec /\ (recs[i].status # "pending" => recs'[i].status # "pending")

(* A new recommendation is pending, without overlay. *)
LEMMA NewRec ==
    ASSUME LearnInv, NEW b \in Counts
    PROVE  [rkey |-> b, current |-> current_threshold(b[1]), proposed |-> proposed_threshold(b),
            status |-> "pending", variant |-> NoVariant] \in GoodRec
<1> DEFINE low == current_threshold(b[1])
           high == proposed_threshold(b)
<1>1. low \in Level /\ high \in Level
  BY LevelsProposed, Zenon
<1> HIDE DEF low, high
<1>2. [rkey |-> b, current |-> low, proposed |-> high, status |-> "pending", variant |-> NoVariant] \in GoodRec
  BY Zenon, <1>1 DEF GoodRec, Rec, Counts
<1>3. QED
  BY Zenon, <1>2 DEF low, high

(* Writing a recommendation keeps the decided ones. *)
LEMMA UpsertKeeps ==
    ASSUME LearnInv, NEW b \in Counts, upsert_adjustment_recommendation(b)
    PROVE  RecsKept
<1> DEFINE same == {i \in RecId : Exists(i) /\ recs[i].rkey = b}
           open == {i \in RecId : ~Exists(i)}
           new == [rkey |-> b, current |-> current_threshold(b[1]),
                   proposed |-> proposed_threshold(b), status |-> "pending", variant |-> NoVariant]
<1>1. new \in GoodRec
  BY NewRec, Zenon
<1>2. \/ recs' = [i \in RecId |-> IF i \in same THEN after_conflict(recs[i], new) ELSE recs[i]]
      \/ open # {} /\ recs' = [recs EXCEPT ![Min(open)] = new]
  BY Zenon DEF upsert_adjustment_recommendation
<1> HIDE DEF new
<1>3. new \in Rec /\ new # NoRec /\ NoRec \notin GoodRec
  BY Zenon, <1>1, NoneAssumption DEF GoodRec
<1>4. recs \in [RecId -> GoodRec \cup {NoRec}]
  BY Zenon DEF LearnInv
<1>5. CASE recs' = [i \in RecId |-> IF i \in same THEN after_conflict(recs[i], new) ELSE recs[i]]
  <2>1. ASSUME NEW i \in RecId
        PROVE  /\ recs'[i] \in GoodRec \cup {NoRec}
               /\ Exists(i) => recs'[i] # NoRec /\ (recs[i].status # "pending" => recs'[i].status # "pending")
    <3>1. CASE i \in same
      <4>1. recs[i] \in GoodRec
        BY Zenon, <1>4, <3>1 DEF Exists
      <4> DEFINE z == after_conflict(recs[i], new)
      <4>2. z \in GoodRec /\ z.status = recs[i].status /\ recs'[i] = z
        BY <1>3, <1>5, <3>1, <4>1, ConflictKeeps, Zenon
      <4> HIDE DEF z
      <4>3. QED
        BY Zenon, <1>3, <4>2
    <3>2. CASE i \notin same
      <4>1. recs'[i] = recs[i]
        BY Zenon, <1>5, <3>2
      <4>2. QED
        BY Zenon, <1>4, <4>1 DEF Exists
    <3>3. QED
      BY Zenon, <3>1, <3>2
  <2>2. recs' = [i \in RecId |-> recs'[i]]
    BY Zenon, <1>5
  <2>3. QED
    BY Zenon, <2>1, <2>2 DEF RecsKept
<1>6. CASE open # {} /\ recs' = [recs EXCEPT ![Min(open)] = new]
  <2>1. open \subseteq Nat
    BY DEF RecId
  <2> DEFINE m == Min(open)
  <2>2. m \in open /\ recs' = [recs EXCEPT ![m] = new]
    BY <1>6, <2>1, LeastIsMember, Zenon
  <2> HIDE DEF m
  <2>3. m \in RecId /\ ~Exists(m)
    BY Zenon, <2>2
  <2>4. QED
    BY Zenon, <1>1, <1>4, <2>2, <2>3 DEF RecsKept, Exists
<1>7. QED
  BY Zenon, <1>2, <1>5, <1>6

---------------------------------------------------------------------------
\* Requests.

(* A reviewer that moves on still works on a recommendation that exists. *)
LEMMA TaskMoves ==
    ASSUME LearnInv, RecsKept, NEW r \in Reviewer, NEW x \in {Idle} \cup GoodTask,
           x # Idle => recs'[x.id] # NoRec,
           task' = [task EXCEPT ![r] = x]
    PROVE  /\ task' \in [Reviewer -> {Idle} \cup GoodTask]
           /\ \A q \in Reviewer : task'[q] # Idle => recs'[task'[q].id] # NoRec
<1>1. task \in [Reviewer -> {Idle} \cup GoodTask]
  BY Zenon DEF LearnInv
<1>2. /\ task' \in [Reviewer -> {Idle} \cup GoodTask] /\ task'[r] = x
      /\ \A q \in Reviewer : q # r => task'[q] = task[q]
  BY Zenon, <1>1
<1>3. ASSUME NEW q \in Reviewer, task'[q] # Idle PROVE recs'[task'[q].id] # NoRec
  <2>1. CASE q = r
    BY Zenon, <1>2, <1>3, <2>1
  <2>2. CASE q # r
    <3>1. task'[q] = task[q] /\ task[q] \in GoodTask /\ Exists(task[q].id)
      BY Zenon, <1>1, <1>2, <1>3, <2>2 DEF LearnInv
    <3>2. task[q].id \in RecId
      BY Zenon, <3>1 DEF GoodTask
    <3>3. QED
      BY Zenon, <3>1, <3>2 DEF RecsKept
  <2>3. QED
    BY Zenon, <2>1, <2>2
<1>4. QED
  BY Zenon, <1>2, <1>3 DEF Exists

(* Recommendations that do not change are kept. *)
LEMMA RecsUnchanged == ASSUME LearnInv, recs' = recs PROVE RecsKept
  BY Zenon DEF LearnInv, RecsKept, Exists

(* The other reviewers still work on recommendations that exist. *)
LEMMA TasksUnchanged ==
    ASSUME LearnInv, RecsKept, task' = task
    PROVE  /\ task' \in [Reviewer -> {Idle} \cup GoodTask]
           /\ \A q \in Reviewer : task'[q] # Idle => recs'[task'[q].id] # NoRec
<1>1. ASSUME NEW q \in Reviewer, task[q] # Idle PROVE recs'[task[q].id] # NoRec
  <2>1. task[q] \in GoodTask /\ Exists(task[q].id)
    BY Zenon, <1>1 DEF LearnInv
  <2>2. task[q].id \in RecId
    BY Zenon, <2>1 DEF GoodTask
  <2>3. QED
    BY Zenon, <2>1, <2>2 DEF RecsKept
<1>2. QED
  BY Zenon, <1>1 DEF LearnInv, Exists

\* A request that goes on to a step that needs no variant.
LEMMA StepTyped ==
    ASSUME NEW x \in GoodTask, NEW at \in Steps,
           at \in {"insert", "remove", "check", "unenrol"} => x.rec.variant \in Variant
    PROVE  [x EXCEPT !.at = at] \in GoodTask /\ [x EXCEPT !.at = at].id = x.id
<1> DEFINE y == [x EXCEPT !.at = at]
<1>1. /\ y \in [at : Steps, id : RecId, rec : GoodRec, agents : SUBSET Agent]
      /\ y.at = at /\ y.rec = x.rec /\ y.id = x.id
  BY Zenon DEF GoodTask
<1> HIDE DEF y
<1>2. y \in GoodTask /\ y.id = x.id
  BY Zenon, <1>1 DEF GoodTask
<1>3. QED
  BY Zenon, <1>2 DEF y

(* The agents that a request names may be any. *)
LEMMA AgentsTyped ==
    ASSUME NEW x \in GoodTask, NEW agents \in SUBSET Agent
    PROVE  /\ [x EXCEPT !.agents = agents] \in GoodTask
           /\ [x EXCEPT !.agents = agents].id = x.id /\ [x EXCEPT !.agents = agents].rec = x.rec
<1> DEFINE y == [x EXCEPT !.agents = agents]
<1>1. /\ y \in [at : Steps, id : RecId, rec : GoodRec, agents : SUBSET Agent]
      /\ y.at = x.at /\ y.rec = x.rec /\ y.id = x.id
  BY Zenon DEF GoodTask
<1> HIDE DEF y
<1>2. y \in GoodTask /\ y.id = x.id /\ y.rec = x.rec
  BY Zenon, <1>1 DEF GoodTask
<1>3. QED
  BY Zenon, <1>2 DEF y

\* What is left of the invariant when the tasks and recommendations are in order.
Others ==
  /\ db \in BOOLEAN
  /\ review \in [Tx -> Verdicts \cup {"pending"}]
  /\ outcomes \in Seq(GoodOutcome) /\ persisting \subseteq GoodOutcome
  /\ bucket \subseteq Counts
  /\ overrides \in [Key -> Level \cup {-1}]
  /\ variants \in [Variant -> VariantRec \cup {NoVariant}]
  /\ enrolled \in [Agent -> Variant \cup {NoVariant}]

(* A step of a reviewer keeps the invariant. *)
LEMMA StepKeeps ==
    ASSUME LearnInv, RecsKept, Others', NEW r \in Reviewer, NEW x \in {Idle} \cup GoodTask,
           x # Idle => recs'[x.id] # NoRec,
           task' = [task EXCEPT ![r] = x]
    PROVE  LearnInv' /\ RecsKept
  BY Zenon, TaskMoves DEF LearnInv, Others, RecsKept, Exists

(* A step of the loop keeps the invariant. *)
LEMMA LoopKeeps ==
    ASSUME LearnInv, RecsKept, Others', task' = task
    PROVE  LearnInv' /\ RecsKept
  BY Zenon, TasksUnchanged DEF LearnInv, Others, RecsKept, Exists

(* The part of the invariant that no recommendation appears in. *)
LEMMA OthersHold == ASSUME LearnInv PROVE Others
  BY Zenon DEF LearnInv, Others

---------------------------------------------------------------------------
\* One lemma for each action, or for actions that change the same.

(* Outcomes, thresholds and requests keep the invariant. *)
LEMMA ReviewSteps ==
    ASSUME LearnInv,
           \/ \E o \in persisting : insert_decision_outcome(o)
           \/ LearningTick
           \/ \E r \in Reviewer, t \in Tx, v \in Verdicts : submit_outcome(r, t, v)
           \/ \E r \in Reviewer, k \in Key, l \in PatchLevel : patch_threshold(r, k, l)
    PROVE  LearnInv' /\ RecsKept
<1>1. Others
  BY Zenon, OthersHold
<1>2. ASSUME NEW o \in persisting, insert_decision_outcome(o) PROVE Others' /\ UNCHANGED <<recs, task>>
  <2>1. outcomes' \in Seq(GoodOutcome)
    <3>1. outcomes \in Seq(GoodOutcome) /\ o \in GoodOutcome
      BY Zenon, <1>1 DEF Others
    <3>2. outcomes' = Append(outcomes, o) \/ outcomes' = outcomes
      BY Zenon, <1>2 DEF insert_decision_outcome
    <3>3. QED
      BY <3>1, <3>2, AppendProperties
  <2>2. QED
    BY Zenon, <1>1, <1>2, <2>1 DEF Others, insert_decision_outcome, storeVars
<1>3. ASSUME LearningTick PROVE Others' /\ UNCHANGED <<recs, task>>
  <2> DEFINE keys == {KeyOf[o[1].tx] : o \in list_learning_outcomes}
             rows == {counted(k) : k \in keys}
  <2>1. keys \subseteq Key
    BY Zenon, OutcomesListed, LearningAssumption
  <2>2. rows \subseteq Counts
    <3> HIDE DEF keys
    <3>1. QED
      BY <2>1, CountedTyped, Zenon
  <2>3. bucket' = bucket \cup rows
    BY <1>3, Zenon DEF LearningTick
  <2> HIDE DEF rows
  <2>4. QED
    BY Zenon, <1>1, <1>3, <2>2, <2>3 DEF Others, LearningTick, reviewVars, storeVars
<1>4. ASSUME NEW r \in Reviewer, NEW t \in Tx, NEW v \in Verdicts, submit_outcome(r, t, v)
      PROVE  Others' /\ UNCHANGED <<recs, task>>
  BY <1>1, <1>4 DEF Others, GoodOutcome, submit_outcome, submit_review_outcome, storeVars
<1>5. ASSUME NEW r \in Reviewer, NEW k \in Key, NEW l \in PatchLevel, patch_threshold(r, k, l)
      PROVE  Others' /\ UNCHANGED <<recs, task>>
  BY Zenon, <1>1, <1>5, LearningAssumption DEF Others, Level, patch_threshold, reviewVars
<1>6. Others' /\ UNCHANGED <<recs, task>>
  BY Zenon, <1>2, <1>3, <1>4, <1>5
<1>7. QED
  BY Zenon, <1>6, RecsUnchanged, LoopKeeps

(* A turn of the learning loop keeps the invariant. *)
LEMMA LoopStep ==
    ASSUME LearnInv, NEW b \in bucket, run_learning_loop_once(b)
    PROVE  LearnInv' /\ RecsKept
<1>1. b \in Counts /\ Others
  BY Zenon, OthersHold DEF LearnInv
<1>2. Others' /\ task' = task
  BY Zenon, <1>1 DEF Others, run_learning_loop_once, reviewVars, storeVars
<1>3. recs' = recs \/ upsert_adjustment_recommendation(b)
  BY Zenon DEF run_learning_loop_once
<1>4. RecsKept
  BY Zenon, <1>1, <1>3, RecsUnchanged, UpsertKeeps
<1>5. QED
  BY Zenon, <1>2, <1>4, LoopKeeps

\* A request begins with a copy; a revert only with an applied one.
LEMMA RequestBegins ==
    ASSUME LearnInv, NEW r \in Reviewer, NEW i \in RecId, NEW at \in Steps, NEW agents \in SUBSET Agent,
           get_adjustment_recommendation(r, i, at, agents),
           at \in {"insert", "remove", "check", "unenrol"} => recs[i].status = "applied"
    PROVE  LearnInv' /\ RecsKept
<1> DEFINE x == [at |-> at, id |-> i, rec |-> recs[i], agents |-> agents]
<1>1. Others' /\ recs' = recs /\ Exists(i) /\ task' = [task EXCEPT ![r] = x]
  BY Zenon, OthersHold DEF Others, get_adjustment_recommendation, reviewVars, storeVars
<1>2. recs[i] \in GoodRec
  BY Zenon, <1>1 DEF LearnInv, Exists
<1>3. recs[i].status = "applied" => recs[i].variant \in Variant
  BY Zenon, <1>2 DEF GoodRec
<1>4. x \in GoodTask /\ x.id = i
  BY Zenon, <1>2, <1>3 DEF GoodTask
<1> HIDE DEF x
<1>5. RecsKept
  BY Zenon, <1>1, RecsUnchanged
<1>6. x # Idle => recs'[x.id] # NoRec
  BY Zenon, <1>1, <1>4 DEF Exists
<1>7. QED
  BY Zenon, <1>1, <1>4, <1>5, <1>6, StepKeeps

\* The task of a request in progress.
LEMMA BusyTask ==
    ASSUME LearnInv, NEW r \in Reviewer, task[r] # Idle
    PROVE  /\ task[r] \in GoodTask /\ task[r].id \in RecId /\ recs[task[r].id] # NoRec
           /\ task[r].rec \in GoodRec /\ task[r].agents \in SUBSET Agent
           /\ key_of(task[r].rec) \in Key /\ task[r].rec.proposed \in Level
<1>1. task[r] \in GoodTask /\ Exists(task[r].id)
  BY Zenon DEF LearnInv
<1>2. task[r].id \in RecId /\ task[r].rec \in GoodRec /\ task[r].agents \in SUBSET Agent
  BY Zenon, <1>1 DEF GoodTask
<1>3. task[r].rec.rkey \in Key \X Nat \X Nat \X Nat /\ task[r].rec.proposed \in Level
  BY Zenon, <1>2 DEF GoodRec, Rec
<1>4. QED
  BY Zenon, <1>1, <1>2, <1>3 DEF Exists, key_of

\* Steps of a request that leave the recommendations alone.
LEMMA BusySteps ==
    ASSUME LearnInv, NEW r \in Reviewer, task[r] # Idle,
           \/ ApproveGlobally(r) \/ InsertVariant(r) \/ CheckEnrolled(r) \/ Unenrol(r) \/ DecisionLost(r)
    PROVE  LearnInv' /\ RecsKept
<1>1. Others
  BY Zenon, OthersHold
<1>2. /\ task[r] \in GoodTask /\ task[r].id \in RecId /\ recs[task[r].id] # NoRec
      /\ task[r].rec \in GoodRec /\ task[r].agents \in SUBSET Agent
      /\ key_of(task[r].rec) \in Key /\ task[r].rec.proposed \in Level
  BY Zenon, BusyTask
<1>3. recs' = recs
  BY Zenon DEF ApproveGlobally, InsertVariant, CheckEnrolled, Unenrol, DecisionLost
<1>4. RecsKept
  BY Zenon, <1>3, RecsUnchanged
<1>5. SUFFICES \E x \in {Idle} \cup GoodTask :
                 (x # Idle => x.id = task[r].id) /\ task' = [task EXCEPT ![r] = x] /\ Others'
  BY Zenon, <1>2, <1>3, <1>4, StepKeeps
<1>6. task \in [Reviewer -> {Idle} \cup GoodTask]
  BY Zenon DEF LearnInv
<1>7. ASSUME ApproveGlobally(r)
      PROVE  \E x \in {Idle} \cup GoodTask :
                 (x # Idle => x.id = task[r].id) /\ task' = [task EXCEPT ![r] = x] /\ Others'
  <2> DEFINE k == key_of(task[r].rec)
             l == task[r].rec.proposed
             x == [task[r] EXCEPT !.at = "record"]
  <2>1. overrides' = [overrides EXCEPT ![k] = l] /\ task' = [task EXCEPT ![r] = x]
    BY Zenon, <1>6, <1>7 DEF ApproveGlobally, goes
  <2>2. x \in GoodTask /\ x.id = task[r].id
    BY Zenon, <1>2, StepTyped DEF Steps
  <2> HIDE DEF x, k, l
  <2>3. k \in Key /\ l \in Level
    BY Zenon, <1>2 DEF k, l
  <2>4. Others'
    BY Zenon, <1>1, <1>7, <2>1, <2>3 DEF Others, ApproveGlobally, reviewVars
  <2>5. QED
    BY Zenon, <2>1, <2>2, <2>4
<1>8. ASSUME InsertVariant(r)
      PROVE  \E x \in {Idle} \cup GoodTask :
                 (x # Idle => x.id = task[r].id) /\ task' = [task EXCEPT ![r] = x] /\ Others'
  <2> DEFINE z == variant_of(task[r].rec, task[r].agents)
             v == task[r].rec.variant
             x == [task[r] EXCEPT !.at = "record"]
  <2>1. variants' = [variants EXCEPT ![v] = z] /\ task' = [task EXCEPT ![r] = x]
    BY Zenon, <1>6, <1>8 DEF InsertVariant, goes
  <2>2. x \in GoodTask /\ x.id = task[r].id
    BY Zenon, <1>2, StepTyped DEF Steps
  <2>3. z \in VariantRec /\ v \in Variant
    BY Zenon, <1>2, <1>8 DEF variant_of, VariantRec, InsertVariant, GoodTask
  <2> HIDE DEF x, z, v
  <2>4. Others'
    BY Zenon, <1>1, <1>8, <2>1, <2>3 DEF Others, InsertVariant, reviewVars
  <2>5. QED
    BY Zenon, <2>1, <2>2, <2>4
<1>9. ASSUME CheckEnrolled(r)
      PROVE  \E x \in {Idle} \cup GoodTask :
                 (x # Idle => x.id = task[r].id) /\ task' = [task EXCEPT ![r] = x] /\ Others'
  <2> DEFINE y == [task[r] EXCEPT !.at = "unenrol"]
             e == still_enrolled(r)
             x == [y EXCEPT !.agents = e]
  <2>1. e \in SUBSET Agent
    BY Zenon, <1>2 DEF still_enrolled
  <2>2. task[r].rec.variant \in Variant
    BY Zenon, <1>2, <1>9 DEF CheckEnrolled, GoodTask
  <2>3. y \in GoodTask /\ y.id = task[r].id
    BY Zenon, <1>2, <2>2, StepTyped DEF Steps
  <2>4. task' = [task EXCEPT ![r] = x]
    BY Zenon, <1>6, <1>9 DEF CheckEnrolled
  <2> HIDE DEF y, e
  <2>5. x \in GoodTask /\ x.id = y.id
    BY Zenon, <2>1, <2>3, AgentsTyped
  <2> HIDE DEF x
  <2>6. Others'
    BY Zenon, <1>1, <1>9 DEF Others, CheckEnrolled, reviewVars, storeVars
  <2>7. QED
    BY Zenon, <2>3, <2>4, <2>5, <2>6
<1>10. ASSUME Unenrol(r)
      PROVE  \E x \in {Idle} \cup GoodTask :
                 (x # Idle => x.id = task[r].id) /\ task' = [task EXCEPT ![r] = x] /\ Others'
  <2> DEFINE x == [task[r] EXCEPT !.at = "undone"]
  <2>1. task' = [task EXCEPT ![r] = x]
    BY Zenon, <1>6, <1>10 DEF Unenrol, goes
  <2>2. x \in GoodTask /\ x.id = task[r].id
    BY Zenon, <1>2, StepTyped DEF Steps
  <2> HIDE DEF x
  <2>3. Others'
    BY Zenon, <1>1, <1>10 DEF Others, Unenrol, reviewVars
  <2>4. QED
    BY Zenon, <2>1, <2>2, <2>3
<1>11. ASSUME DecisionLost(r)
      PROVE  \E x \in {Idle} \cup GoodTask :
                 (x # Idle => x.id = task[r].id) /\ task' = [task EXCEPT ![r] = x] /\ Others'
  <2>1. task' = [task EXCEPT ![r] = Idle] /\ Others'
    BY Zenon, <1>1, <1>11 DEF DecisionLost, Others, reviewVars, storeVars
  <2>2. QED
    BY Zenon, <2>1
<1>12. QED
  BY Zenon, <1>7, <1>8, <1>9, <1>10, <1>11

(* Enrolling agents under a new overlay keeps the invariant. *)
LEMMA EnrolStep ==
    ASSUME LearnInv, NEW r \in Reviewer, task[r] # Idle, NEW v \in Variant, Enrol(r, v)
    PROVE  LearnInv' /\ RecsKept
<1>1. Others
  BY Zenon, OthersHold
<1>2. task[r] \in GoodTask /\ recs[task[r].id] # NoRec /\ task[r].rec \in GoodRec
  BY Zenon, BusyTask
<1>3. task \in [Reviewer -> {Idle} \cup GoodTask] /\ recs' = recs
  BY Zenon DEF LearnInv, Enrol
<1> DEFINE new == [task[r].rec EXCEPT !.variant = v]
           y == [task[r] EXCEPT !.at = "insert"]
           x == [y EXCEPT !.rec = new]
<1>4. task' = [task EXCEPT ![r] = x]
  BY Zenon, <1>2, <1>3 DEF Enrol, GoodTask
<1>5. new \in GoodRec /\ new.variant = v
  BY Zenon, <1>2 DEF GoodRec, Rec
<1> HIDE DEF new
<1>6. x \in GoodTask /\ x.id = task[r].id
  BY Zenon, <1>2, <1>5 DEF GoodTask, Steps
<1> HIDE DEF x
<1>7. Others'
  BY Zenon, <1>1 DEF Others, Enrol, reviewVars
<1>8. RecsKept
  BY Zenon, <1>3, RecsUnchanged
<1>9. QED
  BY Zenon, <1>2, <1>3, <1>4, <1>6, <1>7, <1>8, StepKeeps

(* Removing an overlay keeps the invariant. *)
LEMMA RemoveStep ==
    ASSUME LearnInv, NEW r \in Reviewer, task[r] # Idle, RemoveVariant(r)
    PROVE  LearnInv' /\ RecsKept
<1>1. Others
  BY Zenon, OthersHold
<1>2. task[r] \in GoodTask /\ recs[task[r].id] # NoRec
  BY Zenon, BusyTask
<1>3. /\ task \in [Reviewer -> {Idle} \cup GoodTask] /\ recs' = recs
      /\ variants \in [Variant -> VariantRec \cup {NoVariant}]
  BY Zenon DEF LearnInv, RemoveVariant
<1> DEFINE v == task[r].rec.variant
           at == IF variants[v] = NoVariant THEN "undone" ELSE "check"
           agents == IF variants[v] = NoVariant THEN {} ELSE variants[v].agents
           y == [task[r] EXCEPT !.at = at]
           x == [y EXCEPT !.agents = agents]
<1>4. v \in Variant
  BY Zenon, <1>2 DEF RemoveVariant, GoodTask
<1>5. at \in Steps /\ agents \in SUBSET Agent
  BY Zenon, <1>3, <1>4 DEF Steps, VariantRec
<1>6. task' = [task EXCEPT ![r] = x] /\ variants' = [variants EXCEPT ![v] = NoVariant]
  <2> HIDE DEF at, agents
  <2>1. task' = [task EXCEPT ![r].at = at, ![r].agents = agents] /\ variants' = [variants EXCEPT ![v] = NoVariant]
    BY Zenon DEF RemoveVariant, at, agents
  <2>2. QED
    BY Zenon, <1>3, <2>1
<1> HIDE DEF at, agents
<1>7. y \in GoodTask /\ y.id = task[r].id
  BY Zenon, <1>2, <1>4, <1>5, StepTyped
<1> HIDE DEF y, v
<1>8. x \in GoodTask /\ x.id = task[r].id
  BY Zenon, <1>5, <1>7, AgentsTyped
<1> HIDE DEF x
<1>9. Others'
  BY Zenon, <1>1, <1>3, <1>6 DEF Others, RemoveVariant, reviewVars
<1>10. RecsKept
  BY Zenon, <1>3, RecsUnchanged
<1>11. QED
  BY Zenon, <1>2, <1>3, <1>6, <1>8, <1>9, <1>10, StepKeeps

\* The decision a request ends with.
LEMMA DecideStep ==
    ASSUME LearnInv, NEW r \in Reviewer, task[r] # Idle, NEW status,
           status \in {"approved", "applied", "rejected", "reverted"},
           status = "applied" => task[r].rec.variant \in Variant,
           decide_adjustment_recommendation(r, status)
    PROVE  LearnInv' /\ RecsKept
<1>1. Others /\ Others'
  BY Zenon, OthersHold DEF Others, decide_adjustment_recommendation, reviewVars, storeVars
<1>2. task[r].id \in RecId /\ recs[task[r].id] # NoRec /\ task[r].rec \in GoodRec
  BY Zenon, BusyTask
<1> DEFINE i == task[r].id
           new == [task[r].rec EXCEPT !.status = status]
           z == stored(recs[i], new)
<1>3. recs \in [RecId -> GoodRec \cup {NoRec}] /\ recs[i] \in GoodRec
  BY Zenon, <1>2 DEF LearnInv
<1>4. recs' = [recs EXCEPT ![i] = z] /\ task' = [task EXCEPT ![r] = Idle]
  BY Zenon DEF decide_adjustment_recommendation
<1>5. new \in GoodRec /\ new.status = status /\ new.variant = task[r].rec.variant
  BY Zenon, <1>2 DEF GoodRec, Rec
<1> HIDE DEF new
<1>6. z \in GoodRec /\ z.status = status
  <2>1. CASE ~db
    BY Zenon, <1>5, <2>1 DEF stored
  <2>2. CASE db
    <3> DEFINE var == IF new.variant = NoVariant THEN recs[i].variant ELSE new.variant
               t == [recs[i] EXCEPT !.status = new.status]
               u == [t EXCEPT !.variant = var]
    <3>1. z = u
      BY <2>2, Zenon DEF stored
    <3>2. var \in Variant \cup {NoVariant} /\ (status = "applied" => var \in Variant)
      BY Zenon, <1>3, <1>5, LearningAssumption DEF GoodRec, Rec
    <3>3. t \in Rec /\ t.status = status
      BY Zenon, <1>3, <1>5 DEF GoodRec, Rec
    <3> HIDE DEF t, var
    <3>4. u \in Rec /\ u.status = t.status /\ u.variant = var
      BY Zenon, <3>2, <3>3 DEF Rec
    <3> HIDE DEF u, z
    <3>5. QED
      BY Zenon, <3>1, <3>2, <3>3, <3>4 DEF GoodRec
  <2>3. QED
    BY Zenon, <2>1, <2>2
<1> HIDE DEF z, i
<1>7. NoRec \notin GoodRec
  BY Zenon, NoneAssumption DEF GoodRec
<1>8. i \in RecId
  BY Zenon, <1>2 DEF i
<1>9. RecsKept
  BY Zenon, <1>3, <1>4, <1>6, <1>7, <1>8 DEF RecsKept, Exists
<1>10. QED
  BY Zenon, <1>1, <1>4, <1>9, StepKeeps

\* No step reopens a decision, also when a restart drops the map in memory.
Decided ==
  \A i \in RecId :
    Exists(i) /\ recs[i].status # "pending" /\ recs'[i] # NoRec => recs'[i].status # "pending"

(* A step of the learning loop or of a reviewer keeps the invariant and     *)
(* what was decided.                                                        *)
LEMMA LearningStep ==
    ASSUME LearnInv, [LearningNext]_learningVars
    PROVE  LearnInv' /\ Decided
<1>1. RecsKept => Decided
  BY Zenon DEF RecsKept, Decided
<1>2. ASSUME LearningRestart PROVE LearnInv' /\ Decided
  <2>1. recs' = recs \/ recs' = [i \in RecId |-> NoRec]
    BY Zenon, <1>2 DEF LearningRestart
  <2>2. recs' \in [RecId -> GoodRec \cup {NoRec}] /\ Decided
    BY Zenon, <2>1 DEF LearnInv, Decided
  <2>3. QED
    BY Zenon, <1>2, <2>2 DEF LearnInv, LearningRestart, Exists
<1>3. ASSUME UNCHANGED learningVars PROVE LearnInv' /\ Decided
  BY Zenon, <1>3 DEF learningVars, reviewVars, storeVars, LearnInv, Decided, Exists
<1>4. ASSUME NEW r \in Reviewer, NEW i \in RecId, NEW agents \in SUBSET Agent,
             approve_recommendation(r, i, agents) \/ reject_recommendation(r, i) \/ revert_recommendation(r, i)
      PROVE  LearnInv' /\ RecsKept
  <2>1. CASE approve_recommendation(r, i, agents)
    BY Zenon, <2>1, RequestBegins DEF approve_recommendation, Steps
  <2>2. CASE reject_recommendation(r, i)
    BY <2>2, RequestBegins DEF reject_recommendation, Steps
  <2>3. CASE revert_recommendation(r, i)
    BY <2>3, RequestBegins DEF revert_recommendation, Steps
  <2>4. QED
    BY Zenon, <1>4, <2>1, <2>2, <2>3
<1>5. ASSUME NEW r \in Reviewer, task[r] # Idle,
             RecordApproval(r) \/ RecordRejection(r) \/ mark_recommendation_reverted(r)
      PROVE  LearnInv' /\ RecsKept
  <2>1. CASE RecordApproval(r)
    <3> DEFINE status == IF task[r].rec.variant # NoVariant THEN "applied" ELSE "approved"
    <3>1. decide_adjustment_recommendation(r, status)
      BY Zenon, <2>1 DEF RecordApproval
    <3>2. task[r].rec \in GoodRec
      BY Zenon, <1>5, BusyTask
    <3>3. /\ status \in {"approved", "applied", "rejected", "reverted"}
          /\ status = "applied" => task[r].rec.variant \in Variant
      BY Zenon, <3>2 DEF GoodRec, Rec
    <3> HIDE DEF status
    <3>4. QED
      BY Zenon, <1>5, <3>1, <3>3, DecideStep
  <2>2. CASE RecordRejection(r)
    BY Zenon, <1>5, <2>2, DecideStep DEF RecordRejection
  <2>3. CASE mark_recommendation_reverted(r)
    BY Zenon, <1>5, <2>3, DecideStep DEF mark_recommendation_reverted
  <2>4. QED
    BY Zenon, <1>5, <2>1, <2>2, <2>3
<1>6. CASE LearningNext /\ ~LearningRestart
  <2>1. LearnInv' /\ RecsKept
    BY Zenon, <1>4, <1>5, <1>6, ReviewSteps, LoopStep, BusySteps, EnrolStep, RemoveStep
       DEF LearningNext, run_recommendations
  <2>2. QED
    BY Zenon, <1>1, <2>1
<1>7. QED
  BY Zenon, <1>2, <1>3, <1>6 DEF LearningNext

(* Recommendations, overlays, outcomes and the tasks of the reviewers keep  *)
(* the shapes the code declares, however outcomes, turns of the loop and    *)
(* reviews interleave.                                                      *)
THEOREM LearningKeepsTypes == LearningSpec => []LearningTypeOK
<1>1. LearningInit => LearnInv
  BY Zenon, InitialLearning
<1>2. LearnInv /\ [LearningNext]_learningVars => LearnInv'
  BY Zenon, LearningStep
<1>3. LearnInv => LearningTypeOK
  BY Zenon, LearnTyped
<1>4. QED
  BY <1>1, <1>2, <1>3, PTL DEF LearningSpec

(* Once a reviewer has applied or rejected a recommendation, no later turn  *)
(* of the learning loop puts it back to pending:                            *)
(* upsert_adjustment_recommendation leaves the status of a row that it      *)
(* meets alone.                                                             *)
THEOREM DecisionsStay == LearningSpec => [][DecidedStaysDecided]_learningVars
<1>1. LearningInit => LearnInv
  BY Zenon, InitialLearning
<1>2. LearnInv /\ [LearningNext]_learningVars => LearnInv'
  BY Zenon, LearningStep
<1>3. LearnInv /\ [LearningNext]_learningVars => DecidedStaysDecided
  BY Zenon, LearningStep DEF Decided, DecidedStaysDecided
<1>4. QED
  BY <1>1, <1>2, <1>3, PTL DEF LearningSpec

\* Requests that do not move keep their tasks.
RestOf(r) == \A q \in Reviewer : q # r => task'[q] = task[q]

(* What a request in progress still knows after a step of its own. *)
LEMMA TaskGoes ==
    ASSUME LearnInv, NEW r \in Reviewer, task[r] # Idle, NEW at, goes(r, at)
    PROVE  /\ task'[r].at = at /\ task'[r].id = task[r].id /\ task'[r].rec = task[r].rec
           /\ task'[r].agents = task[r].agents /\ RestOf(r)
<1>1. task[r] \in GoodTask /\ task \in [Reviewer -> {Idle} \cup GoodTask]
  BY Zenon DEF LearnInv
<1>2. task' = [task EXCEPT ![r] = [task[r] EXCEPT !.at = at]]
  BY Zenon, <1>1 DEF goes
<1>3. task'[r] = [task[r] EXCEPT !.at = at] /\ RestOf(r)
  BY Zenon, <1>1, <1>2 DEF RestOf
<1>4. QED
  BY Zenon, <1>1, <1>3 DEF GoodTask

(* A reviewer that moves on with other agents leaves the other reviewers    *)
(* alone.                                                                   *)
LEMMA TaskGoesWith ==
    ASSUME LearnInv, NEW r \in Reviewer, task[r] # Idle, NEW at, NEW agents,
           task' = [task EXCEPT ![r].at = at, ![r].agents = agents]
    PROVE  /\ task'[r].at = at /\ task'[r].id = task[r].id /\ task'[r].rec = task[r].rec
           /\ task'[r].agents = agents /\ RestOf(r)
<1>1. task[r] \in GoodTask /\ task \in [Reviewer -> {Idle} \cup GoodTask]
  BY Zenon DEF LearnInv
<1> DEFINE x == [task[r] EXCEPT !.at = at]
<1>2. task' = [task EXCEPT ![r] = [x EXCEPT !.agents = agents]]
  BY Zenon, <1>1
<1>3. task'[r] = [x EXCEPT !.agents = agents] /\ RestOf(r)
  BY Zenon, <1>1, <1>2 DEF RestOf
<1>4. /\ x \in [at : {at}, id : RecId, rec : GoodRec, agents : SUBSET Agent]
      /\ x.at = at /\ x.id = task[r].id /\ x.rec = task[r].rec
  BY Zenon, <1>1 DEF GoodTask
<1> HIDE DEF x
<1>5. QED
  BY Zenon, <1>3, <1>4

(* A reviewer whose request is replaced leaves the other reviewers alone. *)
LEMMA TaskBecomes ==
    ASSUME LearnInv, NEW r \in Reviewer, NEW x, task' = [task EXCEPT ![r] = x]
    PROVE  task'[r] = x /\ RestOf(r)
  BY Zenon DEF LearnInv, RestOf

(* Enrolment gives the request its overlay. *)
LEMMA TaskEnrols ==
    ASSUME LearnInv, NEW r \in Reviewer, task[r] # Idle, NEW v \in Variant, Enrol(r, v)
    PROVE  /\ task'[r].at = "insert" /\ task'[r].id = task[r].id
           /\ task'[r].rec = [task[r].rec EXCEPT !.variant = v] /\ task'[r].rec.variant = v
           /\ task'[r].agents = task[r].agents /\ RestOf(r)
<1>1. task[r] \in GoodTask /\ task \in [Reviewer -> {Idle} \cup GoodTask] /\ task[r].rec \in GoodRec
  BY Zenon, BusyTask DEF LearnInv
<1> DEFINE new == [task[r].rec EXCEPT !.variant = v]
           x == [task[r] EXCEPT !.at = "insert"]
           y == [x EXCEPT !.rec = new]
<1>2. task' = [task EXCEPT ![r] = y]
  BY Zenon, <1>1 DEF Enrol, GoodTask
<1>3. task'[r] = y /\ RestOf(r)
  BY Zenon, <1>1, <1>2 DEF RestOf
<1>4. new.variant = v
  BY Zenon, <1>1 DEF GoodRec, Rec
<1> HIDE DEF new
<1>5. /\ x \in [at : Steps, id : RecId, rec : GoodRec, agents : SUBSET Agent]
      /\ x.at = "insert" /\ x.id = task[r].id /\ x.agents = task[r].agents
  BY Zenon, <1>1 DEF GoodTask, Steps
<1> HIDE DEF x
<1>6. y.at = x.at /\ y.id = x.id /\ y.agents = x.agents /\ y.rec = new
  BY Zenon, <1>5
<1> HIDE DEF y
<1>7. QED
  BY Zenon, <1>3, <1>4, <1>5, <1>6 DEF new

-----------------------------------------------------------------------------
\* An agent enrolled in a variant is one of the agents it was approved for:
\* the ones the variant lists, or, before it is inserted, those of the request.
EnrolInv ==
  /\ OverlayOnlyListed
  /\ \A r \in Reviewer : task[r] # Idle /\ task[r].at = "insert" =>
       \A a \in Agent : enrolled[a] = task[r].rec.variant => a \in task[r].agents

(* No agent is enrolled and no variant inserted by a step that neither     *)
(* begins to insert nor touches the threshold store.                       *)
LEMMA EnrolUntouched ==
    ASSUME EnrolInv, UNCHANGED <<variants, enrolled>>,
           \A q \in Reviewer : task'[q] # Idle /\ task'[q].at = "insert" => task'[q] = task[q]
    PROVE  EnrolInv'
<1>1. OverlayOnlyListed'
  BY Zenon DEF EnrolInv, OverlayOnlyListed
<1>2. QED
  BY Zenon, <1>1 DEF EnrolInv

(* A step keeps who is enrolled in step with what is listed. *)
LEMMA EnrolKept ==
    ASSUME LearnInv, EnrolInv, [LearningNext]_learningVars
    PROVE  EnrolInv'
<1>types. /\ variants \in [Variant -> VariantRec \cup {NoVariant}]
          /\ enrolled \in [Agent -> Variant \cup {NoVariant}]
          /\ NoVariant \notin Variant
  BY Zenon, LearningAssumption DEF LearnInv
<1>1. ASSUME UNCHANGED <<variants, enrolled, task>> PROVE EnrolInv'
  BY Zenon, <1>1, EnrolUntouched
<1>2. ASSUME NEW r \in Reviewer, NEW i \in RecId, NEW at, NEW agents, at # "insert",
             get_adjustment_recommendation(r, i, at, agents)
      PROVE  EnrolInv'
  <2> DEFINE x == [at |-> at, id |-> i, rec |-> recs[i], agents |-> agents]
  <2>1. task' = [task EXCEPT ![r] = x] /\ UNCHANGED <<variants, enrolled>>
    BY Zenon, <1>2 DEF get_adjustment_recommendation, storeVars
  <2>2. x.at = at
    BY Zenon
  <2> HIDE DEF x
  <2>3. task'[r].at # "insert" /\ RestOf(r)
    BY Zenon, <1>2, <2>1, <2>2, TaskBecomes
  <2>4. QED
    BY Zenon, <2>1, <2>3, EnrolUntouched DEF RestOf
<1>3. ASSUME NEW r \in Reviewer, task[r] # Idle, ApproveGlobally(r) PROVE EnrolInv'
  <2>1. task'[r].at = "record" /\ RestOf(r) /\ UNCHANGED <<variants, enrolled>>
    BY Zenon, <1>3, TaskGoes DEF ApproveGlobally
  <2>2. QED
    BY Zenon, <2>1, EnrolUntouched DEF RestOf
<1>4. ASSUME NEW r \in Reviewer, task[r] # Idle, CheckEnrolled(r) PROVE EnrolInv'
  <2>1. task'[r].at = "unenrol" /\ RestOf(r) /\ UNCHANGED <<variants, enrolled>>
    BY Zenon, <1>4, TaskGoesWith DEF CheckEnrolled, storeVars
  <2>2. QED
    BY Zenon, <2>1, EnrolUntouched DEF RestOf
<1>5. ASSUME NEW r \in Reviewer, task' = [task EXCEPT ![r] = Idle], UNCHANGED storeVars PROVE EnrolInv'
  <2>1. task'[r] = Idle /\ RestOf(r) /\ UNCHANGED <<variants, enrolled>>
    BY Zenon, <1>5, TaskBecomes DEF storeVars
  <2>2. QED
    BY Zenon, <2>1, EnrolUntouched DEF RestOf
<1>6. ASSUME NEW r \in Reviewer, task[r] # Idle, NEW v \in Variant, Enrol(r, v) PROVE EnrolInv'
  <2>1. /\ variants' = variants /\ variants[v] = NoVariant /\ \A a \in Agent : enrolled[a] # v
        /\ \A q \in Reviewer : task[q] # Idle => task[q].rec.variant # v
        /\ enrolled' = [a \in Agent |-> IF a \in task[r].agents THEN v ELSE enrolled[a]]
    BY Zenon, <1>6 DEF Enrol, Fresh
  <2>2. task'[r].rec.variant = v /\ task'[r].agents = task[r].agents /\ RestOf(r)
    BY Zenon, <1>6, TaskEnrols
  <2>3. OverlayOnlyListed'
    BY Zenon, <2>1 DEF EnrolInv, OverlayOnlyListed
  <2>4. ASSUME NEW q \in Reviewer, task'[q] # Idle, task'[q].at = "insert",
               NEW a \in Agent, enrolled'[a] = task'[q].rec.variant
        PROVE  a \in task'[q].agents
    <3>1. CASE q = r
      BY Zenon, <2>1, <2>2, <2>4, <3>1
    <3>2. CASE q # r
      BY Zenon, <2>1, <2>2, <2>4, <3>2 DEF RestOf, EnrolInv
    <3>3. QED
      BY Zenon, <3>1, <3>2
  <2>5. QED
    BY Zenon, <2>3, <2>4 DEF EnrolInv
<1>7. ASSUME NEW r \in Reviewer, task[r] # Idle, InsertVariant(r) PROVE EnrolInv'
  <2> DEFINE v == task[r].rec.variant
             z == variant_of(task[r].rec, task[r].agents)
  <2>1. variants' = [variants EXCEPT ![v] = z] /\ enrolled' = enrolled /\ task[r].at = "insert"
    BY Zenon, <1>7 DEF InsertVariant
  <2>2. z.agents = task[r].agents
    BY Zenon DEF variant_of
  <2>3. task'[r].at = "record" /\ RestOf(r)
    BY Zenon, <1>7, TaskGoes DEF InsertVariant
  <2>4. \A a \in Agent : enrolled[a] = v => a \in z.agents
    BY Zenon, <1>7, <2>1, <2>2 DEF EnrolInv
  <2> HIDE DEF z, v
  <2>5. OverlayOnlyListed'
    BY Zenon, <1>types, <2>1, <2>4 DEF EnrolInv, OverlayOnlyListed
  <2>6. QED
    BY Zenon, <2>1, <2>3, <2>5 DEF EnrolInv, RestOf
<1>8. ASSUME NEW r \in Reviewer, task[r] # Idle, RemoveVariant(r) PROVE EnrolInv'
  <2> DEFINE v == task[r].rec.variant
             at == IF variants[v] = NoVariant THEN "undone" ELSE "check"
             agents == IF variants[v] = NoVariant THEN {} ELSE variants[v].agents
  <2>1. /\ variants' = [variants EXCEPT ![v] = NoVariant] /\ enrolled' = enrolled
        /\ task' = [task EXCEPT ![r].at = at, ![r].agents = agents] /\ at # "insert"
    BY Zenon, <1>8 DEF RemoveVariant
  <2> HIDE DEF at, agents, v
  <2>2. task'[r].at # "insert" /\ RestOf(r)
    BY Zenon, <1>8, <2>1, TaskGoesWith
  <2>3. OverlayOnlyListed'
    BY Zenon, <1>types, <2>1 DEF EnrolInv, OverlayOnlyListed
  <2>4. QED
    BY Zenon, <2>1, <2>2, <2>3 DEF EnrolInv, RestOf
<1>9. ASSUME NEW r \in Reviewer, task[r] # Idle, Unenrol(r) PROVE EnrolInv'
  <2>1. /\ variants' = variants
        /\ enrolled' = [a \in Agent |-> IF a \in task[r].agents THEN NoVariant ELSE enrolled[a]]
    BY Zenon, <1>9 DEF Unenrol
  <2>2. task'[r].at = "undone" /\ RestOf(r)
    BY Zenon, <1>9, TaskGoes DEF Unenrol
  <2>3. OverlayOnlyListed'
    BY Zenon, <2>1 DEF EnrolInv, OverlayOnlyListed
  <2>4. ASSUME NEW q \in Reviewer, task'[q] # Idle, task'[q].at = "insert",
               NEW a \in Agent, enrolled'[a] = task'[q].rec.variant
        PROVE  a \in task'[q].agents
    <3>1. task'[q] = task[q]
      BY Zenon, <2>2, <2>4 DEF RestOf
    <3>2. task[q].rec.variant \in Variant
      BY Zenon, <2>4, <3>1 DEF LearnInv, GoodTask
    <3>3. enrolled[a] = task[q].rec.variant
      BY Zenon, <1>types, <2>1, <2>4, <3>1, <3>2
    <3>4. QED
      BY Zenon, <2>4, <3>1, <3>3 DEF EnrolInv
  <2>5. QED
    BY Zenon, <2>3, <2>4 DEF EnrolInv
<1>10. ASSUME LearningRestart PROVE EnrolInv'
  BY Zenon, <1>10 DEF LearningRestart, EnrolInv, OverlayOnlyListed
<1>11. QED
  <2>1. CASE \E r \in Reviewer : task[r] # Idle /\
               \/ RecordApproval(r) \/ RecordRejection(r) \/ mark_recommendation_reverted(r) \/ DecisionLost(r)
    BY Zenon, <2>1, <1>5 DEF RecordApproval, RecordRejection, mark_recommendation_reverted, DecisionLost,
       decide_adjustment_recommendation
  <2>2. CASE \E r \in Reviewer, i \in RecId : \/ \E agents \in SUBSET Agent : approve_recommendation(r, i, agents)
                                             \/ reject_recommendation(r, i) \/ revert_recommendation(r, i)
    BY <2>2, <1>2 DEF approve_recommendation, reject_recommendation, revert_recommendation
  <2>3. CASE UNCHANGED learningVars
    BY Zenon, <2>3, <1>1 DEF learningVars, storeVars
  <2>4. CASE \/ \E o \in persisting : insert_decision_outcome(o)
             \/ LearningTick
             \/ \E b \in bucket : run_learning_loop_once(b)
             \/ \E r \in Reviewer, t \in Tx, v \in Verdicts : submit_outcome(r, t, v)
             \/ \E r \in Reviewer, k \in Key, l \in PatchLevel : patch_threshold(r, k, l)
    BY Zenon, <2>4, <1>1 DEF insert_decision_outcome, LearningTick, run_learning_loop_once, submit_outcome,
       patch_threshold, storeVars
  <2>5. QED
    BY Zenon, <2>1, <2>2, <2>3, <2>4, <1>3, <1>4, <1>6, <1>7, <1>8, <1>9, <1>10
       DEF LearningNext, run_recommendations

(* effective_thresholds overlays a variant only on agents it was approved   *)
(* for, whatever approvals, reverts and restarts overlap, with a database   *)
(* and without one.                                                         *)
THEOREM OverlaysAreListed == LearningSpec => []OverlayOnlyListed
<1>1. LearningInit => LearnInv /\ EnrolInv
  <2>1. ASSUME LearningInit PROVE EnrolInv
    BY Zenon, <2>1 DEF LearningInit, EnrolInv, OverlayOnlyListed
  <2>2. QED
    BY Zenon, <2>1, InitialLearning
<1>2. LearnInv /\ EnrolInv /\ [LearningNext]_learningVars => LearnInv' /\ EnrolInv'
  BY Zenon, LearningStep, EnrolKept
<1>3. EnrolInv => OverlayOnlyListed
  BY Zenon DEF EnrolInv
<1>4. QED
  BY <1>1, <1>2, <1>3, PTL DEF LearningSpec

\* A variant is named by one recommendation and by requests about it only.
OneOwner ==
  /\ \A i, j \in RecId : Exists(i) /\ Exists(j) /\ recs[i].variant # NoVariant /\ recs[i].variant = recs[j].variant => i = j
  /\ \A r \in Reviewer, i \in RecId :
       task[r] # Idle /\ Exists(i) /\ recs[i].variant # NoVariant /\ recs[i].variant = task[r].rec.variant => i = task[r].id
  /\ \A r, q \in Reviewer :
       task[r] # Idle /\ task[q] # Idle /\ task[r].rec.variant # NoVariant /\ task[r].rec.variant = task[q].rec.variant =>
         task[r].id = task[q].id

\* A recommendation that waits for a decision, or is being approved, has no
\* variant yet.
NoneYet ==
  /\ \A i \in RecId : Exists(i) /\ recs[i].status = "pending" => recs[i].variant = NoVariant
  /\ \A r \in Reviewer : task[r] # Idle /\ task[r].at = "apply" => task[r].rec.variant = NoVariant

\* Until an approval is recorded nobody else knows its variant, so that nobody
\* can take it out after it was inserted.
Unshared ==
  \A r \in Reviewer : task[r] # Idle /\ task[r].at \in {"insert", "record"} /\ task[r].rec.variant # NoVariant =>
    /\ \A i \in RecId : Exists(i) => recs[i].variant # task[r].rec.variant
    /\ \A q \in Reviewer : q # r /\ task[q] # Idle => task[q].rec.variant # task[r].rec.variant
    /\ task[r].at = "record" => variants[task[r].rec.variant] # NoVariant

Undoing == {"check", "unenrol", "undone"}

InForce ==
  \A i \in RecId : Exists(i) /\ recs[i].status = "applied" =>
    \/ variants[recs[i].variant] # NoVariant
    \/ \E r \in Reviewer : /\ task[r] # Idle /\ task[r].rec.variant = recs[i].variant /\ task[r].at \in Undoing

ForceInv == OneOwner /\ NoneYet /\ Unshared /\ InForce

(* The loop only adds recommendations without a variant. *)
LEMMA ForceWithNewRec ==
    ASSUME LearnInv, ForceInv, UNCHANGED <<task, variants>>,
           \A i \in RecId : recs'[i] = recs[i] \/ (recs'[i].status = "pending" /\ recs'[i].variant = NoVariant)
    PROVE  ForceInv'
<1>1. ASSUME NEW i \in RecId, Exists(i)', recs'[i].variant # NoVariant PROVE recs'[i] = recs[i] /\ Exists(i)
  BY Zenon, <1>1 DEF Exists
<1>2. ASSUME NEW i \in RecId, Exists(i)', recs'[i].status = "applied" PROVE recs'[i] = recs[i] /\ Exists(i)
  BY <1>2 DEF Exists
<1>3. OneOwner'
  BY Zenon, <1>1 DEF ForceInv, OneOwner
<1>4. NoneYet'
  BY Zenon DEF ForceInv, NoneYet, Exists
<1>5. Unshared'
  BY Zenon, <1>1 DEF ForceInv, Unshared
<1>6. InForce'
  <2>1. ASSUME NEW i \in RecId, Exists(i)', recs'[i].status = "applied"
        PROVE  \/ variants[recs[i].variant] # NoVariant
               \/ \E r \in Reviewer : task[r] # Idle /\ task[r].rec.variant = recs[i].variant /\ task[r].at \in Undoing
    BY Zenon, <1>2, <2>1 DEF ForceInv, InForce
  <2>2. task' = task /\ variants' = variants
    BY Zenon
  <2>3. ASSUME NEW i \in RecId, Exists(i)', recs'[i].status = "applied"
        PROVE  \/ variants'[recs'[i].variant] # NoVariant
               \/ \E r \in Reviewer : task'[r] # Idle /\ task'[r].rec.variant = recs'[i].variant /\ task'[r].at \in Undoing
    BY <1>2, <2>1, <2>2, <2>3
  <2>4. QED
    BY Zenon, <2>3 DEF InForce
<1>7. QED
  BY Zenon, <1>3, <1>4, <1>5, <1>6 DEF ForceInv

(* A request that reads a recommendation keeps what is in force. *)
LEMMA ForceWhenRequested ==
    ASSUME LearnInv, ForceInv, NEW r \in Reviewer, NEW i \in RecId, NEW at \in {"apply", "reject", "remove"}, NEW agents,
           get_adjustment_recommendation(r, i, at, agents), at = "apply" => recs[i].status = "pending"
    PROVE  ForceInv'
<1> DEFINE x == [at |-> at, id |-> i, rec |-> recs[i], agents |-> agents]
<1>1. task' = [task EXCEPT ![r] = x] /\ recs' = recs /\ variants' = variants /\ Exists(i) /\ task[r] = Idle
  BY Zenon DEF get_adjustment_recommendation, storeVars
<1>2. x.at = at /\ x.id = i /\ x.rec = recs[i]
  BY Zenon
<1> HIDE DEF x
<1>3. task'[r].at = at /\ task'[r].id = i /\ task'[r].rec = recs[i] /\ RestOf(r)
  BY Zenon, <1>1, <1>2, TaskBecomes
<1>4. \A j \in RecId : Exists(j)' <=> Exists(j)
  BY Zenon, <1>1 DEF Exists
<1>5. OneOwner'
  <2>1. \A j, k \in RecId : Exists(j)' /\ Exists(k)' /\ recs'[j].variant # NoVariant /\ recs'[j].variant = recs'[k].variant => j = k
    BY Zenon, <1>1, <1>4 DEF ForceInv, OneOwner
  <2>2. ASSUME NEW q \in Reviewer, NEW j \in RecId, task'[q] # Idle, Exists(j), recs[j].variant # NoVariant,
               recs[j].variant = task'[q].rec.variant
        PROVE  j = task'[q].id
    <3>1. CASE q = r
      BY Zenon, <1>1, <1>3, <2>2, <3>1 DEF ForceInv, OneOwner
    <3>2. CASE q # r
      BY Zenon, <1>3, <2>2, <3>2 DEF ForceInv, OneOwner, RestOf
    <3>3. QED
      BY Zenon, <3>1, <3>2
  <2>3. ASSUME NEW p \in Reviewer, NEW q \in Reviewer, task'[p] # Idle, task'[q] # Idle,
               task'[p].rec.variant # NoVariant, task'[p].rec.variant = task'[q].rec.variant
        PROVE  task'[p].id = task'[q].id
    <3>1. CASE p = r /\ q = r
      BY Zenon, <3>1
    <3>2. CASE p = r /\ q # r
      <4>1. task'[q] = task[q] /\ task'[r].rec.variant = recs[i].variant /\ task'[r].id = i
        BY Zenon, <1>3, <3>2 DEF RestOf
      <4>2. i = task[q].id
        BY Zenon, <1>1, <2>3, <3>2, <4>1 DEF ForceInv, OneOwner
      <4>3. QED
        BY Zenon, <3>2, <4>1, <4>2
    <3>3. CASE p # r /\ q = r
      <4>1. task'[p] = task[p] /\ task'[r].rec.variant = recs[i].variant /\ task'[r].id = i
        BY Zenon, <1>3, <3>3 DEF RestOf
      <4>2. i = task[p].id
        <5>1. recs[i].variant = task[p].rec.variant /\ recs[i].variant # NoVariant /\ task[p] # Idle
          BY Zenon, <2>3, <3>3, <4>1
        <5>2. QED
          BY Zenon, <1>1, <5>1 DEF ForceInv, OneOwner
      <4>3. QED
        BY Zenon, <3>3, <4>1, <4>2
    <3>4. CASE p # r /\ q # r
      BY Zenon, <1>3, <2>3, <3>4 DEF ForceInv, OneOwner, RestOf
    <3>5. QED
      BY Zenon, <3>1, <3>2, <3>3, <3>4
  <2>4. QED
    BY Zenon, <1>1, <1>4, <2>1, <2>2, <2>3 DEF OneOwner
<1>6. NoneYet'
  <2>1. ASSUME NEW q \in Reviewer, task'[q] # Idle, task'[q].at = "apply" PROVE task'[q].rec.variant = NoVariant
    <3>1. CASE q = r
      BY Zenon, <1>1, <1>3, <2>1, <3>1 DEF ForceInv, NoneYet
    <3>2. CASE q # r
      BY Zenon, <1>3, <2>1, <3>2 DEF ForceInv, NoneYet, RestOf
    <3>3. QED
      BY Zenon, <3>1, <3>2
  <2>2. QED
    BY Zenon, <1>1, <1>4, <2>1 DEF ForceInv, NoneYet
<1>7. Unshared'
  <2>1. at \notin {"insert", "record"}
    OBVIOUS
  <2>2. ASSUME NEW q \in Reviewer, task'[q] # Idle, task'[q].at \in {"insert", "record"}, task'[q].rec.variant # NoVariant
        PROVE  /\ \A j \in RecId : Exists(j) => recs[j].variant # task'[q].rec.variant
               /\ \A p \in Reviewer : p # q /\ task'[p] # Idle => task'[p].rec.variant # task'[q].rec.variant
               /\ task'[q].at = "record" => variants[task'[q].rec.variant] # NoVariant
    <3>1. q # r /\ task'[q] = task[q]
      BY Zenon, <1>3, <2>1, <2>2 DEF RestOf
    <3>2. /\ \A j \in RecId : Exists(j) => recs[j].variant # task[q].rec.variant
          /\ \A p \in Reviewer : p # q /\ task[p] # Idle => task[p].rec.variant # task[q].rec.variant
          /\ task[q].at = "record" => variants[task[q].rec.variant] # NoVariant
      BY Zenon, <2>2, <3>1 DEF ForceInv, Unshared
    <3>3. QED
      BY Zenon, <1>1, <1>3, <3>1, <3>2 DEF RestOf
  <2>3. QED
    BY Zenon, <1>1, <1>4, <2>2 DEF Unshared
<1>8. InForce'
  <2>1. ASSUME NEW q \in Reviewer, task[q] # Idle PROVE task'[q] = task[q]
    BY Zenon, <1>1, <1>3, <2>1 DEF RestOf
  <2>2. QED
    BY Zenon, <1>1, <1>4, <2>1 DEF ForceInv, InForce
<1>9. QED
  BY Zenon, <1>5, <1>6, <1>7, <1>8 DEF ForceInv

(* A request that goes on keeps its id and its variant. *)
LEMMA ForceWhenGoing ==
    ASSUME LearnInv, ForceInv, NEW r \in Reviewer, task[r] # Idle, recs' = recs,
           task'[r].id = task[r].id, task'[r].rec = task[r].rec, RestOf(r), task'[r].at # "apply",
           \A q \in Reviewer : task'[q] # Idle => task[q] # Idle,
           InForce', Unshared'
    PROVE  ForceInv'
<1>1. \A q \in Reviewer : task'[q].id = task[q].id /\ task'[q].rec = task[q].rec
  BY Zenon DEF RestOf
<1>2. OneOwner'
  <2>1. OneOwner
    BY Zenon DEF ForceInv
  <2>2. \A i, j \in RecId : recs'[i] # NoRec /\ recs'[j] # NoRec /\ recs'[i].variant # NoVariant /\ recs'[i].variant = recs'[j].variant => i = j
    BY Zenon, <2>1 DEF OneOwner, Exists
  <2>3. ASSUME NEW q \in Reviewer, NEW i \in RecId, task'[q] # Idle, Exists(i), recs[i].variant # NoVariant,
               recs[i].variant = task'[q].rec.variant
        PROVE  i = task'[q].id
    BY Zenon, <1>1, <2>1, <2>3 DEF OneOwner
  <2>4. ASSUME NEW p \in Reviewer, NEW q \in Reviewer, task'[p] # Idle, task'[q] # Idle,
               task'[p].rec.variant # NoVariant, task'[p].rec.variant = task'[q].rec.variant
        PROVE  task'[p].id = task'[q].id
    <3>1. /\ task[p] # Idle /\ task[q] # Idle /\ task[p].rec.variant # NoVariant
          /\ task[p].rec.variant = task[q].rec.variant
      BY Zenon, <1>1, <2>4
    <3>2. task[p].id = task[q].id
      BY Zenon, <2>1, <3>1 DEF OneOwner
    <3>3. QED
      BY Zenon, <1>1, <3>2
  <2>5. QED
    BY Zenon, <2>2, <2>3, <2>4 DEF OneOwner, Exists
<1>3. NoneYet'
  BY Zenon, <1>1 DEF ForceInv, NoneYet, Exists, RestOf
<1>4. QED
  BY Zenon, <1>2, <1>3 DEF ForceInv

(* A step of a reviewer on the overlays keeps what is in force. *)
LEMMA ForceInStore ==
    ASSUME LearnInv, ForceInv, NEW r \in Reviewer, task[r] # Idle,
           ApproveGlobally(r) \/ InsertVariant(r) \/ CheckEnrolled(r) \/ Unenrol(r) \/ RemoveVariant(r)
    PROVE  ForceInv'
<1> DEFINE v == task[r].rec.variant
<1>types. /\ task[r] \in GoodTask /\ variants \in [Variant -> VariantRec \cup {NoVariant}]
          /\ NoVariant \notin VariantRec /\ NoVariant \notin Variant
  BY Zenon, NoneAssumption, LearningAssumption DEF LearnInv
<1>1. /\ recs' = recs /\ task'[r].id = task[r].id /\ task'[r].rec = task[r].rec /\ RestOf(r)
      /\ \/ task[r].at = "apply" /\ task'[r].at = "record" /\ variants' = variants
         \/ task[r].at = "insert" /\ task'[r].at = "record" /\ v \in Variant /\ variants'[v] # NoVariant
            /\ \A u : u # v => variants'[u] = variants[u]
         \/ task[r].at \in {"check", "unenrol"} /\ task'[r].at \in Undoing /\ variants' = variants
         \/ task[r].at = "remove" /\ task'[r].at \in Undoing /\ v \in Variant
            /\ \A u : u # v => variants'[u] = variants[u]
  <2>1. CASE ApproveGlobally(r)
    BY Zenon, <2>1, TaskGoes DEF ApproveGlobally
  <2>2. CASE CheckEnrolled(r)
    BY Zenon, <2>2, TaskGoesWith DEF CheckEnrolled, storeVars, Undoing
  <2>3. CASE Unenrol(r)
    BY Zenon, <2>3, TaskGoes DEF Unenrol, Undoing
  <2>4. CASE InsertVariant(r)
    <3> DEFINE z == variant_of(task[r].rec, task[r].agents)
    <3>1. variants' = [variants EXCEPT ![v] = z] /\ task[r].at = "insert" /\ recs' = recs
      BY Zenon, <2>4 DEF InsertVariant
    <3>2. v \in Variant
      BY Zenon, <1>types, <3>1 DEF GoodTask
    <3>3. z \in VariantRec
      BY Zenon, BusyTask DEF variant_of, VariantRec
    <3> HIDE DEF z, v
    <3>4. variants'[v] # NoVariant
      BY Zenon, <1>types, <3>1, <3>2, <3>3
    <3>5. \A u : u # v => variants'[u] = variants[u]
      BY <1>types, <3>1
    <3>6. task'[r].at = "record" /\ task'[r].id = task[r].id /\ task'[r].rec = task[r].rec /\ RestOf(r)
      BY Zenon, <2>4, TaskGoes DEF InsertVariant
    <3>7. QED
      BY Zenon, <3>1, <3>2, <3>4, <3>5, <3>6
  <2>5. CASE RemoveVariant(r)
    <3> DEFINE at == IF variants[v] = NoVariant THEN "undone" ELSE "check"
               agents == IF variants[v] = NoVariant THEN {} ELSE variants[v].agents
    <3>1. /\ variants' = [variants EXCEPT ![v] = NoVariant] /\ task[r].at = "remove" /\ recs' = recs
          /\ task' = [task EXCEPT ![r].at = at, ![r].agents = agents] /\ at \in Undoing
      BY Zenon, <2>5 DEF RemoveVariant, Undoing
    <3>2. v \in Variant
      BY Zenon, <1>types, <3>1 DEF GoodTask
    <3> HIDE DEF at, agents, v
    <3>3. \A u : u # v => variants'[u] = variants[u]
      BY <1>types, <3>1
    <3>4. task'[r].at = at /\ task'[r].id = task[r].id /\ task'[r].rec = task[r].rec /\ RestOf(r)
      BY Zenon, <3>1, TaskGoesWith
    <3>5. QED
      BY Zenon, <3>1, <3>2, <3>3, <3>4
  <2>6. QED
    BY Zenon, <2>1, <2>2, <2>3, <2>4, <2>5
<1>2. \A q \in Reviewer : task'[q] # Idle => task[q] # Idle
  BY Zenon, <1>1 DEF RestOf
<1>at. task'[r].at # "apply" /\ task'[r].at # "insert"
  BY <1>1 DEF Undoing
<1>3. \A q \in Reviewer : task'[q].id = task[q].id /\ task'[q].rec = task[q].rec
  BY Zenon, <1>1 DEF RestOf
<1>4. ASSUME NEW q \in Reviewer, task'[q] # Idle, task'[q].at \in {"insert", "record"}, task[q].rec.variant # NoVariant
      PROVE  /\ \A i \in RecId : Exists(i) => recs[i].variant # task[q].rec.variant
             /\ \A p \in Reviewer : p # q /\ task[p] # Idle => task[p].rec.variant # task[q].rec.variant
             /\ task'[q].at = "record" => variants'[task[q].rec.variant] # NoVariant
  <2>1. CASE q = r
    <3>1. task[r].at = "insert" /\ variants'[v] # NoVariant
      <4>1. task[r].at # "apply"
        BY Zenon, <1>4, <2>1 DEF ForceInv, NoneYet
      <4>2. task'[r].at \notin Undoing
        BY <1>4, <2>1 DEF Undoing
      <4>3. QED
        BY Zenon, <1>1, <4>1, <4>2
    <3>2. QED
      BY Zenon, <1>4, <2>1, <3>1 DEF ForceInv, Unshared
  <2>2. CASE q # r
    <3>1. task'[q] = task[q] /\ task[q].rec.variant # v
      BY Zenon, <1>1, <1>4, <2>2 DEF RestOf, ForceInv, Unshared
    <3>2. QED
      BY Zenon, <1>1, <1>4, <3>1 DEF ForceInv, Unshared
  <2>3. QED
    BY Zenon, <2>1, <2>2
<1>5. Unshared'
  <2>1. ASSUME NEW q \in Reviewer, task'[q] # Idle, task'[q].at \in {"insert", "record"}, task'[q].rec.variant # NoVariant
        PROVE  /\ \A i \in RecId : Exists(i)' => recs'[i].variant # task'[q].rec.variant
               /\ \A p \in Reviewer : p # q /\ task'[p] # Idle => task'[p].rec.variant # task'[q].rec.variant
               /\ task'[q].at = "record" => variants'[task'[q].rec.variant] # NoVariant
    <3>1. task'[q].rec = task[q].rec /\ \A i \in RecId : Exists(i)' <=> Exists(i)
      BY Zenon, <1>1, <1>3 DEF Exists
    <3>2. /\ \A i \in RecId : Exists(i) => recs[i].variant # task[q].rec.variant
          /\ \A p \in Reviewer : p # q /\ task[p] # Idle => task[p].rec.variant # task[q].rec.variant
          /\ task'[q].at = "record" => variants'[task[q].rec.variant] # NoVariant
      BY Zenon, <1>4, <2>1, <3>1
    <3>3. \A p \in Reviewer : p # q /\ task'[p] # Idle => task'[p].rec.variant # task[q].rec.variant
      BY Zenon, <1>2, <1>3, <3>2
    <3>4. QED
      BY Zenon, <1>1, <3>1, <3>2, <3>3
  <2>2. QED
    BY Zenon, <2>1 DEF Unshared
<1>6. ASSUME NEW i \in RecId, Exists(i), recs[i].status = "applied"
      PROVE  \/ variants'[recs[i].variant] # NoVariant
             \/ \E q \in Reviewer : task'[q] # Idle /\ task'[q].rec.variant = recs[i].variant /\ task'[q].at \in Undoing
  <2>idle. \A q \in Reviewer : task'[q].at \in Undoing => task'[q] # Idle
    BY DEF Idle, Undoing
  <2>1. CASE variants[recs[i].variant] # NoVariant
    <3>1. CASE recs[i].variant # v
      BY Zenon, <1>1, <2>1, <3>1
    <3>2. CASE recs[i].variant = v
      BY Zenon, <1>1, <2>1, <2>idle, <3>2
    <3>3. QED
      BY Zenon, <3>1, <3>2
  <2>2. ASSUME NEW q \in Reviewer, task[q] # Idle, task[q].rec.variant = recs[i].variant, task[q].at \in Undoing
        PROVE  task'[q] # Idle /\ task'[q].rec.variant = recs[i].variant /\ task'[q].at \in Undoing
    <3>1. CASE q = r
      <4>1. task[r].at \notin {"apply", "insert", "remove"}
        BY <2>2, <3>1 DEF Undoing
      <4>2. task'[r].at \in Undoing
        BY Zenon, <1>1, <4>1
      <4>3. QED
        BY Zenon, <1>1, <2>2, <2>idle, <3>1, <4>2
    <3>2. CASE q # r
      BY Zenon, <1>1, <2>2, <3>2 DEF RestOf
    <3>3. QED
      BY Zenon, <3>1, <3>2
  <2>3. QED
    BY Zenon, <1>6, <2>1, <2>2 DEF ForceInv, InForce
<1>7. InForce'
  BY Zenon, <1>1, <1>6 DEF InForce, Exists
<1>8. QED
  BY Zenon, <1>1, <1>2, <1>at, <1>5, <1>7, ForceWhenGoing

(* A new overlay is in force nowhere yet. *)
LEMMA ForceWhenEnrolled ==
    ASSUME LearnInv, ForceInv, NEW r \in Reviewer, task[r] # Idle, NEW v \in Variant, Enrol(r, v)
    PROVE  ForceInv'
<1>1. /\ recs' = recs /\ variants' = variants /\ task[r].at = "apply"
      /\ \A i \in RecId : Exists(i) => recs[i].variant # v
      /\ \A q \in Reviewer : task[q] # Idle => task[q].rec.variant # v
  BY Zenon DEF Enrol, Fresh
<1>2. task'[r].at = "insert" /\ task'[r].id = task[r].id /\ task'[r].rec.variant = v /\ RestOf(r)
  BY Zenon, TaskEnrols
<1>3. \A i \in RecId : Exists(i)' <=> Exists(i)
  BY Zenon, <1>1 DEF Exists
<1>4. \A q \in Reviewer : q # r => task'[q] = task[q]
  BY Zenon, <1>2 DEF RestOf
<1>5. OneOwner'
  <2>1. ASSUME NEW q \in Reviewer, NEW j \in RecId, task'[q] # Idle, Exists(j), recs[j].variant # NoVariant,
               recs[j].variant = task'[q].rec.variant
        PROVE  j = task'[q].id
    BY Zenon, <1>1, <1>2, <1>4, <2>1 DEF ForceInv, OneOwner
  <2>2. ASSUME NEW p \in Reviewer, NEW q \in Reviewer, task'[p] # Idle, task'[q] # Idle,
               task'[p].rec.variant # NoVariant, task'[p].rec.variant = task'[q].rec.variant
        PROVE  task'[p].id = task'[q].id
    <3>1. CASE p = r /\ q # r
      BY Zenon, <1>1, <1>2, <1>4, <2>2, <3>1
    <3>2. CASE p # r /\ q = r
      BY Zenon, <1>1, <1>2, <1>4, <2>2, <3>2
    <3>3. CASE p # r /\ q # r
      <4>1. task'[p] = task[p] /\ task'[q] = task[q]
        BY Zenon, <1>4, <3>3
      <4>2. task[p].id = task[q].id
        BY Zenon, <2>2, <4>1 DEF ForceInv, OneOwner
      <4>3. QED
        BY Zenon, <4>1, <4>2
    <3>4. QED
      BY Zenon, <3>1, <3>2, <3>3
  <2>3. QED
    BY Zenon, <1>1, <1>3, <2>1, <2>2 DEF ForceInv, OneOwner
<1>6. NoneYet'
  <2>1. ASSUME NEW q \in Reviewer, task'[q] # Idle, task'[q].at = "apply" PROVE task'[q].rec.variant = NoVariant
    BY Zenon, <1>2, <1>4, <2>1 DEF ForceInv, NoneYet
  <2>2. QED
    BY Zenon, <1>1, <1>3, <2>1 DEF ForceInv, NoneYet
<1>7. Unshared'
  <2>1. ASSUME NEW q \in Reviewer, task'[q] # Idle, task'[q].at \in {"insert", "record"}, task'[q].rec.variant # NoVariant
        PROVE  /\ \A i \in RecId : Exists(i) => recs[i].variant # task'[q].rec.variant
               /\ \A p \in Reviewer : p # q /\ task'[p] # Idle => task'[p].rec.variant # task'[q].rec.variant
               /\ task'[q].at = "record" => variants[task'[q].rec.variant] # NoVariant
    <3>1. CASE q = r
      BY Zenon, <1>1, <1>2, <1>4, <3>1
    <3>2. CASE q # r
      <4>1. task'[q] = task[q]
        BY Zenon, <1>4, <3>2
      <4>2. /\ \A i \in RecId : Exists(i) => recs[i].variant # task[q].rec.variant
            /\ \A p \in Reviewer : p # q /\ task[p] # Idle => task[p].rec.variant # task[q].rec.variant
            /\ task[q].at = "record" => variants[task[q].rec.variant] # NoVariant
            /\ task[q].rec.variant # v
        BY Zenon, <1>1, <2>1, <4>1 DEF ForceInv, Unshared
      <4>3. QED
        BY Zenon, <1>2, <1>4, <4>1, <4>2
    <3>3. QED
      BY Zenon, <3>1, <3>2
  <2>2. QED
    BY Zenon, <1>1, <1>3, <2>1 DEF Unshared
<1>8. InForce'
  <2>1. ASSUME NEW q \in Reviewer, task[q] # Idle, task[q].at \in Undoing PROVE task'[q] = task[q]
    <3>1. q # r
      BY <1>1, <2>1 DEF Undoing
    <3>2. QED
      BY Zenon, <1>4, <3>1
  <2>2. ASSUME NEW i \in RecId, Exists(i), recs[i].status = "applied"
        PROVE  \/ variants[recs[i].variant] # NoVariant
               \/ \E q \in Reviewer : task'[q] # Idle /\ task'[q].rec.variant = recs[i].variant /\ task'[q].at \in Undoing
    <3>1. \/ variants[recs[i].variant] # NoVariant
          \/ \E q \in Reviewer : task[q] # Idle /\ task[q].rec.variant = recs[i].variant /\ task[q].at \in Undoing
      BY Zenon, <2>2 DEF ForceInv, InForce
    <3>2. QED
      BY <2>1, <3>1
  <2>3. QED
    BY Zenon, <1>1, <1>3, <2>2 DEF InForce
<1>9. QED
  BY Zenon, <1>5, <1>6, <1>7, <1>8 DEF ForceInv

(* Without a database the map takes the whole copy of the request. *)
LEMMA ForceWhenDecided ==
    ASSUME LearnInv, ForceInv, ~db, NEW r \in Reviewer, task[r] # Idle, NEW status,
           status \in {"approved", "applied", "rejected", "reverted"},
           status = "applied" => task[r].at = "record" /\ task[r].rec.variant # NoVariant,
           decide_adjustment_recommendation(r, status)
    PROVE  ForceInv'
<1> DEFINE d == task[r].id
           v == task[r].rec.variant
           new == [task[r].rec EXCEPT !.status = status]
<1>1. task[r] \in GoodTask /\ d \in RecId /\ Exists(d) /\ task[r].rec \in GoodRec
  BY Zenon, BusyTask DEF Exists
<1>2. recs' = [recs EXCEPT ![d] = new] /\ variants' = variants /\ task' = [task EXCEPT ![r] = Idle]
  BY Zenon DEF decide_adjustment_recommendation, stored, storeVars
<1>3. new.status = status /\ new.variant = v
  BY Zenon, <1>1 DEF GoodRec, Rec
<1> HIDE DEF new
<1>4. recs'[d] = new /\ \A i \in RecId : i # d => recs'[i] = recs[i]
  BY Zenon, <1>1, <1>2 DEF LearnInv
<1>5. task'[r] = Idle /\ \A q \in Reviewer : q # r => task'[q] = task[q]
  BY Zenon, <1>2, TaskBecomes DEF RestOf
<1> HIDE DEF d
<1>6. \A i \in RecId : i # d => (Exists(i)' <=> Exists(i))
  BY Zenon, <1>4 DEF Exists
<1>7. \A i \in RecId : Exists(i)' => Exists(i)
  BY Zenon, <1>1, <1>6
<1>8. recs'[d].variant = v /\ recs'[d].status = status /\ status # "pending"
  BY <1>3, <1>4
<1>own. /\ \A i \in RecId : Exists(i) /\ v # NoVariant /\ recs[i].variant = v => i = d
        /\ \A q \in Reviewer : task[q] # Idle /\ v # NoVariant /\ task[q].rec.variant = v => task[q].id = d
  BY Zenon DEF ForceInv, OneOwner, d
<1>9. OneOwner'
  <2>1. ASSUME NEW i \in RecId, NEW j \in RecId, Exists(i)', Exists(j)', recs'[i].variant # NoVariant,
               recs'[i].variant = recs'[j].variant
        PROVE  i = j
    BY Zenon, <1>4, <1>7, <1>8, <1>own, <2>1 DEF ForceInv, OneOwner
  <2>2. ASSUME NEW q \in Reviewer, NEW j \in RecId, task'[q] # Idle, Exists(j)', recs'[j].variant # NoVariant,
               recs'[j].variant = task'[q].rec.variant
        PROVE  j = task'[q].id
    <3>1. task'[q] = task[q] /\ Exists(j)
      BY Zenon, <1>5, <1>7, <2>2
    <3>2. CASE j = d
      BY Zenon, <1>8, <1>own, <2>2, <3>1, <3>2
    <3>3. CASE j # d
      BY Zenon, <1>4, <2>2, <3>1, <3>3 DEF ForceInv, OneOwner
    <3>4. QED
      BY Zenon, <3>2, <3>3
  <2>3. ASSUME NEW p \in Reviewer, NEW q \in Reviewer, task'[p] # Idle, task'[q] # Idle,
               task'[p].rec.variant # NoVariant, task'[p].rec.variant = task'[q].rec.variant
        PROVE  task'[p].id = task'[q].id
    <3>1. task'[p] = task[p] /\ task'[q] = task[q]
      BY Zenon, <1>5, <2>3
    <3>2. QED
      BY Zenon, <2>3, <3>1 DEF ForceInv, OneOwner
  <2>4. QED
    BY Zenon, <2>1, <2>2, <2>3 DEF OneOwner
<1>10. NoneYet'
  <2>1. ASSUME NEW i \in RecId, Exists(i)', recs'[i].status = "pending" PROVE recs'[i].variant = NoVariant
    <3>1. i # d
      BY Zenon, <1>8, <2>1
    <3>2. QED
      BY Zenon, <1>4, <1>7, <2>1, <3>1 DEF ForceInv, NoneYet
  <2>2. ASSUME NEW q \in Reviewer, task'[q] # Idle, task'[q].at = "apply" PROVE task'[q].rec.variant = NoVariant
    <3>1. task'[q] = task[q]
      BY Zenon, <1>5, <2>2
    <3>2. QED
      BY Zenon, <2>2, <3>1 DEF ForceInv, NoneYet
  <2>3. QED
    BY Zenon, <2>1, <2>2 DEF NoneYet
<1>11. Unshared'
  <2>1. ASSUME NEW q \in Reviewer, task'[q] # Idle, task'[q].at \in {"insert", "record"}, task'[q].rec.variant # NoVariant
        PROVE  /\ \A i \in RecId : Exists(i)' => recs'[i].variant # task'[q].rec.variant
               /\ \A p \in Reviewer : p # q /\ task'[p] # Idle => task'[p].rec.variant # task'[q].rec.variant
               /\ task'[q].at = "record" => variants'[task'[q].rec.variant] # NoVariant
    <3>1. task'[q] = task[q] /\ q # r
      BY Zenon, <1>5, <2>1
    <3>2. /\ \A i \in RecId : Exists(i) => recs[i].variant # task[q].rec.variant
          /\ \A p \in Reviewer : p # q /\ task[p] # Idle => task[p].rec.variant # task[q].rec.variant
          /\ task[q].at = "record" => variants[task[q].rec.variant] # NoVariant
          /\ task[q].rec.variant # v
      BY Zenon, <2>1, <3>1 DEF ForceInv, Unshared
    <3>3. \A i \in RecId : Exists(i)' => recs'[i].variant # task[q].rec.variant
      BY Zenon, <1>4, <1>7, <1>8, <3>2
    <3>4. \A p \in Reviewer : p # q /\ task'[p] # Idle => task'[p].rec.variant # task[q].rec.variant
      BY Zenon, <1>5, <3>2
    <3>5. QED
      BY Zenon, <1>2, <3>1, <3>2, <3>3, <3>4
  <2>2. QED
    BY Zenon, <2>1 DEF Unshared
<1>12. InForce'
  <2>1. ASSUME NEW i \in RecId, Exists(i)', recs'[i].status = "applied"
        PROVE  \/ variants'[recs'[i].variant] # NoVariant
               \/ \E q \in Reviewer : task'[q] # Idle /\ task'[q].rec.variant = recs'[i].variant /\ task'[q].at \in Undoing
    <3>1. CASE i = d
      <4>1. task[r].at = "record" /\ v # NoVariant
        BY Zenon, <1>8, <2>1, <3>1
      <4>2. variants[v] # NoVariant
        BY Zenon, <4>1 DEF ForceInv, Unshared
      <4>3. QED
        BY Zenon, <1>2, <1>8, <3>1, <4>2
    <3>2. CASE i # d
      <4>1. recs'[i] = recs[i] /\ Exists(i) /\ recs[i] \in GoodRec /\ recs[i].status = "applied"
        BY Zenon, <1>4, <1>7, <2>1, <3>2 DEF LearnInv, Exists
      <4>2. recs[i].variant # NoVariant
        BY Zenon, <4>1, LearningAssumption DEF GoodRec
      <4>3. recs[i].variant # v
        BY Zenon, <1>own, <3>2, <4>1, <4>2
      <4>4. ASSUME NEW q \in Reviewer, task[q] # Idle, task[q].rec.variant = recs[i].variant PROVE task'[q] = task[q]
        BY Zenon, <1>5, <4>3, <4>4
      <4>5. \/ variants[recs[i].variant] # NoVariant
            \/ \E q \in Reviewer : task[q] # Idle /\ task[q].rec.variant = recs[i].variant /\ task[q].at \in Undoing
        BY Zenon, <4>1 DEF ForceInv, InForce
      <4>6. QED
        BY <1>2, <4>1, <4>4, <4>5
    <3>3. QED
      BY Zenon, <3>1, <3>2
  <2>2. QED
    BY Zenon, <2>1 DEF InForce
<1>13. QED
  BY Zenon, <1>9, <1>10, <1>11, <1>12 DEF ForceInv

(* A step keeps what is applied in force. *)
LEMMA ForceKept ==
    ASSUME LearnInv, ~db => ForceInv, [LearningNext]_learningVars
    PROVE  ~db' => ForceInv'
<1>1. db' = db
  BY Zenon DEF LearningNext, learningVars, insert_decision_outcome, LearningTick, run_learning_loop_once, submit_outcome,
     run_recommendations, patch_threshold, approve_recommendation, reject_recommendation, revert_recommendation,
     get_adjustment_recommendation, ApproveGlobally, Enrol, InsertVariant, RecordApproval, RecordRejection, RemoveVariant,
     CheckEnrolled, Unenrol, mark_recommendation_reverted, DecisionLost, decide_adjustment_recommendation, LearningRestart
<1>2. SUFFICES ASSUME ~db, ForceInv PROVE ForceInv'
  BY Zenon, <1>1
<1>3. ASSUME UNCHANGED <<recs, task, variants>> PROVE ForceInv'
  BY Zenon, <1>2, <1>3, ForceWithNewRec
<1>4. ASSUME NEW b \in bucket, run_learning_loop_once(b) PROVE ForceInv'
  <2>1. UNCHANGED <<task, variants>> /\ (recs' = recs \/ upsert_adjustment_recommendation(b))
    BY Zenon, <1>4 DEF run_learning_loop_once, storeVars
  <2>2. CASE upsert_adjustment_recommendation(b)
    <3> DEFINE new == [rkey |-> b, current |-> current_threshold(b[1]),
                       proposed |-> proposed_threshold(b), status |-> "pending", variant |-> NoVariant]
               open == {i \in RecId : ~Exists(i)}
               m == Min(open)
    <3>1. recs' = [recs EXCEPT ![m] = new]
      BY Zenon, <1>2, <2>2 DEF upsert_adjustment_recommendation
    <3>2. new.status = "pending" /\ new.variant = NoVariant
      BY Zenon
    <3> HIDE DEF new, m
    <3>3. \A i \in RecId : recs'[i] = recs[i] \/ recs'[i] = new
      BY <3>1 DEF LearnInv
    <3>4. QED
      BY Zenon, <1>2, <2>1, <3>2, <3>3, ForceWithNewRec
  <2>3. QED
    BY Zenon, <1>3, <2>1, <2>2
<1>5. ASSUME NEW r \in Reviewer, NEW i \in RecId, NEW agents \in SUBSET Agent,
             approve_recommendation(r, i, agents) \/ reject_recommendation(r, i) \/ revert_recommendation(r, i)
      PROVE  ForceInv'
  <2>1. CASE approve_recommendation(r, i, agents)
    BY Zenon, <1>2, <2>1, ForceWhenRequested DEF approve_recommendation
  <2>2. CASE reject_recommendation(r, i)
    BY <1>2, <2>2, ForceWhenRequested DEF reject_recommendation
  <2>3. CASE revert_recommendation(r, i)
    BY <1>2, <2>3, ForceWhenRequested DEF revert_recommendation
  <2>4. QED
    BY Zenon, <1>5, <2>1, <2>2, <2>3
<1>6. ASSUME NEW r \in Reviewer, task[r] # Idle,
             RecordApproval(r) \/ RecordRejection(r) \/ mark_recommendation_reverted(r)
      PROVE  ForceInv'
  <2>1. CASE RecordApproval(r)
    <3> DEFINE status == IF task[r].rec.variant # NoVariant THEN "applied" ELSE "approved"
    <3>1. decide_adjustment_recommendation(r, status) /\ task[r].at = "record"
      BY Zenon, <2>1 DEF RecordApproval
    <3>2. /\ status \in {"approved", "applied", "rejected", "reverted"}
          /\ status = "applied" => task[r].rec.variant # NoVariant
      BY Zenon
    <3> HIDE DEF status
    <3>3. QED
      BY Zenon, <1>2, <1>6, <3>1, <3>2, ForceWhenDecided
  <2>2. CASE RecordRejection(r)
    BY Zenon, <1>2, <1>6, <2>2, ForceWhenDecided DEF RecordRejection
  <2>3. CASE mark_recommendation_reverted(r)
    BY Zenon, <1>2, <1>6, <2>3, ForceWhenDecided DEF mark_recommendation_reverted
  <2>4. QED
    BY Zenon, <1>6, <2>1, <2>2, <2>3
<1>7. ASSUME LearningRestart PROVE ForceInv'
  <2>1. (\A i \in RecId : ~Exists(i)') /\ \A r \in Reviewer : task'[r] = Idle
    BY Zenon, <1>2, <1>7 DEF LearningRestart, Exists
  <2>2. QED
    BY Zenon, <2>1 DEF ForceInv, OneOwner, NoneYet, Unshared, InForce
<1>8. CASE \/ \E o \in persisting : insert_decision_outcome(o)
           \/ LearningTick
           \/ \E r \in Reviewer, t \in Tx, v \in Verdicts : submit_outcome(r, t, v)
           \/ \E r \in Reviewer, k \in Key, l \in PatchLevel : patch_threshold(r, k, l)
           \/ UNCHANGED learningVars
  BY Zenon, <1>8, <1>3 DEF insert_decision_outcome, LearningTick, submit_outcome, patch_threshold, storeVars, learningVars
<1>9. ASSUME NEW r \in Reviewer, DecisionLost(r) PROVE FALSE
  BY Zenon, <1>2, <1>9 DEF DecisionLost
<1>10. QED
  BY Zenon, <1>2, <1>4, <1>5, <1>6, <1>7, <1>8, <1>9, ForceInStore, ForceWhenEnrolled DEF LearningNext, run_recommendations

(* Without a database a recommendation recorded as applied has its variant *)
(* in force unless a revert is taking it out: approvals, rejections and    *)
(* reverts that overlap never record a variant that is gone.               *)
THEOREM AppliedIsInForce == LearningSpec => []AppliedInForce
<1>1. LearningInit => LearnInv /\ ForceInv
  <2>1. ASSUME LearningInit PROVE ForceInv
    BY Zenon, <2>1 DEF LearningInit, ForceInv, OneOwner, NoneYet, Unshared, InForce, Exists
  <2>2. QED
    BY Zenon, <2>1, InitialLearning
<1>2. LearnInv /\ (~db => ForceInv) /\ [LearningNext]_learningVars => LearnInv' /\ (~db' => ForceInv')
  BY Zenon, LearningStep, ForceKept
<1>3. (~db => ForceInv) => AppliedInForce
  BY Zenon DEF ForceInv, InForce, AppliedInForce, Undoing
<1>4. QED
  BY <1>1, <1>2, <1>3, PTL DEF LearningSpec

-----------------------------------------------------------------------------
(* Policy versions of tenants. *)

(* A set of naturals that is not empty and bounded has a greatest element. *)
LEMMA GreatestNat ==
    ASSUME NEW b \in Nat, NEW S, S \subseteq 0..b, S # {}
    PROVE  \E x \in S : \A y \in S : y <= x
<1> DEFINE T == {k \in Nat : \E x \in S : k = b - x}
<1>1. T # {} /\ T \subseteq Nat
  <2>1. PICK x \in S : TRUE
    BY Zenon
  <2>2. b - x \in T
    OBVIOUS
  <2>3. QED
    BY Zenon, <2>2
<1>2. PICK k \in T : \A l \in T : k <= l
  BY Zenon, <1>1, LeastNat
<1>3. PICK x \in S : k = b - x
  BY Zenon
<1>4. ASSUME NEW y \in S PROVE y <= x
  BY <1>2, <1>3, b - y \in T
<1>5. QED
  BY Zenon, <1>4

-----------------------------------------------------------------------------

\* Requests in progress, with a connection or without one.
Search == {NoTask} \cup [at : {"query", "reset"}, org : Org, conn : Conn]
Reload ==
  {NoTask} \cup [at : {"lock", "insert"}, org : Org, policy : PolicyName, rules : Nat, conn : Conn]
    \cup [at : {"commit"}, org : Org, policy : PolicyName, rules : Nat, conn : Conn, version : Nat]
    \cup [at : {"readback"}, org : Org, policy : PolicyName, rules : Nat, conn : {NoConn}, version : Nat]

Config == [org : Org, policy : PolicyName, version : Nat, rules : Nat]

\* A connection serves one request, or it is in the pool.
OneUser ==
  /\ \A r \in Reloader : reload[r].conn \notin free
  /\ \A s \in Searcher : search[s].conn \notin free
  /\ \A r, q \in Reloader : r # q /\ reload[r].conn # NoConn => reload[r].conn # reload[q].conn
  /\ \A s, q \in Searcher : s # q /\ search[s].conn # NoConn => search[s].conn # search[q].conn
  /\ \A r \in Reloader, s \in Searcher : reload[r].conn # NoConn => reload[r].conn # search[s].conn

\* A reload past its lock holds it.
HoldsLock ==
  \A r \in Reloader : reload[r].at \in {"insert", "commit"} => lockOf[reload[r].policy] = reload[r].conn

\* The version a reload is about to commit is above the committed ones.
NextVersion ==
  \A r \in Reloader : reload[r].at = "commit" =>
    \A c \in configs : c.org = reload[r].org /\ c.policy = reload[r].policy => c.version < reload[r].version

TenantInv ==
  /\ free \subseteq Conn /\ reloads \in Nat
  /\ search \in [Searcher -> Search] /\ reload \in [Reloader -> Reload]
  /\ lockOf \in [PolicyName -> Conn \cup {NoConn}]
  /\ configs \subseteq Config
  /\ \E n \in Nat : \A c \in configs : c.version <= n
  /\ OneUser /\ HoldsLock /\ NextVersion

(* What a reload carries at each of its steps. *)
LEMMA BusyReload ==
    ASSUME NEW x \in Reload
    PROVE  /\ x.at \in {"lock", "insert"} =>
                x \in [at : {"lock", "insert"}, org : Org, policy : PolicyName, rules : Nat, conn : Conn]
           /\ x.at \in {"insert", "commit"} => x.conn \in Conn /\ x.policy \in PolicyName
           /\ x.at = "readback" => x.conn = NoConn
<1>1. CASE x = NoTask
  BY Zenon, <1>1 DEF NoTask
<1>2. CASE x \in [at : {"lock", "insert"}, org : Org, policy : PolicyName, rules : Nat, conn : Conn]
  BY Zenon, <1>2
<1>3. CASE x \in [at : {"commit"}, org : Org, policy : PolicyName, rules : Nat, conn : Conn, version : Nat]
  BY Zenon, <1>3
<1>4. CASE x \in [at : {"readback"}, org : Org, policy : PolicyName, rules : Nat, conn : {NoConn}, version : Nat]
  BY Zenon, <1>4
<1>5. QED
  BY Zenon, <1>1, <1>2, <1>3, <1>4 DEF Reload

(* At the start no connection is in use. *)
LEMMA InitialTenants == ASSUME TenantInit PROVE TenantInv
  BY Zenon, TenantAssumption DEF TenantInit, TenantInv, OneUser, HoldsLock, NextVersion, NoTask, Search, Reload

\* The version after the committed ones is above each of them.
LEMMA VersionAbove ==
    ASSUME TenantInv, NEW o \in Org, NEW p \in PolicyName
    PROVE  /\ version_after(o, p) \in Nat
           /\ \A c \in configs : c.org = o /\ c.policy = p => c.version < version_after(o, p)
<1> DEFINE S == {c.version : c \in {d \in configs : d.org = o /\ d.policy = p}} \cup {0}
<1>1. PICK n \in Nat : \A c \in configs : c.version <= n
  BY Zenon DEF TenantInv
<1>2. \A c \in configs : c.version \in 0..n
  BY <1>1 DEF TenantInv, Config
<1>3. S \subseteq 0..n /\ 0 \in S
  BY <1>2
<1>4. \A c \in configs : c.org = o /\ c.policy = p => c.version \in S
  BY Zenon
<1>5. version_after(o, p) = Max(S) + 1
  BY Zenon DEF version_after
<1> HIDE DEF S
<1>6. \E x \in S : \A y \in S : x >= y
  <2>1. PICK x \in S : \A y \in S : y <= x
    BY <1>3, GreatestNat, Zenon
  <2>2. \A y \in S : x >= y
    BY Zenon, <1>3, <2>1
  <2>3. QED
    BY Zenon, <2>2
<1>7. Max(S) \in S /\ \A y \in S : Max(S) >= y
  BY <1>6, Zenon DEF Max
<1> DEFINE m == Max(S)
           v == version_after(o, p)
<1>8. m \in S /\ (\A y \in S : m >= y) /\ v = m + 1
  BY <1>5, <1>7, Zenon
<1> HIDE DEF m, v
<1>9. v \in Nat /\ \A y \in S : y < v
  BY <1>3, <1>8
<1>10. QED
  BY Zenon, <1>4, <1>9 DEF v

\* What a step of a search changes keeps the invariant.
LEMMA SearchStep ==
    ASSUME TenantInv, NEW s \in Searcher,
           \/ \E o \in Org, c \in free : audit_fts_search(s, o, c)
           \/ search_audit_decisions_scoped(s) \/ SearchFails(s) \/ reset_tenant_context(s)
    PROVE  TenantInv' /\ configs' = configs
<1>1. /\ configs' = configs /\ lockOf' = lockOf /\ reload' = reload /\ reloads' = reloads
      /\ NoConn \notin free /\ search \in [Searcher -> Search] /\ free \subseteq Conn
  BY Zenon, TenantAssumption DEF TenantInv, audit_fts_search, search_audit_decisions_scoped, SearchFails,
     reset_tenant_context, reloadDbVars
<1>2. HoldsLock' /\ NextVersion'
  BY Zenon, <1>1 DEF TenantInv, HoldsLock, NextVersion
<1>3. SUFFICES free' \subseteq Conn /\ search' \in [Searcher -> Search] /\ OneUser'
  BY Zenon, <1>1, <1>2 DEF TenantInv
<1>4. ASSUME NEW o \in Org, NEW c \in free, audit_fts_search(s, o, c)
      PROVE  free' \subseteq Conn /\ search' \in [Searcher -> Search] /\ OneUser'
  <2>1. /\ free' = free \ {c} /\ search' = [search EXCEPT ![s] = [at |-> "query", org |-> o, conn |-> c]]
        /\ search[s].conn = NoConn
    BY <1>4 DEF audit_fts_search, NoTask
  <2>2. search' \in [Searcher -> Search]
    BY Zenon, <1>1, <2>1 DEF Search
  <2>3. search'[s].conn = c /\ \A q \in Searcher : q # s => search'[q] = search[q]
    BY Zenon, <1>1, <2>1
  <2>4. OneUser'
    BY Zenon, <1>1, <2>1, <2>3 DEF TenantInv, OneUser
  <2>5. QED
    BY Zenon, <1>1, <2>1, <2>2, <2>4
<1>5. ASSUME search_audit_decisions_scoped(s)
      PROVE  free' \subseteq Conn /\ search' \in [Searcher -> Search] /\ OneUser'
  <2>1. search[s] \in [at : {"query", "reset"}, org : Org, conn : Conn]
    BY <1>1, <1>5 DEF search_audit_decisions_scoped, Search, NoTask
  <2>2. free' = free /\ search' = [search EXCEPT ![s].at = "reset"]
    BY Zenon, <1>5 DEF search_audit_decisions_scoped
  <2>3. search' \in [Searcher -> Search] /\ \A q \in Searcher : search'[q].conn = search[q].conn
    BY Zenon, <1>1, <2>1, <2>2 DEF Search
  <2>4. QED
    BY <1>1, <2>2, <2>3 DEF TenantInv, OneUser
<1>6. ASSUME SearchFails(s) \/ reset_tenant_context(s)
      PROVE  free' \subseteq Conn /\ search' \in [Searcher -> Search] /\ OneUser'
  <2>1. /\ free' = free \cup {search[s].conn} /\ search' = [search EXCEPT ![s] = NoTask]
        /\ search[s].conn \in Conn
    <3>1. /\ free' = free \cup {search[s].conn} /\ search' = [search EXCEPT ![s] = NoTask]
          /\ search[s].at \in {"query", "reset"} /\ search[s] \in Search
      BY Zenon, <1>1, <1>6 DEF SearchFails, reset_tenant_context
    <3>2. search[s] \in [at : {"query", "reset"}, org : Org, conn : Conn]
      <4>1. NoTask.at = "idle"
        BY Zenon DEF NoTask
      <4>2. search[s] # NoTask
        BY Zenon, <3>1, <4>1
      <4>3. QED
        BY Zenon, <3>1, <4>2 DEF Search
    <3>3. QED
      BY Zenon, <3>1, <3>2
  <2>2. search' \in [Searcher -> Search]
    BY Zenon, <1>1, <2>1 DEF Search
  <2>3. search'[s].conn = NoConn /\ \A q \in Searcher : q # s => search'[q] = search[q]
    BY Zenon, <1>1, <2>1 DEF NoTask
  <2>4. OneUser'
    BY Zenon, <1>1, <2>1, <2>3, TenantAssumption DEF TenantInv, OneUser
  <2>5. QED
    BY Zenon, <1>1, <2>1, <2>2, <2>4
<1>7. QED
  BY Zenon, <1>4, <1>5, <1>6

\* The reload that goes on is in [Reloader -> Reload] and the others stay.
LEMMA ReloadMoves ==
    ASSUME TenantInv, NEW r \in Reloader, NEW x \in Reload, reload' = [reload EXCEPT ![r] = x]
    PROVE  /\ reload' \in [Reloader -> Reload] /\ reload'[r] = x
           /\ \A q \in Reloader : q # r => reload'[q] = reload[q]
  BY Zenon DEF TenantInv

\* A reload that begins: it takes a connection out of the pool.
LEMMA ReloadBegins ==
    ASSUME TenantInv, NEW r \in Reloader, NEW o \in Org, NEW p \in PolicyName, NEW c \in free,
           admin_policy_db_reload(r, o, p, c)
    PROVE  TenantInv' /\ configs' = configs
<1> DEFINE x == [at |-> "lock", org |-> o, policy |-> p, rules |-> reloads', conn |-> c]
<1>1. /\ configs' = configs /\ lockOf' = lockOf /\ search' = search /\ free' = free \ {c}
      /\ reloads' \in Nat /\ reload[r].conn = NoConn /\ c \in Conn /\ NoConn \notin free
  <2>1. /\ configs' = configs /\ lockOf' = lockOf /\ search' = search /\ free' = free \ {c}
        /\ reloads' = reloads + 1 /\ reload[r] = NoTask
    BY Zenon DEF admin_policy_db_reload, searchVars
  <2>2. reloads \in Nat /\ free \subseteq Conn
    BY Zenon DEF TenantInv
  <2>3. reload[r].conn = NoConn
    BY <2>1 DEF NoTask
  <2>4. QED
    BY <2>1, <2>2, <2>3, TenantAssumption
<1>2. x \in Reload /\ x.conn = c /\ x.at = "lock"
  BY Zenon, <1>1 DEF Reload
<1>3. reload' = [reload EXCEPT ![r] = x]
  BY Zenon DEF admin_policy_db_reload
<1> HIDE DEF x
<1>4. /\ reload' \in [Reloader -> Reload] /\ reload'[r] = x
      /\ \A q \in Reloader : q # r => reload'[q] = reload[q]
  BY Zenon, <1>2, <1>3, ReloadMoves
<1>5. OneUser'
  <2>1. OneUser
    BY Zenon DEF TenantInv
  <2>2. \A q \in Reloader : reload'[q].conn = IF q = r THEN c ELSE reload[q].conn
    BY Zenon, <1>2, <1>4
  <2>3. c \in free /\ c # NoConn
    BY Zenon, <1>1 DEF admin_policy_db_reload
  <2>4. QED
    <3>1. free' = free \ {c} /\ search' = search
      BY Zenon, <1>1
    <3>2. /\ \A q \in Reloader : reload'[q].conn \notin free' /\ (reload[q].conn # c)
          /\ \A s \in Searcher : search[s].conn \notin free' /\ search[s].conn # c
      BY Zenon, <2>1, <2>2, <2>3, <3>1 DEF OneUser
    <3>3. \A q, w \in Reloader : q # w /\ reload'[q].conn # NoConn => reload'[q].conn # reload'[w].conn
      BY Zenon, <2>1, <2>2, <3>2 DEF OneUser
    <3>4. \A q \in Reloader, s \in Searcher : reload'[q].conn # NoConn => reload'[q].conn # search[s].conn
      BY Zenon, <2>1, <2>2, <3>2 DEF OneUser
    <3>5. \A s, q \in Searcher : s # q /\ search[s].conn # NoConn => search[s].conn # search[q].conn
      BY Zenon, <2>1 DEF OneUser
    <3>6. QED
      BY Zenon, <3>1, <3>2, <3>3, <3>4, <3>5 DEF OneUser
<1>6. HoldsLock' /\ NextVersion'
  BY Zenon, <1>1, <1>2, <1>4 DEF TenantInv, HoldsLock, NextVersion
<1>7. QED
  BY Zenon, <1>1, <1>4, <1>5, <1>6 DEF TenantInv

\* A reload that waits takes the lock once it is free.
LEMMA ReloadLocks ==
    ASSUME TenantInv, NEW r \in Reloader, AdvisoryLock(r)
    PROVE  TenantInv' /\ configs' = configs
<1> DEFINE x == [reload[r] EXCEPT !.at = "insert"]
           pol == reload[r].policy
           con == reload[r].conn
<1>1. /\ configs' = configs /\ search' = search /\ free' = free /\ reloads' = reloads
      /\ lockOf' = [lockOf EXCEPT ![pol] = con] /\ lockOf[pol] = NoConn
      /\ lockOf \in [PolicyName -> Conn \cup {NoConn}] /\ reload \in [Reloader -> Reload]
  BY Zenon DEF TenantInv, AdvisoryLock, lock_is_free, searchVars
<1>2. reload[r] \in [at : {"lock", "insert"}, org : Org, policy : PolicyName, rules : Nat, conn : Conn]
  BY <1>1 DEF AdvisoryLock, Reload, NoTask
<1>3. /\ x \in Reload /\ x.conn = con /\ x.policy = pol /\ x.at = "insert"
      /\ pol \in PolicyName /\ con \in Conn
  BY Zenon, <1>2 DEF Reload
<1>4. reload' = [reload EXCEPT ![r] = x]
  BY Zenon, <1>1 DEF AdvisoryLock
<1> HIDE DEF x
<1>5. /\ reload' \in [Reloader -> Reload] /\ reload'[r] = x
      /\ \A q \in Reloader : q # r => reload'[q] = reload[q]
  BY Zenon, <1>3, <1>4, ReloadMoves
<1>6. \A q \in Reloader : reload'[q].conn = reload[q].conn
  BY Zenon, <1>3, <1>5
<1>7. OneUser'
  BY Zenon, <1>1, <1>6 DEF TenantInv, OneUser
<1> HIDE DEF pol, con
<1>8. ASSUME NEW q \in Reloader, reload'[q].at \in {"insert", "commit"}
      PROVE  lockOf'[reload'[q].policy] = reload'[q].conn
  <2>1. CASE q = r
    BY Zenon, <1>1, <1>3, <1>5, <2>1
  <2>2. CASE q # r
    <3>1. reload'[q] = reload[q] /\ lockOf[reload[q].policy] = reload[q].conn
      BY Zenon, <1>5, <1>8, <2>2 DEF TenantInv, HoldsLock
    <3>2. reload[q].conn \in Conn /\ reload[q].policy \in PolicyName
      <4>1. reload[q] \in Reload
        BY Zenon DEF TenantInv
      <4>2. QED
        BY Zenon, <1>8, <3>1, <4>1, BusyReload
    <3>3. reload[q].policy # pol
      BY Zenon, <1>1, <3>1, <3>2, TenantAssumption
    <3>4. QED
      BY Zenon, <1>1, <3>1, <3>2, <3>3
  <2>3. QED
    BY Zenon, <2>1, <2>2
<1>9. NextVersion'
  BY Zenon, <1>1, <1>3, <1>5 DEF TenantInv, NextVersion
<1>10. lockOf' \in [PolicyName -> Conn \cup {NoConn}]
  BY Zenon, <1>1, <1>3
<1>11. QED
  BY Zenon, <1>1, <1>5, <1>7, <1>8, <1>9, <1>10 DEF TenantInv, HoldsLock

\* The insert works out the version after the committed ones.
LEMMA ReloadInserts ==
    ASSUME TenantInv, NEW r \in Reloader, InsertConfig(r)
    PROVE  TenantInv' /\ configs' = configs
<1> DEFINE old == reload[r]
           v == version_after(old.org, old.policy)
           x == [at |-> "commit", org |-> old.org, policy |-> old.policy, rules |-> old.rules,
                 conn |-> old.conn, version |-> v]
<1>1. /\ configs' = configs /\ search' = search /\ free' = free /\ reloads' = reloads /\ lockOf' = lockOf
      /\ reload \in [Reloader -> Reload] /\ old.at = "insert"
  BY Zenon DEF TenantInv, InsertConfig, searchVars
<1>2. old \in [at : {"lock", "insert"}, org : Org, policy : PolicyName, rules : Nat, conn : Conn]
  BY Zenon, <1>1, BusyReload
<1>3. v \in Nat /\ \A c \in configs : c.org = old.org /\ c.policy = old.policy => c.version < v
  BY <1>2, VersionAbove, Zenon
<1>4. reload' = [reload EXCEPT ![r] = x]
  BY Zenon DEF InsertConfig
<1> HIDE DEF v
<1>5. /\ x \in Reload /\ x.conn = old.conn /\ x.policy = old.policy /\ x.at = "commit"
      /\ x.org = old.org /\ x.version = v
  BY Zenon, <1>2, <1>3 DEF Reload
<1> HIDE DEF x
<1>6. /\ reload' \in [Reloader -> Reload] /\ reload'[r] = x
      /\ \A q \in Reloader : q # r => reload'[q] = reload[q]
  BY Zenon, <1>4, <1>5, ReloadMoves
<1>7. \A q \in Reloader : reload'[q].conn = reload[q].conn
  BY Zenon, <1>5, <1>6
<1>8. OneUser'
  BY Zenon, <1>1, <1>7 DEF TenantInv, OneUser
<1>9. HoldsLock'
  BY Zenon, <1>1, <1>5, <1>6 DEF TenantInv, HoldsLock
<1>10. NextVersion'
  BY Zenon, <1>1, <1>3, <1>5, <1>6 DEF TenantInv, NextVersion
<1>11. QED
  BY Zenon, <1>1, <1>6, <1>8, <1>9, <1>10 DEF TenantInv

\* The end of a transaction gives back the lock and the connection, and no
\* other reload past its lock is at the same policy.
LEMMA LockReleased ==
    ASSUME TenantInv, NEW r \in Reloader, reload[r].at \in {"insert", "commit"},
           lockOf' = [lockOf EXCEPT ![reload[r].policy] = IF @ = reload[r].conn THEN NoConn ELSE @],
           free' = free \cup {reload[r].conn}, search' = search,
           NEW x \in Reload, x.conn = NoConn, x.at \notin {"insert", "commit"},
           reload' = [reload EXCEPT ![r] = x]
    PROVE  /\ free' \subseteq Conn /\ reload' \in [Reloader -> Reload]
           /\ lockOf' \in [PolicyName -> Conn \cup {NoConn}]
           /\ OneUser' /\ HoldsLock'
           /\ \A q \in Reloader : reload'[q].at = "commit" =>
                reload'[q] = reload[q] /\ reload[q].policy # reload[r].policy
<1> DEFINE pol == reload[r].policy
           con == reload[r].conn
<1>1. /\ reload \in [Reloader -> Reload] /\ lockOf \in [PolicyName -> Conn \cup {NoConn}]
      /\ free \subseteq Conn /\ search \in [Searcher -> Search]
  BY Zenon DEF TenantInv
<1>2. pol \in PolicyName /\ con \in Conn
  BY <1>1 DEF Reload, NoTask
<1>3. /\ reload' \in [Reloader -> Reload] /\ reload'[r] = x
      /\ \A q \in Reloader : q # r => reload'[q] = reload[q]
  BY Zenon, ReloadMoves
<1>4. lockOf[pol] = con
  BY Zenon DEF TenantInv, HoldsLock
<1>5. ASSUME NEW q \in Reloader, reload'[q].at \in {"insert", "commit"}
      PROVE  q # r /\ reload'[q] = reload[q] /\ reload[q].policy # pol
  <2>1. q # r /\ reload'[q] = reload[q]
    BY Zenon, <1>3, <1>5
  <2>2. lockOf[reload[q].policy] = reload[q].conn
    BY Zenon, <1>5, <2>1 DEF TenantInv, HoldsLock
  <2>3. reload[q].conn # con
    BY Zenon, <1>2, <2>1, TenantAssumption DEF TenantInv, OneUser
  <2>4. QED
    BY Zenon, <1>4, <2>1, <2>2, <2>3
<1> DEFINE lock == IF lockOf[pol] = con THEN NoConn ELSE lockOf[pol]
<1>6. lockOf' = [lockOf EXCEPT ![pol] = lock] /\ lock \in Conn \cup {NoConn}
  BY Zenon, <1>1, <1>2
<1> HIDE DEF pol, con, lock
<1>7. /\ lockOf' \in [PolicyName -> Conn \cup {NoConn}]
      /\ \A p \in PolicyName : p # pol => lockOf'[p] = lockOf[p]
  BY Zenon, <1>1, <1>6
<1>8. ASSUME NEW q \in Reloader, reload'[q].at \in {"insert", "commit"}
      PROVE  lockOf'[reload'[q].policy] = reload'[q].conn
  <2>1. reload'[q] = reload[q] /\ reload[q].policy # pol
    BY Zenon, <1>5, <1>8
  <2>2. reload[q].policy \in PolicyName
    BY <1>1, <1>8, <2>1 DEF Reload, NoTask
  <2>3. lockOf[reload[q].policy] = reload[q].conn
    BY Zenon, <1>8, <2>1 DEF TenantInv, HoldsLock
  <2>4. QED
    BY Zenon, <1>7, <2>1, <2>2, <2>3
<1>9. free' = free \cup {con} /\ reload[r].conn = con
  BY Zenon DEF con
<1>10. OneUser'
  BY Zenon, <1>1, <1>2, <1>3, <1>9, TenantAssumption DEF TenantInv, OneUser
<1>11. QED
  BY Zenon, <1>1, <1>2, <1>3, <1>5, <1>7, <1>8, <1>9, <1>10 DEF HoldsLock, pol

(* A reload that fails gives back its connection and its lock. *)
LEMMA ReloadEnds ==
    ASSUME TenantInv, NEW r \in Reloader, ReloadFails(r)
    PROVE  TenantInv' /\ configs' = configs
<1>1. /\ configs' = configs /\ search' = search /\ reloads' = reloads
      /\ reload' = [reload EXCEPT ![r] = NoTask] /\ free' = free \cup {reload[r].conn}
      /\ lockOf' = [lockOf EXCEPT ![reload[r].policy] = IF @ = reload[r].conn THEN NoConn ELSE @]
      /\ reload[r].at \in {"insert", "commit"}
  BY Zenon DEF ReloadFails, searchVars
<1>2. NoTask \in Reload /\ NoTask.conn = NoConn /\ NoTask.at \notin {"insert", "commit"}
  BY Zenon DEF NoTask, Reload
<1>3. /\ free' \subseteq Conn /\ reload' \in [Reloader -> Reload]
      /\ lockOf' \in [PolicyName -> Conn \cup {NoConn}]
      /\ OneUser' /\ HoldsLock'
      /\ \A q \in Reloader : reload'[q].at = "commit" =>
           reload'[q] = reload[q] /\ reload[q].policy # reload[r].policy
  BY Zenon, <1>1, <1>2, LockReleased
<1>4. NextVersion'
  BY Zenon, <1>1, <1>3 DEF TenantInv, NextVersion
<1>5. QED
  BY Zenon, <1>1, <1>3, <1>4 DEF TenantInv

\* The commit adds its row and keeps the others.
LEMMA ReloadCommits ==
    ASSUME TenantInv, NEW r \in Reloader, reload_policy_with_lock(r)
    PROVE  TenantInv' /\ configs \subseteq configs'
<1> DEFINE old == reload[r]
           row == [org |-> old.org, policy |-> old.policy, version |-> old.version, rules |-> old.rules]
           x == [old EXCEPT !.at = "readback", !.conn = NoConn]
<1>1. /\ search' = search /\ reloads' = reloads
      /\ reload' = [reload EXCEPT ![r] = x] /\ free' = free \cup {reload[r].conn}
      /\ lockOf' = [lockOf EXCEPT ![reload[r].policy] = IF @ = reload[r].conn THEN NoConn ELSE @]
      /\ reload[r].at = "commit" /\ configs' = {c \in configs : ~same_key(c, r)} \cup {row}
  BY Zenon DEF reload_policy_with_lock, searchVars
<1>2. old \in [at : {"commit"}, org : Org, policy : PolicyName, rules : Nat, conn : Conn, version : Nat]
  BY <1>1 DEF Reload, NoTask, TenantInv
<1>3. x \in Reload /\ x.conn = NoConn /\ x.at \notin {"insert", "commit"}
  <2>1. x \in [at : {"readback"}, org : Org, policy : PolicyName, rules : Nat, conn : {NoConn}, version : Nat]
    BY Zenon, <1>2
  <2> HIDE DEF x
  <2>2. QED
    BY Zenon, <2>1 DEF Reload
<1> HIDE DEF x
<1>4. /\ free' \subseteq Conn /\ reload' \in [Reloader -> Reload]
      /\ lockOf' \in [PolicyName -> Conn \cup {NoConn}]
      /\ OneUser' /\ HoldsLock'
      /\ \A q \in Reloader : reload'[q].at = "commit" =>
           reload'[q] = reload[q] /\ reload[q].policy # reload[r].policy
  BY Zenon, <1>1, <1>3, LockReleased
<1>5. row \in Config /\ row.policy = old.policy /\ row.version = old.version
  BY Zenon, <1>2 DEF Config
<1>6. ASSUME NEW c \in configs PROVE ~same_key(c, r)
  <2>1. c.org = old.org /\ c.policy = old.policy => c.version < old.version
    BY Zenon, <1>1 DEF TenantInv, NextVersion
  <2>2. c.version \in Nat /\ old.version \in Nat
    BY Zenon, <1>2 DEF TenantInv, Config
  <2>3. QED
    BY <2>1, <2>2 DEF same_key
<1>7. configs' = configs \cup {row}
  BY <1>1, <1>6, Zenon
<1> HIDE DEF row
<1>8. configs' \subseteq Config
  BY Zenon, <1>5, <1>7 DEF TenantInv
<1>9. \E n \in Nat : \A c \in configs' : c.version <= n
  <2>1. PICK n \in Nat : \A c \in configs : c.version <= n
    BY Zenon DEF TenantInv
  <2> DEFINE m == IF n <= old.version THEN old.version ELSE n
  <2>2. m \in Nat /\ n <= m /\ old.version <= m
    BY <1>2
  <2>3. \A c \in configs' : c.version <= m
    <3> HIDE DEF m
    <3>1. ASSUME NEW c \in configs' PROVE c.version <= m
      <4>1. CASE c \in configs
        <5>1. c.version \in Nat
          BY Zenon, <4>1 DEF TenantInv, Config
        <5>2. QED
          BY <2>1, <2>2, <4>1, <5>1
      <4>2. CASE c = row
        BY Zenon, <1>5, <2>2, <4>2
      <4>3. QED
        BY Zenon, <1>7, <4>1, <4>2
    <3>2. QED
      BY Zenon, <3>1
  <2>4. QED
    BY Zenon, <2>2, <2>3
<1>10. ASSUME NEW q \in Reloader, reload'[q].at = "commit", NEW c \in configs',
              c.org = reload'[q].org, c.policy = reload'[q].policy
       PROVE  c.version < reload'[q].version
  <2>1. reload'[q] = reload[q] /\ reload[q].policy # old.policy
    BY Zenon, <1>4, <1>10
  <2>2. c \in configs
    BY Zenon, <1>5, <1>7, <1>10, <2>1
  <2>3. QED
    BY Zenon, <1>10, <2>1, <2>2 DEF TenantInv, NextVersion
<1>11. QED
  BY Zenon, <1>1, <1>4, <1>7, <1>8, <1>9, <1>10 DEF TenantInv, NextVersion

(* A reload that answers leaves the rows alone. *)
LEMMA ReloadAnswers ==
    ASSUME TenantInv, NEW r \in Reloader, get_policy_config(r)
    PROVE  TenantInv' /\ configs' = configs
<1>1. /\ configs' = configs /\ search' = search /\ free' = free /\ reloads' = reloads /\ lockOf' = lockOf
      /\ reload' = [reload EXCEPT ![r] = NoTask] /\ reload \in [Reloader -> Reload]
      /\ reload[r].at = "readback"
  BY Zenon DEF TenantInv, get_policy_config, searchVars
<1>2. NoTask \in Reload /\ NoTask.conn = NoConn /\ NoTask.at = "idle"
  BY Zenon DEF NoTask, Reload
<1>3. reload[r].conn = NoConn
  BY Zenon, <1>1, BusyReload
<1>4. /\ reload' \in [Reloader -> Reload] /\ reload'[r] = NoTask
      /\ \A q \in Reloader : q # r => reload'[q] = reload[q]
  BY Zenon, <1>1, <1>2, ReloadMoves
<1>5. \A q \in Reloader : reload'[q].conn = reload[q].conn
  BY Zenon, <1>2, <1>3, <1>4
<1>6. OneUser'
  <2>1. OneUser
    BY Zenon DEF TenantInv
  <2>2. QED
    <3>1. free' = free /\ search' = search
      BY Zenon, <1>1
    <3>2. QED
      BY Zenon, <1>5, <2>1, <3>1 DEF OneUser
<1>7. HoldsLock' /\ NextVersion'
  BY Zenon, <1>1, <1>2, <1>4 DEF TenantInv, HoldsLock, NextVersion
<1>8. QED
  BY Zenon, <1>1, <1>4, <1>6, <1>7 DEF TenantInv

(* A step of a search or of a reload keeps the invariant and the rows that  *)
(* were written.                                                            *)
LEMMA TenantStep ==
    ASSUME TenantInv, [TenantNext]_tenantVars
    PROVE  TenantInv' /\ configs \subseteq configs'
<1>1. CASE UNCHANGED tenantVars
  BY Zenon, <1>1 DEF tenantVars, TenantInv, OneUser, HoldsLock, NextVersion
<1>2. CASE TenantNext
  BY Zenon, <1>2, SearchStep, ReloadBegins, ReloadLocks, ReloadInserts, ReloadCommits, ReloadEnds, ReloadAnswers
     DEF TenantNext
<1>3. QED
  BY Zenon, <1>1, <1>2

(* A reload of a policy adds a version and never writes over a row that     *)
(* another reload wrote, as the advisory lock is held from the read of the  *)
(* last version to the commit.                                              *)
THEOREM ReloadsKeepRows == TenantSpec => [][ReloadNotOverwritten]_tenantVars
<1>1. TenantInit => TenantInv
  BY Zenon, InitialTenants
<1>2. TenantInv /\ [TenantNext]_tenantVars => TenantInv'
  BY Zenon, TenantStep
<1>3. TenantInv /\ [TenantNext]_tenantVars => ReloadNotOverwritten
  BY Zenon, TenantStep DEF ReloadNotOverwritten
<1>4. QED
  BY <1>1, <1>2, <1>3, PTL DEF TenantSpec

\* The setting of a connection is a tenant or none; a search that is about to
\* query has its own tenant on its connection, and so far none saw another's.
OwnSetting ==
  /\ context \in [Conn -> Org \cup {NoOrgSet}]
  /\ \A s \in Searcher : search[s].at = "query" => context[search[s].conn] = search[s].org
  /\ SearchSeesOwnTenant

(* A search in progress has a connection, which no other search uses. *)
LEMMA BusySearch ==
    ASSUME TenantInv, NEW s \in Searcher, search[s].at \in {"query", "reset"}
    PROVE  search[s] \in [at : {"query", "reset"}, org : Org, conn : Conn]
<1>1. search[s] \in Search /\ NoTask.at = "idle"
  BY Zenon DEF TenantInv, NoTask
<1>2. search[s] # NoTask
  BY Zenon, <1>1
<1>3. QED
  BY Zenon, <1>1, <1>2 DEF Search

(* A request sets, queries and resets the setting of its own connection    *)
(* only, so no step puts another tenant under a search that will query.    *)
LEMMA OwnSettingKept ==
    ASSUME TenantInv, OwnSetting, [TenantNext]_tenantVars
    PROVE  OwnSetting'
<1>types. search \in [Searcher -> Search] /\ context \in [Conn -> Org \cup {NoOrgSet}] /\ free \subseteq Conn
  BY Zenon DEF TenantInv, OwnSetting
<1>1. ASSUME NEW s \in Searcher, NEW o \in Org, NEW c \in free, audit_fts_search(s, o, c) PROVE OwnSetting'
  <2>1. /\ context' = [context EXCEPT ![c] = o] /\ saw' = saw
        /\ search' = [search EXCEPT ![s] = [at |-> "query", org |-> o, conn |-> c]]
    BY Zenon, <1>1 DEF audit_fts_search
  <2>2. context' \in [Conn -> Org \cup {NoOrgSet}]
    BY Zenon, <1>types, <2>1
  <2>3. ASSUME NEW q \in Searcher, search'[q].at = "query" PROVE context'[search'[q].conn] = search'[q].org
    <3>1. CASE q = s
      BY Zenon, <1>types, <2>1, <3>1
    <3>2. CASE q # s
      <4>1. search'[q] = search[q]
        BY Zenon, <1>types, <2>1, <3>2
      <4>2. search[q].conn \in Conn /\ search[q].conn # c
        BY Zenon, <2>3, <4>1, BusySearch DEF TenantInv, OneUser
      <4>3. context'[search[q].conn] = context[search[q].conn]
        BY Zenon, <1>types, <2>1, <4>2
      <4>4. QED
        BY Zenon, <2>3, <4>1, <4>3 DEF OwnSetting
    <3>3. QED
      BY Zenon, <3>1, <3>2
  <2>4. QED
    BY Zenon, <2>1, <2>2, <2>3 DEF OwnSetting, SearchSeesOwnTenant
<1>2. ASSUME NEW s \in Searcher, search_audit_decisions_scoped(s) PROVE OwnSetting'
  <2>1. /\ context' = context /\ search[s].at = "query"
        /\ saw' = saw \cup {<<search[s].org, context[search[s].conn]>>}
        /\ search' = [search EXCEPT ![s].at = "reset"]
    BY Zenon, <1>2 DEF search_audit_decisions_scoped, queried_on
  <2>2. context[search[s].conn] = search[s].org
    BY Zenon, <2>1 DEF OwnSetting
  <2>3. SearchSeesOwnTenant'
    BY <2>1, <2>2 DEF OwnSetting, SearchSeesOwnTenant
  <2>4. ASSUME NEW q \in Searcher, search'[q].at = "query" PROVE q # s
    <3>1. search'[s].at = "reset"
      BY Zenon, <1>types, <2>1, BusySearch
    <3>2. QED
      BY Zenon, <2>4, <3>1
  <2>5. \A q \in Searcher : q # s => search'[q] = search[q]
    BY Zenon, <1>types, <2>1
  <2>6. QED
    BY Zenon, <2>1, <2>3, <2>4, <2>5 DEF OwnSetting
<1>3. ASSUME NEW s \in Searcher, SearchFails(s) \/ reset_tenant_context(s) PROVE OwnSetting'
  <2>1. /\ context' \in {context, [context EXCEPT ![search[s].conn] = NoOrgSet]} /\ saw' = saw
        /\ search' = [search EXCEPT ![s] = NoTask] /\ search[s].at \in {"query", "reset"}
    BY Zenon, <1>3 DEF SearchFails, reset_tenant_context
  <2>2. context' \in [Conn -> Org \cup {NoOrgSet}]
    BY Zenon, <1>types, <2>1
  <2>3. ASSUME NEW q \in Searcher, search'[q].at = "query" PROVE context'[search'[q].conn] = search'[q].org
    <3>1. q # s /\ search'[q] = search[q]
      BY Zenon, <1>types, <2>1, <2>3 DEF NoTask
    <3>2. search[q].conn \in Conn /\ search[q].conn # search[s].conn
      <4>1. search[q].conn \in Conn
        BY Zenon, <2>3, <3>1, BusySearch
      <4>2. search[q].conn # NoConn
        BY Zenon, <4>1, TenantAssumption
      <4>3. QED
        BY Zenon, <3>1, <4>1, <4>2 DEF TenantInv, OneUser
    <3>3. context'[search[q].conn] = context[search[q].conn]
      BY Zenon, <1>types, <2>1, <3>2
    <3>4. QED
      BY Zenon, <2>3, <3>1, <3>3 DEF OwnSetting
  <2>4. QED
    BY Zenon, <2>1, <2>2, <2>3 DEF OwnSetting, SearchSeesOwnTenant
<1>4. ASSUME context' = context, search' = search, saw' = saw PROVE OwnSetting'
  BY Zenon, <1>4 DEF OwnSetting, SearchSeesOwnTenant
<1>5. QED
  BY Zenon, <1>1, <1>2, <1>3, <1>4 DEF TenantNext, tenantVars, searchVars, admin_policy_db_reload, AdvisoryLock,
     InsertConfig, reload_policy_with_lock, ReloadFails, get_policy_config

(* A search reads the rows of the tenant it was asked for, and a connection *)
(* never serves a search and a reload at once, for any pool, although       *)
(* failed searches and resets leave their settings on the connections.      *)
THEOREM SearchesStayInTenant == TenantSpec => [](TenantTypeOK /\ SearchSeesOwnTenant)
<1>1. TenantInit => TenantInv /\ OwnSetting
  <2>1. TenantInit => OwnSetting
    BY DEF TenantInit, OwnSetting, SearchSeesOwnTenant, NoTask
  <2>2. QED
    BY Zenon, <2>1, InitialTenants
<1>2. TenantInv /\ OwnSetting /\ [TenantNext]_tenantVars => TenantInv' /\ OwnSetting'
  BY Zenon, TenantStep, OwnSettingKept
<1>3. TenantInv /\ OwnSetting => TenantTypeOK /\ SearchSeesOwnTenant
  <2>1. ASSUME TenantInv, NEW s \in Searcher PROVE search[s].conn \in Conn \cup {NoConn}
    <3>1. search[s] \in Search
      BY Zenon, <2>1 DEF TenantInv
    <3>2. CASE search[s] = NoTask
      BY <3>2 DEF NoTask
    <3>3. CASE search[s] \in [at : {"query", "reset"}, org : Org, conn : Conn]
      BY Zenon, <3>3
    <3>4. QED
      BY Zenon, <3>1, <3>2, <3>3 DEF Search
  <2>2. QED
    BY Zenon, <2>1 DEF TenantInv, OwnSetting, TenantTypeOK, OneUser
<1>4. QED
  BY <1>1, <1>2, <1>3, PTL DEF TenantSpec

-----------------------------------------------------------------------------
(* Recommendations and outcomes in SQLite. *)

SqlStatus == {"pending", "approved", "applied", "rejected", "reverted"}

\* A row of policy_adjustment_recommendations, and a call: one that goes on to
\* a decision carries one that is not "pending".
Row == [key : RecKey, status : SqlStatus, applied : Nat \cup {NoRow}, reverted : Nat \cup {NoRow}]
SqlCall ==
  {NoSqlCall} \cup [at : {"upserted"}, key : RecKey]
    \cup [at : {"has_id"}, key : RecKey, id : Nat]
    \cup [at : {"adjust"}, want : SqlStatus \ {"pending"}, id : Nat]
    \cup [at : {"adjusted"}, want : SqlStatus \ {"pending"}, id : Nat, adjustment : Nat \cup {NoRow}]

SqlInv ==
  /\ recRows \in Seq(Row) /\ adjustments \in Seq(Nat)
  /\ sqlCall \in [SqlCaller -> SqlCall]

Durable ==
  /\ \A i \in DOMAIN recRows :
       /\ i \in DOMAIN recRows' /\ recRows'[i].key = recRows[i].key
       /\ recRows[i].status # "pending" => recRows'[i].status # "pending"
  /\ \A a \in DOMAIN adjustments : a \in DOMAIN adjustments' /\ adjustments'[a] = adjustments[a]

(* A table that grows keeps its rows. *)
LEMMA RowsGrow ==
    ASSUME NEW S, NEW rows \in Seq(S), NEW row \in S, NEW new, new = rows \/ new = Append(rows, row)
    PROVE  new \in Seq(S) /\ \A i \in DOMAIN rows : i \in DOMAIN new /\ new[i] = rows[i]
<1>1. CASE new = rows
  BY Zenon, <1>1
<1>2. CASE new = Append(rows, row)
  <2>1. /\ new \in Seq(S) /\ Len(new) = Len(rows) + 1
        /\ \A i \in 1..Len(rows) : new[i] = rows[i]
    BY <1>2, AppendProperties
  <2>2. DOMAIN rows = 1..Len(rows) /\ DOMAIN new = 1..Len(new) /\ Len(rows) \in Nat
    BY Zenon, <2>1, LenProperties
  <2>3. QED
    BY <2>1, <2>2
<1>3. QED
  BY Zenon, <1>1, <1>2

(* A statement, a crash or a restart keeps the invariant and the rows of a  *)
(* file.                                                                    *)
LEMMA SqlStep ==
    ASSUME SqlInv, [SqlNext]_sqlVars
    PROVE  SqlInv' /\ (onFile \/ ~connect => Durable)
<1> DEFINE Kept == SqlInv' /\ (onFile \/ ~connect => Durable)
<1>1. ASSUME connect PROVE Kept
  BY <1>1 DEF connect, SqlInv, Durable, migrate, NoTables, SqlCall
<1>2. ASSUME NEW c \in SqlCaller, sqlite_upsert_recommendation(c) PROVE Kept
  <2>1. PICK key \in RecKey :
          /\ \/ recRows' = recRows
             \/ recRows' = Append(recRows, [key |-> key, status |-> "pending", applied |-> NoRow, reverted |-> NoRow])
          /\ sqlCall' = [sqlCall EXCEPT ![c] = [at |-> "upserted", key |-> key]]
    BY Zenon, <1>2 DEF sqlite_upsert_recommendation
  <2>2. sqlCall' \in [SqlCaller -> SqlCall]
    BY Zenon, <2>1 DEF SqlInv, SqlCall
  <2> DEFINE new == [key |-> key, status |-> "pending", applied |-> NoRow, reverted |-> NoRow]
  <2>3. recRows' \in Seq(Row) /\ \A i \in DOMAIN recRows : i \in DOMAIN recRows' /\ recRows'[i] = recRows[i]
    <3>1. new \in Row
      BY Zenon DEF Row, SqlStatus
    <3>2. recRows' = recRows \/ recRows' = Append(recRows, new)
      BY Zenon, <2>1
    <3> HIDE DEF new
    <3>3. recRows \in Seq(Row)
      BY Zenon DEF SqlInv
    <3>4. QED
      BY Zenon, <3>1, <3>2, <3>3, RowsGrow
  <2>4. QED
    BY Zenon, <1>2, <2>2, <2>3 DEF sqlite_upsert_recommendation, SqlInv, Durable
<1>3. ASSUME NEW c \in SqlCaller, ReadId(c) PROVE Kept
  <2>1. PICK i \in id_of_key(sqlCall[c].key) :
          sqlCall' = [sqlCall EXCEPT ![c] = [at |-> "has_id", key |-> @.key, id |-> i]]
    BY Zenon, <1>3 DEF ReadId
  <2>2. i \in Nat
    BY <2>1 DEF id_of_key, row_ids, SqlInv
  <2>3. sqlCall[c].key \in RecKey
    <3>1. sqlCall[c] \in SqlCall /\ sqlCall[c].at = "upserted"
      BY Zenon, <1>3 DEF ReadId, SqlInv
    <3>2. sqlCall[c] \in [at : {"upserted"}, key : RecKey]
      BY <3>1 DEF SqlCall, NoSqlCall
    <3>3. QED
      BY Zenon, <3>2
  <2>4. sqlCall' \in [SqlCaller -> SqlCall]
    BY Zenon, <2>1, <2>2, <2>3 DEF SqlInv, SqlCall
  <2>5. QED
    BY Zenon, <1>3, <2>4 DEF ReadId, SqlInv, Durable
<1>4. ASSUME NEW c \in SqlCaller, Answer(c) \/ StatementFails(c) PROVE Kept
  BY Zenon, <1>4 DEF Answer, StatementFails, SqlInv, Durable, SqlCall
<1>5. ASSUME NEW c \in SqlCaller, sqlite_get_recommendation(c) PROVE Kept
  <2>1. PICK i \in DOMAIN recRows :
          \/ \E want \in {"approved", "applied"} :
               sqlCall' = [sqlCall EXCEPT ![c] = [at |-> "adjust", want |-> want, id |-> i]]
          \/ sqlCall' = [sqlCall EXCEPT ![c] = [at |-> "adjust", want |-> "reverted", id |-> i]]
          \/ sqlCall' = [sqlCall EXCEPT ![c] = Adjusted("rejected", i, NoRow)]
    BY Zenon, <1>5 DEF sqlite_get_recommendation
  <2>2. i \in Nat
    BY <2>1 DEF SqlInv
  <2>3. sqlCall' \in [SqlCaller -> SqlCall]
    <3>1. sqlCall \in [SqlCaller -> SqlCall]
      BY Zenon DEF SqlInv
    <3>2. \A w \in {"approved", "applied", "reverted"} : [at |-> "adjust", want |-> w, id |-> i] \in SqlCall
      BY Zenon, <2>2 DEF SqlCall, SqlStatus
    <3>3. Adjusted("rejected", i, NoRow) \in SqlCall
      BY Zenon, <2>2 DEF SqlCall, SqlStatus, Adjusted
    <3>4. QED
      BY Zenon, <2>1, <3>1, <3>2, <3>3
  <2>4. QED
    BY Zenon, <1>5, <2>3 DEF sqlite_get_recommendation, SqlInv, Durable
<1>6. ASSUME NEW c \in SqlCaller, insert_policy_adjustment(c) PROVE Kept
  <2>1. sqlCall[c].want \in SqlStatus \ {"pending"} /\ sqlCall[c].id \in Nat
    BY <1>6 DEF insert_policy_adjustment, SqlInv, SqlCall, NoSqlCall
  <2>2. PICK a \in Nat \cup {NoRow} :
          sqlCall' = [sqlCall EXCEPT ![c] = Adjusted(sqlCall[c].want, sqlCall[c].id, a)]
    <3>1. \/ sqlCall' = [sqlCall EXCEPT ![c] = Adjusted(sqlCall[c].want, sqlCall[c].id, Len(adjustments) + 1)]
          \/ sqlCall' = [sqlCall EXCEPT ![c] = Adjusted(sqlCall[c].want, sqlCall[c].id, NoRow)]
      BY <1>6, Zenon DEF insert_policy_adjustment
    <3>2. Len(adjustments) + 1 \in Nat
      BY DEF SqlInv
    <3>3. QED
      BY Zenon, <3>1, <3>2
  <2>3. sqlCall' \in [SqlCaller -> SqlCall]
    BY Zenon, <2>1, <2>2 DEF SqlInv, SqlCall, Adjusted
  <2>4. adjustments' \in Seq(Nat) /\ \A a1 \in DOMAIN adjustments : a1 \in DOMAIN adjustments' /\ adjustments'[a1] = adjustments[a1]
    <3>1. adjustments \in Seq(Nat)
      BY Zenon DEF SqlInv
    <3> DEFINE d == sqlCall[c].id
               new == adjustments'
    <3>2. d \in Nat /\ (new = adjustments \/ new = Append(adjustments, d))
      BY Zenon, <1>6, <2>1 DEF insert_policy_adjustment
    <3> HIDE DEF d, new
    <3>3. new \in Seq(Nat) /\ \A a1 \in DOMAIN adjustments : a1 \in DOMAIN new /\ new[a1] = adjustments[a1]
      BY Zenon, <3>1, <3>2, RowsGrow
    <3>4. QED
      BY Zenon, <3>3 DEF new
  <2>5. QED
    BY Zenon, <1>6, <2>3, <2>4 DEF insert_policy_adjustment, SqlInv, Durable
<1>7. ASSUME NEW c \in SqlCaller, sqlite_decide_recommendation(c) \/ sqlite_mark_reverted(c) PROVE Kept
  <2> DEFINE d == sqlCall[c].id
             a == sqlCall[c].adjustment
             w == sqlCall[c].want
  <2>1. w \in SqlStatus \ {"pending"} /\ a \in Nat \cup {NoRow}
    BY <1>7 DEF sqlite_decide_recommendation, sqlite_mark_reverted, SqlInv, SqlCall, NoSqlCall
  <2>2. PICK row : /\ recRows' = [recRows EXCEPT ![d] = row]
                   /\ d \in DOMAIN recRows => row \in Row /\ row.key = recRows[d].key /\ row.status # "pending"
    <3>1. CASE sqlite_decide_recommendation(c)
      <4> DEFINE new == [recRows[d] EXCEPT !.status = w, !.applied = coalesce(a, recRows[d].applied)]
      <4>1. recRows' = [recRows EXCEPT ![d] = new]
        BY Zenon, <3>1 DEF sqlite_decide_recommendation, adjustment_of, SqlInv
      <4>2. d \in DOMAIN recRows => new \in Row /\ new.key = recRows[d].key /\ new.status # "pending"
        <5> HIDE DEF d, a, w
        <5>1. d \in DOMAIN recRows => recRows[d] \in Row
          BY DEF SqlInv
        <5>2. QED
          BY Zenon, <5>1, <2>1 DEF Row, coalesce, SqlStatus
      <4>3. QED
        BY Zenon, <4>1, <4>2
    <3>2. CASE sqlite_mark_reverted(c)
      <4> DEFINE new == [recRows[d] EXCEPT !.status = "reverted", !.reverted = coalesce(a, recRows[d].reverted)]
      <4>1. recRows' = [recRows EXCEPT ![d] = new]
        BY Zenon, <3>2 DEF sqlite_mark_reverted, adjustment_of, SqlInv
      <4>2. d \in DOMAIN recRows => new \in Row /\ new.key = recRows[d].key /\ new.status # "pending"
        <5> HIDE DEF d, a, w
        <5>1. d \in DOMAIN recRows => recRows[d] \in Row
          BY DEF SqlInv
        <5>2. QED
          BY Zenon, <5>1, <2>1 DEF Row, coalesce, SqlStatus
      <4>3. QED
        BY Zenon, <4>1, <4>2
    <3>3. QED
      BY Zenon, <1>7, <3>1, <3>2
  <2> HIDE DEF d
  <2>3. recRows' \in Seq(Row)
    <3>1. recRows \in Seq(Row) /\ DOMAIN recRows = 1..Len(recRows)
      BY DEF SqlInv
    <3>2. CASE d \in DOMAIN recRows
      BY Zenon, <2>2, <3>1, <3>2, ExceptSeq
    <3>3. CASE d \notin DOMAIN recRows
      <4>1. recRows' = recRows
        BY <2>2, <3>1, <3>3
      <4>2. QED
        BY Zenon, <4>1, <3>1
    <3>4. QED
      BY Zenon, <3>2, <3>3
  <2>4. ASSUME NEW i \in DOMAIN recRows
        PROVE  /\ i \in DOMAIN recRows' /\ recRows'[i].key = recRows[i].key
               /\ recRows[i].status # "pending" => recRows'[i].status # "pending"
    BY Zenon, <2>2 DEF SqlInv
  <2>5. sqlCall' \in [SqlCaller -> SqlCall] /\ adjustments' = adjustments
    BY Zenon, <1>7 DEF sqlite_decide_recommendation, sqlite_mark_reverted, SqlInv, SqlCall
  <2>6. QED
    BY Zenon, <2>3, <2>4, <2>5 DEF SqlInv, Durable
<1>8. ASSUME UNCHANGED sqlVars PROVE Kept
  BY Zenon, <1>8 DEF sqlVars, SqlInv, Durable
<1>9. QED
  BY Zenon, <1>1, <1>2, <1>3, <1>4, <1>5, <1>6, <1>7, <1>8 DEF SqlNext

(* At the start the tables are empty. *)
LEMMA InitialTables == ASSUME SqlInit PROVE SqlInv
  BY DEF SqlInit, SqlInv, NoTables, SqlCall

\* In a file, decisions and adjustments survive every call and every restart.
THEOREM TablesAreDurable == SqlSpec => [][DecisionsDurable]_sqlVars
<1>1. SqlInit => SqlInv
  BY Zenon, InitialTables
<1>2. SqlInv /\ [SqlNext]_sqlVars => SqlInv'
  BY Zenon, SqlStep
<1>3. SqlInv /\ [SqlNext]_sqlVars => DecisionsDurable
  BY Zenon, SqlStep DEF Durable, DecisionsDurable
<1>4. QED
  BY <1>1, <1>2, <1>3, PTL DEF SqlSpec

\* The rows a call goes by exist: the row whose id an upsert read has its key,
\* and the adjustment a decision will name was recorded for its row.
Refers(c) ==
  LET call == sqlCall[c] IN
  /\ call.at = "has_id" => call.id \in DOMAIN recRows /\ recRows[call.id].key = call.key
  /\ call.at \in {"adjust", "adjusted"} => call.id \in DOMAIN recRows
  /\ call.at = "adjusted" /\ call.adjustment # NoRow =>
       call.adjustment \in DOMAIN adjustments /\ adjustments[call.adjustment] = call.id

RefsInv == (\A c \in SqlCaller : Refers(c)) /\ AdjustmentsTraceable

(* Rows and adjustments that stay are still what the other calls go by. *)
LEMMA OthersRefer ==
    ASSUME SqlInv, RefsInv, Durable, NEW c \in SqlCaller, Refers(c)',
           \A q \in SqlCaller : q # c => sqlCall'[q] = sqlCall[q]
    PROVE  \A q \in SqlCaller : Refers(q)'
<1>1. ASSUME NEW q \in SqlCaller, q # c PROVE Refers(q)'
  <2>1. sqlCall'[q] = sqlCall[q] /\ Refers(q)
    BY Zenon, <1>1 DEF RefsInv
  <2>2. QED
    BY Zenon, <2>1 DEF Refers, Durable
<1>2. QED
  BY Zenon, <1>1

(* Rows that name the same adjustments as before name recorded ones. *)
LEMMA RowsTraceable ==
    ASSUME RefsInv, Durable,
           \A i \in DOMAIN recRows' : \A a \in {recRows'[i].applied, recRows'[i].reverted} :
             \/ a = NoRow
             \/ i \in DOMAIN recRows /\ a \in {recRows[i].applied, recRows[i].reverted}
             \/ a \in DOMAIN adjustments /\ adjustments[a] = i
    PROVE  AdjustmentsTraceable'
<1>1. ASSUME NEW i \in DOMAIN recRows', NEW a \in {recRows'[i].applied, recRows'[i].reverted}, a # NoRow
      PROVE  a \in DOMAIN adjustments' /\ adjustments'[a] = i
  <2>1. a \in DOMAIN adjustments /\ adjustments[a] = i
    <3>1. CASE i \in DOMAIN recRows /\ a \in {recRows[i].applied, recRows[i].reverted}
      BY Zenon, <1>1, <3>1 DEF RefsInv, AdjustmentsTraceable
    <3>2. QED
      BY Zenon, <1>1, <3>1
  <2>2. QED
    BY Zenon, <2>1 DEF Durable
<1>2. QED
  BY Zenon, <1>1 DEF AdjustmentsTraceable

(* A statement keeps the rows that rows refer to. *)
LEMMA RefsKept ==
    ASSUME SqlInv, RefsInv, [SqlNext]_sqlVars
    PROVE  RefsInv'
<1>types. recRows \in Seq(Row) /\ adjustments \in Seq(Nat) /\ sqlCall \in [SqlCaller -> SqlCall]
  BY Zenon DEF SqlInv
<1>idle. NoSqlCall.at = "idle"
  BY Zenon DEF NoSqlCall
<1>1. ASSUME connect PROVE RefsInv'
  <2>1. \A c \in SqlCaller : Refers(c)'
    BY Zenon, <1>1, <1>idle DEF connect, Refers
  <2>2. AdjustmentsTraceable'
    <3>1. CASE onFile
      BY Zenon, <1>1, <3>1 DEF connect, migrate, RefsInv, AdjustmentsTraceable
    <3>2. CASE ~onFile
      BY <1>1, <3>2 DEF connect, migrate, NoTables, AdjustmentsTraceable
    <3>3. QED
      BY Zenon, <3>1, <3>2
  <2>3. QED
    BY Zenon, <2>1, <2>2 DEF RefsInv
<1>kept. ASSUME ~connect PROVE Durable
  BY Zenon, <1>kept, SqlStep
<1>2. ASSUME NEW c \in SqlCaller, sqlite_upsert_recommendation(c), Durable PROVE RefsInv'
  <2>1. PICK key \in RecKey :
          /\ \/ recRows' = recRows
             \/ recRows' = Append(recRows, [key |-> key, status |-> "pending", applied |-> NoRow, reverted |-> NoRow])
          /\ sqlCall' = [sqlCall EXCEPT ![c] = [at |-> "upserted", key |-> key]]
    BY Zenon, <1>2 DEF sqlite_upsert_recommendation
  <2>2. sqlCall'[c].at = "upserted" /\ \A q \in SqlCaller : q # c => sqlCall'[q] = sqlCall[q]
    BY Zenon, <1>types, <2>1
  <2>3. Refers(c)'
    BY Zenon, <2>2 DEF Refers
  <2>4. ASSUME NEW i \in DOMAIN recRows', NEW a \in {recRows'[i].applied, recRows'[i].reverted}
        PROVE  a = NoRow \/ (i \in DOMAIN recRows /\ a \in {recRows[i].applied, recRows[i].reverted})
    <3> DEFINE new == [key |-> key, status |-> "pending", applied |-> NoRow, reverted |-> NoRow]
    <3>1. new.applied = NoRow /\ new.reverted = NoRow /\ (recRows' = recRows \/ recRows' = Append(recRows, new))
      BY Zenon, <2>1
    <3> HIDE DEF new
    <3>2. (i \in DOMAIN recRows /\ recRows'[i] = recRows[i]) \/ recRows'[i] = new
      BY <1>types, <2>4, <3>1
    <3>3. QED
      BY Zenon, <2>4, <3>1, <3>2
  <2>5. AdjustmentsTraceable'
    BY Zenon, <1>2, <2>4, RowsTraceable
  <2>6. QED
    BY Zenon, <1>2, <2>2, <2>3, <2>5, OthersRefer DEF RefsInv
<1>same. ASSUME recRows' = recRows, Durable PROVE AdjustmentsTraceable'
  BY Zenon, <1>same, RowsTraceable
<1>3. ASSUME NEW c \in SqlCaller, ReadId(c), Durable PROVE RefsInv'
  <2>1. PICK i \in id_of_key(sqlCall[c].key) :
          sqlCall' = [sqlCall EXCEPT ![c] = [at |-> "has_id", key |-> sqlCall[c].key, id |-> i]]
    BY Zenon, <1>3 DEF ReadId
  <2>2. /\ sqlCall'[c] = [at |-> "has_id", key |-> sqlCall[c].key, id |-> i]
        /\ \A q \in SqlCaller : q # c => sqlCall'[q] = sqlCall[q]
    BY Zenon, <1>types, <2>1
  <2>3. recRows' = recRows /\ i \in DOMAIN recRows /\ recRows[i].key = sqlCall[c].key
    BY Zenon, <1>3, <2>1 DEF ReadId, id_of_key, row_ids
  <2>4. Refers(c)'
    <3>1. sqlCall'[c].at = "has_id" /\ sqlCall'[c].key = sqlCall[c].key /\ sqlCall'[c].id = i
      BY <2>2
    <3>2. QED
      BY Zenon, <2>3, <3>1 DEF Refers
  <2>5. QED
    BY Zenon, <1>3, <1>same, <2>2, <2>3, <2>4, OthersRefer DEF RefsInv
<1>4. ASSUME NEW c \in SqlCaller, Answer(c) \/ StatementFails(c), Durable PROVE RefsInv'
  <2>1. recRows' = recRows /\ sqlCall' = [sqlCall EXCEPT ![c] = NoSqlCall]
    BY Zenon, <1>4 DEF Answer, StatementFails
  <2>2. sqlCall'[c] = NoSqlCall /\ \A q \in SqlCaller : q # c => sqlCall'[q] = sqlCall[q]
    BY Zenon, <1>types, <2>1
  <2>3. Refers(c)'
    BY Zenon, <1>idle, <2>2 DEF Refers
  <2>4. QED
    BY Zenon, <1>4, <1>same, <2>1, <2>2, <2>3, OthersRefer DEF RefsInv
<1>5. ASSUME NEW c \in SqlCaller, sqlite_get_recommendation(c), Durable PROVE RefsInv'
  <2>1. PICK i \in DOMAIN recRows :
          \/ \E want \in {"approved", "applied", "reverted"} :
               sqlCall' = [sqlCall EXCEPT ![c] = [at |-> "adjust", want |-> want, id |-> i]]
          \/ sqlCall' = [sqlCall EXCEPT ![c] = Adjusted("rejected", i, NoRow)]
    BY Zenon, <1>5 DEF sqlite_get_recommendation
  <2>2. recRows' = recRows
    BY Zenon, <1>5 DEF sqlite_get_recommendation
  <2>3. /\ \/ sqlCall'[c].at = "adjust" /\ sqlCall'[c].id = i
           \/ sqlCall'[c].at = "adjusted" /\ sqlCall'[c].id = i /\ sqlCall'[c].adjustment = NoRow
        /\ \A q \in SqlCaller : q # c => sqlCall'[q] = sqlCall[q]
    <3>1. /\ \/ \E want \in {"approved", "applied", "reverted"} :
                  sqlCall'[c] = [at |-> "adjust", want |-> want, id |-> i]
             \/ sqlCall'[c] = Adjusted("rejected", i, NoRow)
          /\ \A q \in SqlCaller : q # c => sqlCall'[q] = sqlCall[q]
      BY Zenon, <1>types, <2>1
    <3>2. QED
      BY <3>1 DEF Adjusted
  <2>4. Refers(c)'
    BY Zenon, <2>2, <2>3 DEF Refers
  <2>5. QED
    BY Zenon, <1>5, <1>same, <2>2, <2>3, <2>4, OthersRefer DEF RefsInv
<1>6. ASSUME NEW c \in SqlCaller, insert_policy_adjustment(c), Durable PROVE RefsInv'
  <2> DEFINE d == sqlCall[c].id
             n == Len(adjustments) + 1
  <2>1. /\ recRows' = recRows /\ d \in DOMAIN recRows
        /\ \/ /\ adjustments' = Append(adjustments, d)
              /\ sqlCall' = [sqlCall EXCEPT ![c] = Adjusted(sqlCall[c].want, d, n)]
           \/ sqlCall' = [sqlCall EXCEPT ![c] = Adjusted(sqlCall[c].want, d, NoRow)]
    BY Zenon, <1>6 DEF insert_policy_adjustment, RefsInv, Refers
  <2>2. n \in DOMAIN Append(adjustments, d) /\ Append(adjustments, d)[n] = d
    BY <1>types
  <2> HIDE DEF d, n
  <2>3. /\ sqlCall'[c].at = "adjusted" /\ sqlCall'[c].id = d
        /\ \/ sqlCall'[c].adjustment = NoRow
           \/ sqlCall'[c].adjustment = n /\ adjustments' = Append(adjustments, d)
        /\ \A q \in SqlCaller : q # c => sqlCall'[q] = sqlCall[q]
    <3>1. /\ \/ sqlCall'[c] = Adjusted(sqlCall[c].want, d, n) /\ adjustments' = Append(adjustments, d)
             \/ sqlCall'[c] = Adjusted(sqlCall[c].want, d, NoRow)
          /\ \A q \in SqlCaller : q # c => sqlCall'[q] = sqlCall[q]
      BY Zenon, <1>types, <2>1
    <3>2. QED
      BY <3>1 DEF Adjusted
  <2>4. Refers(c)'
    BY Zenon, <2>1, <2>2, <2>3 DEF Refers
  <2>5. QED
    BY Zenon, <1>6, <1>same, <2>1, <2>3, <2>4, OthersRefer DEF RefsInv
<1>7. ASSUME NEW c \in SqlCaller, sqlite_decide_recommendation(c) \/ sqlite_mark_reverted(c), Durable PROVE RefsInv'
  <2> DEFINE d == sqlCall[c].id
             a == sqlCall[c].adjustment
  <2>1. d \in DOMAIN recRows /\ (a # NoRow => a \in DOMAIN adjustments /\ adjustments[a] = d)
    BY Zenon, <1>7 DEF sqlite_decide_recommendation, sqlite_mark_reverted, RefsInv, Refers
  <2>2. recRows[d] \in Row
    BY <1>types, <2>1
  <2>3. /\ sqlCall' = [sqlCall EXCEPT ![c] = NoSqlCall]
        /\ \/ recRows' = [recRows EXCEPT ![d].status = sqlCall[c].want, ![d].applied = coalesce(a, @)]
           \/ recRows' = [recRows EXCEPT ![d].status = "reverted", ![d].reverted = coalesce(a, @)]
    BY Zenon, <1>7 DEF sqlite_decide_recommendation, sqlite_mark_reverted, adjustment_of
  <2> HIDE DEF d, a
  <2>4. /\ DOMAIN recRows' = DOMAIN recRows
        /\ \A i \in DOMAIN recRows : i # d => recRows'[i] = recRows[i]
        /\ recRows'[d].applied \in {recRows[d].applied, coalesce(a, recRows[d].applied)}
        /\ recRows'[d].reverted \in {recRows[d].reverted, coalesce(a, recRows[d].reverted)}
    BY Zenon, <2>1, <2>2, <2>3 DEF Row
  <2>5. \A i \in DOMAIN recRows' : \A b \in {recRows'[i].applied, recRows'[i].reverted} :
             \/ b = NoRow
             \/ i \in DOMAIN recRows /\ b \in {recRows[i].applied, recRows[i].reverted}
             \/ b \in DOMAIN adjustments /\ adjustments[b] = i
    BY Zenon, <2>1, <2>4 DEF coalesce
  <2>6. AdjustmentsTraceable'
    BY Zenon, <1>7, <2>5, RowsTraceable
  <2>7. sqlCall'[c] = NoSqlCall /\ \A q \in SqlCaller : q # c => sqlCall'[q] = sqlCall[q]
    BY Zenon, <1>types, <2>3
  <2>8. Refers(c)'
    BY Zenon, <1>idle, <2>7 DEF Refers
  <2>9. QED
    BY Zenon, <1>7, <2>6, <2>7, <2>8, OthersRefer DEF RefsInv
<1>8. ASSUME UNCHANGED sqlVars PROVE RefsInv'
  BY Zenon, <1>8 DEF sqlVars, RefsInv, Refers, AdjustmentsTraceable
<1>9. QED
  BY Zenon, <1>kept, <1>1, <1>2, <1>3, <1>4, <1>5, <1>6, <1>7, <1>8 DEF SqlNext

(* In a file and in memory, the id an upsert returns is that of the row    *)
(* with the caller's key, and every adjustment a recommendation names was  *)
(* recorded for it, however calls overlap, fail and are cut off.           *)
THEOREM RowsNameTheirOwn == SqlSpec => [](UpsertReturnsOwnId /\ AdjustmentsTraceable)
<1>1. SqlInit => SqlInv /\ RefsInv
  <2>1. ASSUME SqlInit PROVE RefsInv
    <3>1. \A c \in SqlCaller : sqlCall[c].at = "idle"
      BY <2>1 DEF SqlInit, NoSqlCall
    <3>2. DOMAIN recRows = {}
      BY <2>1 DEF SqlInit, NoTables
    <3>3. QED
      BY Zenon, <3>1, <3>2 DEF RefsInv, Refers, AdjustmentsTraceable
  <2>2. QED
    BY Zenon, <2>1, InitialTables
<1>2. SqlInv /\ RefsInv /\ [SqlNext]_sqlVars => SqlInv' /\ RefsInv'
  BY Zenon, SqlStep, RefsKept
<1>3. RefsInv => UpsertReturnsOwnId /\ AdjustmentsTraceable
  BY Zenon DEF RefsInv, Refers, UpsertReturnsOwnId
<1>4. QED
  BY <1>1, <1>2, <1>3, PTL DEF SqlSpec


-----------------------------------------------------------------------------
(* Versions of an agent. *)

\* Versions as the store may hold them, and what a person need not look at.
Goals == {b.goal : b \in Snapshot \cup Proposal} \cup {g.goal : g \in SessionGoal}
Embeddings == {b.emb : b \in Snapshot \cup Proposal} \cup {g.emb : g \in SessionGoal}
Generations == {b.gen : b \in Snapshot \cup Proposal}
Thresholds == [Limit -> Nat \cup {NoValue}]
AnyVersion == [number : Int, goal : Goals, emb : Embeddings, gen : Generations, limits : Thresholds]

CloseTo(old, new, decision) ==
  promoted(decision) =>
    /\ new.goal = old.goal
    /\ \A k \in Limit : new.limits[k] # NoValue =>
         5 * or_zero(new.limits[k]) \in (4 * or_zero(old.limits[k]))..(6 * or_zero(old.limits[k]))
    /\ decision = "Approve" => new.gen = old.gen

Decisions == {"Approve", "RequireHumanApproval", "Reject", "GradualRollout"}
LineageEntry == {e \in [old : AnyVersion, new : AnyVersion, decision : Decisions] : CloseTo(e.old, e.new, e.decision)}
Undecided == [at : {"baseline", "decide"}, old : AnyVersion, new : AnyVersion]
DecidedRequest == {r \in [at : {"store", "raise", "record"}, old : AnyVersion, new : AnyVersion, decision : Decisions] :
              CloseTo(r.old, r.new, r.decision)}

\* Every request past its decision, and every entry of the lineage, is close
\* to what it was compared with if it was promoted.
VersionsInv ==
  /\ counter \in Int
  /\ inForce # NoVersion => inForce \in AnyVersion
  /\ request \in [Submitter -> {Waiting} \cup Undecided \cup DecidedRequest]
  /\ lineage \in Seq(LineageEntry)

(* A step within a fifth of the old threshold. *)
LEMMA SmallDelta ==
    ASSUME NEW o \in Nat, NEW n \in Nat, ~large_delta(o, n)
    PROVE  5 * n \in (4 * o)..(6 * o)
<1>1. CASE o = 0
  BY <1>1 DEF large_delta
<1>2. CASE o # 0 /\ n > o
  <2>1. ~(100 * (n - o) > 20 * o)
    BY <1>2 DEF large_delta
  <2>2. QED
    BY <1>2, <2>1
<1>3. CASE o # 0 /\ ~(n > o)
  <2>1. ~(100 * (o - n) > 20 * o)
    BY <1>3 DEF large_delta
  <2>2. QED
    BY <1>3, <2>1
<1>4. QED
  BY <1>1, <1>2, <1>3

(* What is promoted without a person is close to its baseline. *)
LEMMA DecisionIsClose ==
    ASSUME NEW old \in AnyVersion, NEW new \in AnyVersion
    PROVE  /\ validate_improvement_full(old, new) \in Decisions
           /\ CloseTo(old, new, validate_improvement_full(old, new))
<1> DEFINE d == compute_diff(old, new)
           v == validate_improvement_full(old, new)
<1>1. /\ d.goal_changed = (old.goal # new.goal) /\ d.replaced = (old.gen # new.gen)
      /\ d.deltas = threshold_deltas(old, new)
  BY Zenon DEF compute_diff
<1>2. v = IF is_trivial_noop(d) THEN "Approve"
          ELSE IF changes_core_behavior(d) \/ has_large_threshold_delta(d) THEN "RequireHumanApproval"
          ELSE IF ~gate_passed(old, new) \/ ~sandbox_check(old, new, d) THEN "Reject"
          ELSE "GradualRollout"
  BY Zenon DEF validate_improvement_full
<1> HIDE DEF d, v
<1>3. v \in Decisions
  BY Zenon, <1>2 DEF Decisions
<1>4. /\ v = "Approve" => is_trivial_noop(d)
      /\ v = "GradualRollout" => ~changes_core_behavior(d) /\ ~has_large_threshold_delta(d)
  <2> DEFINE a == is_trivial_noop(d)
             b == changes_core_behavior(d) \/ has_large_threshold_delta(d)
             c == ~gate_passed(old, new) \/ ~sandbox_check(old, new, d)
  <2>1. v = IF a THEN "Approve" ELSE IF b THEN "RequireHumanApproval" ELSE IF c THEN "Reject" ELSE "GradualRollout"
    BY Zenon, <1>2
  <2> HIDE DEF a, b, c
  <2>2. (v = "Approve" => a) /\ (v = "GradualRollout" => ~b)
    BY <2>1
  <2>3. QED
    BY Zenon, <2>2 DEF a, b
<1>5. ASSUME promoted(v)
      PROVE  ~d.goal_changed /\ ~has_large_threshold_delta(d) /\ (v = "Approve" => ~d.replaced)
  <2>1. CASE v = "Approve"
    <3>1. ~d.goal_changed /\ ~d.replaced /\ d.deltas = {}
      BY Zenon, <1>4, <2>1 DEF is_trivial_noop
    <3>2. QED
      BY Zenon, <3>1 DEF has_large_threshold_delta
  <2>2. CASE v = "GradualRollout"
    <3>1. ~d.goal_changed /\ ~has_large_threshold_delta(d)
      BY Zenon, <1>4, <2>2 DEF changes_core_behavior
    <3>2. v # "Approve"
      BY <2>2
    <3>3. QED
      BY Zenon, <3>1, <3>2
  <2>3. QED
    BY Zenon, <1>5, <2>1, <2>2 DEF promoted
<1>6. ASSUME NEW k \in Limit, ~has_large_threshold_delta(d), new.limits[k] # NoValue
      PROVE  5 * or_zero(new.limits[k]) \in (4 * or_zero(old.limits[k]))..(6 * or_zero(old.limits[k]))
  <2> DEFINE o == or_zero(old.limits[k])
             n == new.limits[k]
  <2>1. old.limits[k] \in Nat \cup {NoValue} /\ n \in Nat \cup {NoValue}
    BY Zenon DEF AnyVersion, Thresholds
  <2>2. 0 \in Nat
    OBVIOUS
  <2>3. o \in Nat /\ n \in Nat /\ or_zero(n) = n
    BY Zenon, <1>6, <2>1, <2>2 DEF or_zero
  <2>4. CASE n = o
    <3> HIDE DEF n, o
    <3>1. 5 * n \in (4 * o)..(6 * o)
      BY <2>3, <2>4
    <3>2. QED
      BY Zenon, <2>3, <3>1 DEF n, o
  <2>5. CASE n # o
    <3>1. <<o, n>> \in threshold_deltas(old, new)
      BY Zenon, <1>6, <2>5 DEF threshold_deltas
    <3>2. ~large_delta(<<o, n>>[1], <<o, n>>[2])
      BY Zenon, <1>1, <1>6, <3>1 DEF has_large_threshold_delta
    <3> HIDE DEF n, o
    <3>3. <<o, n>>[1] = o /\ <<o, n>>[2] = n
      OBVIOUS
    <3>4. 5 * n \in (4 * o)..(6 * o)
      BY Zenon, <2>3, <3>2, <3>3, SmallDelta
    <3>5. QED
      BY Zenon, <2>3, <3>4 DEF n, o
  <2>6. QED
    BY Zenon, <2>4, <2>5
<1>7. CloseTo(old, new, v)
  BY Zenon, <1>1, <1>5, <1>6 DEF CloseTo
<1>8. QED
  BY Zenon, <1>3, <1>7 DEF v

(* Versions that requests bring and find. *)
LEMMA NumberedVersion ==
    ASSUME NEW n \in Int, NEW body \in Snapshot \cup Proposal
    PROVE  numbered(n, body) \in AnyVersion
<1>1. body.limits \in Thresholds
  BY Zenon, VersionsAssumption DEF Thresholds
<1>2. QED
  BY Zenon, <1>1 DEF numbered, AnyVersion, Goals, Embeddings, Generations

(* The version in force under the goal of the session. *)
LEMMA SessionVersion ==
    ASSUME NEW old \in AnyVersion, NEW g \in SessionGoal
    PROVE  with_session_goal(old, g) \in AnyVersion
<1> DEFINE y == [old EXCEPT !.goal = g.goal]
           z == [y EXCEPT !.emb = g.emb]
<1>1. g.goal \in Goals /\ g.emb \in Embeddings
  BY Zenon DEF Goals, Embeddings
<1>2. y \in AnyVersion
  BY Zenon, <1>1 DEF AnyVersion
<1>3. [old EXCEPT !.goal = g.goal, !.emb = g.emb] = z
  BY DEF AnyVersion
<1> HIDE DEF y
<1>4. z \in AnyVersion
  BY Zenon, <1>1, <1>2 DEF AnyVersion
<1>5. QED
  BY Zenon, <1>3, <1>4 DEF with_session_goal

(* A request that moves on within the types. *)
LEMMA RequestMoves ==
    ASSUME VersionsInv, NEW s \in Submitter, NEW x \in {Waiting} \cup Undecided \cup DecidedRequest,
           request' = [request EXCEPT ![s] = x],
           counter' \in Int, inForce' # NoVersion => inForce' \in AnyVersion, lineage' \in Seq(LineageEntry)
    PROVE  VersionsInv'
  BY Zenon DEF VersionsInv

(* What a request in progress is, by its step. *)
LEMMA RequestAt ==
    ASSUME VersionsInv, NEW s \in Submitter, request[s] # Waiting
    PROVE  /\ request[s].at \in {"baseline", "decide"} => request[s] \in Undecided
           /\ request[s].at \in {"store", "raise", "record"} => request[s] \in DecidedRequest
<1> DEFINE q == request[s]
<1>1. q \in Undecided \/ q \in DecidedRequest
  BY Zenon DEF VersionsInv
<1> HIDE DEF q
<1>2. (q \in Undecided => q.at \in {"baseline", "decide"}) /\ (q \in DecidedRequest => q.at \in {"store", "raise", "record"})
  BY Zenon DEF Undecided, DecidedRequest
<1>3. ~(q.at \in {"baseline", "decide"} /\ q.at \in {"store", "raise", "record"})
  OBVIOUS
<1>4. QED
  BY Zenon, <1>1, <1>2, <1>3 DEF q

(* The steps a request takes keep the types. *)
LEMMA NextAt ==
    ASSUME NEW q, NEW at
    PROVE  /\ q \in Undecided /\ at \in {"baseline", "decide"} => [q EXCEPT !.at = at] \in Undecided
           /\ q \in DecidedRequest /\ at \in {"store", "raise", "record"} => [q EXCEPT !.at = at] \in DecidedRequest
<1>1. ASSUME q \in Undecided, at \in {"baseline", "decide"} PROVE [q EXCEPT !.at = at] \in Undecided
  BY Zenon, <1>1 DEF Undecided
<1>2. ASSUME q \in DecidedRequest, at \in {"store", "raise", "record"} PROVE [q EXCEPT !.at = at] \in DecidedRequest
  <2> DEFINE y == [q EXCEPT !.at = at]
  <2>1. /\ y \in [at : {"store", "raise", "record"}, old : AnyVersion, new : AnyVersion, decision : Decisions]
        /\ y.old = q.old /\ y.new = q.new /\ y.decision = q.decision /\ CloseTo(q.old, q.new, q.decision)
    BY Zenon, <1>2 DEF DecidedRequest
  <2> HIDE DEF y
  <2>2. CloseTo(y.old, y.new, y.decision)
    BY Zenon, <2>1
  <2>3. y \in DecidedRequest
    BY Zenon, <2>1, <2>2 DEF DecidedRequest
  <2>4. QED
    BY Zenon, <2>3 DEF y
<1>3. QED
  BY Zenon, <1>1, <1>2

(* The counter stays a number. *)
LEMMA CounterRaised == ASSUME NEW c \in Int, NEW n \in Int PROVE raised(c, n) \in Int
<1>1. \E x \in {c, n} : \A y \in {c, n} : x >= y
  OBVIOUS
<1>2. Max({c, n}) \in {c, n}
  BY Zenon, <1>1 DEF Max
<1>3. QED
  BY Zenon, <1>2 DEF raised

(* A submission reads the version in force, or makes the baseline. *)
LEMMA SubmitStep ==
    ASSUME VersionsInv, NEW s \in Submitter, NEW n \in 1..MaxNumber, NEW body \in Proposal, NEW now \in Snapshot,
           submit_improvement(s, numbered(n, body), now)
    PROVE  VersionsInv'
<1> DEFINE proposed == numbered(n, body)
           baseline == numbered(next_version, now)
<1>1. n \in Int /\ counter \in Int /\ next_version \in Int
  BY DEF VersionsInv, next_version
<1>2. proposed \in AnyVersion /\ baseline \in AnyVersion
  BY Zenon, <1>1, NumberedVersion
<1>3. lineage' = lineage /\ inForce' = inForce
  BY Zenon DEF submit_improvement
<1> HIDE DEF proposed, baseline
<1>4. CASE inForce # NoVersion
  <2> DEFINE x == [at |-> "decide", old |-> inForce, new |-> proposed]
  <2>1. request' = [request EXCEPT ![s] = x] /\ counter' = counter
    BY Zenon, <1>4 DEF submit_improvement, proposed
  <2>2. inForce \in AnyVersion
    BY Zenon, <1>4 DEF VersionsInv
  <2>3. x \in Undecided
    BY Zenon, <1>2, <2>2 DEF Undecided
  <2> HIDE DEF x
  <2>4. QED
    BY Zenon, <1>1, <1>3, <2>1, <2>3, RequestMoves DEF VersionsInv
<1>5. CASE inForce = NoVersion
  <2> DEFINE x == [at |-> "baseline", old |-> baseline, new |-> proposed]
  <2>1. request' = [request EXCEPT ![s] = x] /\ counter' = next_version
    BY Zenon, <1>5 DEF submit_improvement, proposed, baseline
  <2>2. x \in Undecided
    BY Zenon, <1>2 DEF Undecided
  <2> HIDE DEF x
  <2>3. QED
    BY Zenon, <1>1, <1>3, <2>1, <2>2, RequestMoves DEF VersionsInv
<1>6. QED
  BY Zenon, <1>4, <1>5

(* The decision is taken on the baseline as it was read. *)
LEMMA VersionDecided ==
    ASSUME VersionsInv, NEW s \in Submitter, request[s] # Waiting, NEW g \in SessionGoal, Decide(s, g)
    PROVE  VersionsInv'
<1> DEFINE q == request[s]
           old == with_session_goal(q.old, g)
           v == validate_improvement_full(old, q.new)
           x == [at |-> IF promoted(v) THEN "store" ELSE "record", old |-> old, new |-> q.new, decision |-> v]
<1>1. q \in Undecided
  BY Zenon, RequestAt DEF Decide
<1>2. q.old \in AnyVersion /\ q.new \in AnyVersion
  BY Zenon, <1>1 DEF Undecided
<1>3. request' = [request EXCEPT ![s] = x] /\ UNCHANGED <<inForce, counter, lineage>>
  BY Zenon DEF Decide
<1> HIDE DEF q
<1>4. old \in AnyVersion
  BY Zenon, <1>2, SessionVersion
<1> HIDE DEF old
<1>5. v \in Decisions /\ CloseTo(old, q.new, v)
  BY Zenon, <1>2, <1>4, DecisionIsClose
<1> HIDE DEF v
<1>6. /\ x \in [at : {"store", "raise", "record"}, old : AnyVersion, new : AnyVersion, decision : Decisions]
      /\ x.old = old /\ x.new = q.new /\ x.decision = v
  <2> DEFINE a == IF promoted(v) THEN "store" ELSE "record"
  <2>1. a \in {"store", "raise", "record"}
    BY Zenon
  <2> HIDE DEF a
  <2>2. x = [at |-> a, old |-> old, new |-> q.new, decision |-> v]
    BY Zenon DEF a
  <2> HIDE DEF x
  <2>3. QED
    BY Zenon, <1>2, <1>4, <1>5, <2>1, <2>2
<1> HIDE DEF x
<1>7. x \in DecidedRequest
  BY Zenon, <1>5, <1>6 DEF DecidedRequest
<1>8. QED
  BY Zenon, <1>3, <1>7, RequestMoves DEF VersionsInv

(* The lineage drops its oldest entry when it is full. *)
LEMMA EntryAdded ==
    ASSUME NEW q \in Seq(LineageEntry), NEW e \in LineageEntry
    PROVE  with_entry(q, e) \in Seq(LineageEntry)
<1>1. CASE Len(q) >= LineageCap
  <2>1. q # <<>>
    BY <1>1, VersionsAssumption
  <2>2. Append(Tail(q), e) \in Seq(LineageEntry)
    BY <2>1
  <2>3. QED
    BY Zenon, <1>1, <2>2 DEF with_entry
<1>2. CASE ~(Len(q) >= LineageCap)
  <2>1. Append(q, e) \in Seq(LineageEntry)
    OBVIOUS
  <2>2. QED
    BY Zenon, <1>2, <2>1 DEF with_entry
<1>3. QED
  BY Zenon, <1>1, <1>2

(* A submission, a decision or a write to the store keeps the invariant. *)
LEMMA VersionsStep == ASSUME VersionsInv, [VersionsNext]_versionVars PROVE VersionsInv'
<1>1. ASSUME NEW s \in Submitter, snapshot_agent_version(s) PROVE VersionsInv'
  <2>1. counter' = counter + 1 /\ UNCHANGED <<inForce, lineage, request>>
    BY Zenon, <1>1 DEF snapshot_agent_version, next_version
  <2>2. counter' \in Int
    BY <2>1 DEF VersionsInv
  <2>3. QED
    BY Zenon, <2>1, <2>2 DEF VersionsInv
<1>2. ASSUME NEW s \in Submitter, request[s] # Waiting, StoreBaseline(s) PROVE VersionsInv'
  <2>1. request[s] \in Undecided /\ request[s].old \in AnyVersion
    BY Zenon, <1>2, RequestAt DEF StoreBaseline, Undecided
  <2>2. request[s].old.number \in Int
    BY Zenon, <2>1 DEF AnyVersion
  <2>3. counter' \in Int /\ inForce' \in AnyVersion /\ lineage' = lineage
    BY Zenon, <1>2, <2>1, <2>2, CounterRaised DEF StoreBaseline, VersionsInv
  <2>4. request' = [request EXCEPT ![s] = [request[s] EXCEPT !.at = "decide"]]
    BY Zenon, <1>2 DEF StoreBaseline
  <2>5. [request[s] EXCEPT !.at = "decide"] \in Undecided
    BY Zenon, <2>1, NextAt
  <2>6. QED
    BY Zenon, <2>3, <2>4, <2>5, RequestMoves DEF VersionsInv
<1>3. ASSUME NEW s \in Submitter, request[s] # Waiting, InsertPromoted(s) PROVE VersionsInv'
  <2>1. request[s] \in DecidedRequest /\ request[s].new \in AnyVersion
    BY Zenon, <1>3, RequestAt DEF InsertPromoted, DecidedRequest
  <2>2. /\ request' = [request EXCEPT ![s] = [request[s] EXCEPT !.at = "raise"]]
        /\ inForce' \in AnyVersion /\ UNCHANGED <<counter, lineage>>
    BY Zenon, <1>3, <2>1 DEF InsertPromoted
  <2>3. [request[s] EXCEPT !.at = "raise"] \in DecidedRequest
    BY Zenon, <2>1, NextAt
  <2>4. QED
    BY Zenon, <2>2, <2>3, RequestMoves DEF VersionsInv
<1>4. ASSUME NEW s \in Submitter, request[s] # Waiting, RaiseCounter(s) PROVE VersionsInv'
  <2>1. request[s] \in DecidedRequest /\ request[s].new \in AnyVersion
    BY Zenon, <1>4, RequestAt DEF RaiseCounter, DecidedRequest
  <2>2. request[s].new.number \in Int
    BY Zenon, <2>1 DEF AnyVersion
  <2>3. /\ request' = [request EXCEPT ![s] = [request[s] EXCEPT !.at = "record"]]
        /\ counter' \in Int /\ UNCHANGED <<inForce, lineage>>
    BY Zenon, <1>4, <2>2, CounterRaised DEF RaiseCounter, VersionsInv
  <2>4. [request[s] EXCEPT !.at = "record"] \in DecidedRequest
    BY Zenon, <2>1, NextAt
  <2>5. QED
    BY Zenon, <2>3, <2>4, RequestMoves DEF VersionsInv
<1>5. ASSUME NEW s \in Submitter, request[s] # Waiting, record_lineage(s) PROVE VersionsInv'
  <2> DEFINE q == request[s]
             e == [old |-> q.old, new |-> q.new, decision |-> q.decision]
  <2>1. q \in DecidedRequest
    BY Zenon, <1>5, RequestAt DEF record_lineage
  <2>2. /\ lineage' = with_entry(lineage, e) /\ request' = [request EXCEPT ![s] = Waiting]
        /\ UNCHANGED <<inForce, counter>>
    BY Zenon, <1>5 DEF record_lineage
  <2> HIDE DEF q
  <2>3. q.old \in AnyVersion /\ q.new \in AnyVersion /\ q.decision \in Decisions /\ CloseTo(q.old, q.new, q.decision)
    BY Zenon, <2>1 DEF DecidedRequest
  <2>4. e \in LineageEntry
    BY Zenon, <2>3 DEF LineageEntry
  <2> HIDE DEF e
  <2>5. lineage' \in Seq(LineageEntry)
    BY Zenon, <2>2, <2>4, EntryAdded DEF VersionsInv
  <2>6. QED
    BY Zenon, <2>2, <2>5, RequestMoves DEF VersionsInv
<1>6. CASE UNCHANGED versionVars
  BY Zenon, <1>6 DEF versionVars, VersionsInv
<1>7. QED
  BY Zenon, <1>1, <1>2, <1>3, <1>4, <1>5, <1>6, SubmitStep, VersionDecided DEF VersionsNext

(* At the start nothing was submitted. *)
LEMMA InitialVersions == ASSUME VersionsInit PROVE VersionsInv
<1>1. <<>> \in Seq(LineageEntry) /\ 0 \in Int
  OBVIOUS
<1>2. QED
  BY Zenon, <1>1 DEF VersionsInit, VersionsInv

(* Whatever submissions overlap, nothing is promoted without a person that  *)
(* changes the goal it was compared with or moves a threshold it names by   *)
(* more than a fifth, and an approval keeps the anomaly model.              *)
THEOREM PromotionsAreClose == VersionsSpec => []PromotedIsClose
<1>1. VersionsInit => VersionsInv
  BY Zenon, InitialVersions
<1>2. VersionsInv /\ [VersionsNext]_versionVars => VersionsInv'
  BY Zenon, VersionsStep
<1>3. VersionsInv => PromotedIsClose
  <2> SUFFICES ASSUME VersionsInv PROVE PromotedIsClose
    BY Zenon
  <2>1. \A e \in Range(lineage) : e \in LineageEntry
    <3>1. \A i \in DOMAIN lineage : lineage[i] \in LineageEntry
      BY DEF VersionsInv
    <3>2. QED
      BY Zenon, <3>1 DEF Range
  <2>2. QED
    BY Zenon, <2>1 DEF LineageEntry, CloseTo, PromotedIsClose
<1>4. QED
  BY <1>1, <1>2, <1>3, PTL DEF VersionsSpec
=============================================================================
