------------------------------ MODULE Policies ------------------------------
(***************************************************************************)
(* The two kinds of policy that judge one action: rules from a file and    *)
(* the built-in breakers.                                                  *)
(***************************************************************************)
EXTENDS Integers, Sequences, SequencesExt, FiniteSets, FiniteSetsExt, Functions

(***************************************************************************)
(* The policy evaluator as functions of a policy file and a context: the   *)
(* topological sort of the enabled rules, the evaluation that stops at the *)
(* first blocking rule, its shadow mode, and the conflict report.  A       *)
(* rule's id is its position; a condition is a name that holds or not.     *)
(***************************************************************************)

CONSTANTS RuleCondition, MaxRules, MaxEvaluated

VARIABLES
  policyRules,   \* PolicyFile.rules
  holding,       \* the conditions the context satisfies
  tooDeep        \* the delegation chain is longer than the policy allows

ruleVars == <<policyRules, holding, tooDeep>>

Blocking == {"Deny", "CircuitBreak"}
Delegation == 0   \* the id "__delegation_depth"
Plain == [tier |-> 1, action |-> "Flag", cond |-> CHOOSE c \in RuleCondition : TRUE,
          depends_on |-> {}, disabled |-> FALSE]
PolicyOf(Form, n) == UNION {[1..k -> Form] : k \in 1..n}

\* Policies that differ in their dependencies, and policies that differ in
\* what their rules do.
SortForm == {[Plain EXCEPT !.tier = t, !.depends_on = d, !.disabled = x] :
               t \in 1..2, d \in SUBSET (1..MaxRules), x \in BOOLEAN}
EvalForm == {[Plain EXCEPT !.tier = t, !.action = a, !.cond = c] :
               t \in 1..2, a \in Blocking \cup {"Flag", "Allow"}, c \in RuleCondition}

RulesInit ==
  \/ policyRules \in PolicyOf(SortForm, MaxRules) /\ holding = {} /\ tooDeep = FALSE
  \/ policyRules \in PolicyOf(EvalForm, MaxEvaluated) /\ holding \in SUBSET RuleCondition /\ tooDeep \in BOOLEAN

RulesNext == UNCHANGED ruleVars

active == {r \in DOMAIN policyRules : ~policyRules[r].disabled}
deps(r) == policyRules[r].depends_on
before(a, b) ==
  \/ policyRules[a].tier < policyRules[b].tier
  \/ policyRules[a].tier = policyRules[b].tier /\ a < b
by_priority(S) == SetToSortSeq(S, before)

---------------------------------------------------------------------------
(* topo_sort: Kahn's algorithm over the enabled rules. *)

unknown_dep == \E r \in active : ~(deps(r) \subseteq active)

MutAnyDone(r, done) == deps(r) \cap done # {}
all_done(r, done) == deps(r) \subseteq done

kahn(s) ==
  IF s.queue = <<>> THEN s
  ELSE LET id == Head(s.queue)
           done == Range(s.order) \cup {id}
           ready == {r \in active \ done : id \in deps(r) /\ all_done(r, done)}
       IN [queue |-> Tail(s.queue) \o by_priority(ready), order |-> Append(s.order, id)]

\* A rule is queued once, when the last of its dependencies is done, so a round
\* for every rule empties the queue.
order_of_rules ==
  LET start == [queue |-> by_priority({r \in active : deps(r) = {}}), order |-> <<>>]
      after[n \in Nat] == IF n = 0 THEN start ELSE kahn(after[n - 1])
  IN after[Cardinality(active)].order
cycle_detected == Len(order_of_rules) # Cardinality(active)
loads == ~unknown_dep /\ ~cycle_detected

---------------------------------------------------------------------------
(* evaluate.  An outcome is the rule that blocked, if any, and the flags. *)

matched(r) == policyRules[r].cond \in holding
is_blocking(r) == policyRules[r].action \in Blocking
Outcome(blocker, flags) == [blocker |-> blocker, flags |-> flags]

downgraded(shadow, r) == is_blocking(r) /\ shadow

\* The loop over the rules ends at the first that blocks.
evaluate_rule(shadow, so_far, r) ==
  IF so_far.blocker # -1 \/ ~matched(r) THEN so_far
  ELSE IF downgraded(shadow, r) \/ policyRules[r].action = "Flag"
       THEN [so_far EXCEPT !.flags = Append(@, r)]
  ELSE IF is_blocking(r) THEN Outcome(r, so_far.flags)
  ELSE so_far

evaluate(shadow) ==
  IF tooDeep THEN IF shadow THEN Outcome(-1, <<Delegation>>) ELSE Outcome(Delegation, <<>>)
  ELSE FoldLeft(LAMBDA so_far, r : evaluate_rule(shadow, so_far, r), Outcome(-1, <<>>), order_of_rules)

---------------------------------------------------------------------------
(* ConflictGraph::build over the enabled rules. *)

same_condition(a, b) == policyRules[a].cond = policyRules[b].cond

shadows(a, b) ==
  /\ same_condition(a, b) /\ is_blocking(a) /\ ~is_blocking(b)
  /\ policyRules[a].tier < policyRules[b].tier
shadow_conflicts == {c \in active \X active : shadows(c[1], c[2])}

contradicts(a, b) ==
  /\ a < b /\ same_condition(a, b) /\ policyRules[a].tier = policyRules[b].tier
  /\ is_blocking(a) # is_blocking(b)
contradictions == {c \in active \X active : contradicts(c[1], c[2])}

---------------------------------------------------------------------------
(* Properties. *)

position(r) == CHOOSE i \in DOMAIN order_of_rules : order_of_rules[i] = r
\* Everything a set of rules depends on, directly or not.
upstream(S) ==
  LET reach[n \in Nat] == IF n = 0 THEN S ELSE LET R == reach[n - 1] IN R \cup UNION {deps(r) : r \in R}
  IN reach[Cardinality(active)]

\* A policy with known dependencies is refused exactly when some rule depends
\* on itself through others, and otherwise every enabled rule is evaluated
\* once, after everything it depends on.
SortedByDependency ==
  ~unknown_dep =>
    /\ cycle_detected <=> \E r \in active : r \in upstream(deps(r))
    /\ IsInjective(order_of_rules)
    /\ \A r \in Range(order_of_rules) : \A d \in deps(r) : position(d) < position(r)

\* Shadow mode never blocks and tells what enforcement would do: enforcement
\* blocks exactly when a blocking rule is among the flags, and then the first
\* of those is the rule that blocks.
ShadowPredictsEnforcement ==
  loads =>
    LET blockers == SelectSeq(evaluate(TRUE).flags, LAMBDA r : r = Delegation \/ is_blocking(r)) IN
      /\ evaluate(TRUE).blocker = -1
      /\ evaluate(FALSE).blocker = IF blockers = <<>> THEN -1 ELSE Head(blockers)

\* A reported conflict is real: whenever the condition of a shadowed or a
\* contradicting rule holds, enforcement blocks the request.
ConflictsBlock ==
  loads => \A c \in shadow_conflicts \cup contradictions :
             matched(c[1]) \/ matched(c[2]) => evaluate(FALSE).blocker # -1

(***************************************************************************)
(* The circuit breakers of the policy crate, which are pure: seven domain  *)
(* breakers, their aggregate, and the policy read from a JSONB document.   *)
(* A context is a function from field to value.  The contexts looked at    *)
(* are an empty one and one that every domain denies, with two fields set  *)
(* to a value at or just past a limit, or left out.                        *)
(***************************************************************************)

CONSTANT Absent

VARIABLE ctx
breakerVars == <<ctx>>

Numeric == [amount |-> 1000, actions |-> 10, pii |-> 10, cpu |-> 90, memory |-> 85,
            depth |-> 5, retention |-> 2555, tpm |-> 100000, compute |-> 3600,
            api_pct |-> 90, egress |-> 52428800]
JsonbDefault == [amount |-> 1000, actions |-> 10, pii |-> 0, cpu |-> 80, memory |-> 80, depth |-> 3]
Override == [tpm |-> "max_tpm", compute |-> "max_compute", egress |-> "max_egress"]
Flag == {"cross_border", "undeclared_service", "gdpr_deletion", "contains_pii"}
Listed == {"declared_scopes", "requested_scopes", "schema_fields", "payload_fields"}

At(f, values) == {<<f, v>> : v \in values}
Entry ==
  UNION {At(f, {Numeric[f], Numeric[f] + 1}) : f \in DOMAIN Numeric}
  \cup UNION {At(f, {JsonbDefault[f], JsonbDefault[f] + 1}) : f \in DOMAIN JsonbDefault}
  \cup UNION {At(Override[f], {0, Numeric[f] + 1}) : f \in DOMAIN Override}
  \cup UNION {At(f, BOOLEAN) : f \in Flag} \cup UNION {At(f, {{"a"}, {"a", "b"}}) : f \in Listed}
  \cup At("requested_columns", {0, 1, 3}) \cup At("necessary_columns", {0, 1, 2})

Field == {e[1] : e \in Entry}

AllDenied == [amount |-> 1001, cross_border |-> TRUE, undeclared_service |-> TRUE, cpu |-> 91,
              gdpr_deletion |-> TRUE, api_pct |-> 91]
Base(given) == [f \in Field |-> IF f \in DOMAIN given THEN given[f] ELSE Absent]

BreakersInit ==
  \E base \in {Base(<<>>), Base(AllDenied)}, e1, e2 \in Entry \cup (Field \X {Absent}) :
    ctx = [base EXCEPT ![e1[1]] = e1[2], ![e2[1]] = e2[2]]

BreakersNext == UNCHANGED breakerVars

has(c, f) == c[f] # Absent
is_true(c, f) == has(c, f) /\ c[f] = TRUE

\* Limits that a context may bring along override the built-in ones.
limit_of(c, f) ==
  IF f \in DOMAIN Override /\ has(c, Override[f]) THEN c[Override[f]] ELSE Numeric[f]

over(c, f) == has(c, f) /\ c[f] > limit_of(c, f)

undeclared(c, f, declared) == has(c, f) /\ has(c, declared) /\ ~(c[f] \subseteq c[declared])
max1(n) == IF n = 0 THEN 1 ELSE n

---------------------------------------------------------------------------
(* Each breaker is its checks in order: the policy code and whether the    *)
(* check denies.                                                           *)

Check(policy, denies) == [policy |-> policy, denies |-> denies]

financial(c) == <<Check("MAX_TRANSFER_USD", over(c, "amount")),
                  Check("MAX_ACTIONS_PER_MINUTE", over(c, "actions"))>>

over_collection(c) ==
  /\ has(c, "requested_columns") /\ has(c, "necessary_columns")
  /\ c["requested_columns"] > 2 * max1(c["necessary_columns"])

privacy(c) == <<Check("PII_CONCENTRATION", over(c, "pii")),
                Check("DATA_MINIMISATION", over_collection(c)),
                Check("CROSS_BORDER_TRANSFER", is_true(c, "cross_border"))>>

security(c) == <<Check("SCOPE_CREEP", undeclared(c, "requested_scopes", "declared_scopes")),
                 Check("LATERAL_MOVEMENT", is_true(c, "undeclared_service"))>>

operational(c) == <<Check("CPU_EXHAUSTION", over(c, "cpu")),
                    Check("MEMORY_EXHAUSTION", over(c, "memory")),
                    Check("DEPENDENCY_CASCADE", over(c, "depth"))>>

\* The default breaker has no list of allowed jurisdictions.
compliance(c) ==
  <<Check("SCHEMA_PII_VIOLATION",
          is_true(c, "contains_pii") /\ undeclared(c, "payload_fields", "schema_fields")),
    Check("GDPR_DELETION_BLOCK", is_true(c, "gdpr_deletion")),
    Check("RETENTION_VIOLATION", over(c, "retention"))>>

resource(c) == <<Check("TOKEN_RATE_EXCEEDED", over(c, "tpm")),
                 Check("COMPUTE_EXCEEDED", over(c, "compute")),
                 Check("API_RATE_LIMIT", over(c, "api_pct"))>>

egress(c) == <<Check("EGRESS_VOLUME_EXCEEDED", over(c, "egress"))>>

\* The first check that denies, or "Pass".
verdict(checks) ==
  LET denying == {i \in DOMAIN checks : checks[i].denies} IN
    IF denying = {} THEN "Pass" ELSE checks[Min(denying)].policy

default_breakers(c) == <<financial(c), privacy(c), security(c), operational(c), compliance(c), resource(c)>>
default_any(c) == Append(default_breakers(c), egress(c))

evaluate_all(breakers) ==
  IF \E i \in DOMAIN breakers : verdict(breakers[i]) = "Pass" THEN "Pass" ELSE verdict(breakers[1])

evaluate_any(breakers) ==
  LET denying == {i \in DOMAIN breakers : verdict(breakers[i]) # "Pass"} IN
    IF denying = {} THEN "Pass" ELSE verdict(breakers[Min(denying)])

---------------------------------------------------------------------------
(* JsonbPolicy: keys missing from the document keep the built-in value, and *)
(* it blocks no jurisdiction by default.                                   *)

from_jsonb(doc) == [f \in DOMAIN JsonbDefault |-> IF f \in DOMAIN doc THEN doc[f] ELSE JsonbDefault[f]]

column_ratio_exceeded(c) ==
  /\ has(c, "requested_columns") /\ has(c, "necessary_columns") /\ c["necessary_columns"] > 0
  /\ c["requested_columns"] > c["necessary_columns"]

evaluate_jsonb(c, policy) ==
  verdict(<<Check("MAX_TRANSFER_USD", has(c, "amount") /\ c["amount"] > policy.amount),
            Check("MAX_ACTIONS_PER_MINUTE", has(c, "actions") /\ c["actions"] > policy.actions),
            Check("MAX_PII_FIELDS", has(c, "pii") /\ c["pii"] > policy.pii),
            Check("COLUMN_MINIMIZATION", column_ratio_exceeded(c)),
            Check("CPU_THRESHOLD", has(c, "cpu") /\ c["cpu"] > policy.cpu),
            Check("MEMORY_THRESHOLD", has(c, "memory") /\ c["memory"] > policy.memory),
            Check("MAX_DEPENDENCY_CASCADE_DEPTH", has(c, "depth") /\ c["depth"] > policy.depth)>>)

---------------------------------------------------------------------------
(* Properties. *)

Measured == Field \ Range(Override)

\* Leaving out what a request reports never gets it denied: a context that
\* passes still passes when any reported field is missing, whichever fields
\* are checked together.
AbsenceNeverDenies ==
  evaluate_any(default_any(ctx)) = "Pass" =>
    \A f \in {g \in Measured : has(ctx, g)} :
      evaluate_any(default_any([ctx EXCEPT ![f] = Absent])) = "Pass"

\* What the aggregate that needs every domain denies, the one that needs a
\* single domain denies too, and both name the same check.
AllImpliesAny ==
  evaluate_all(default_breakers(ctx)) # "Pass" =>
    evaluate_any(default_any(ctx)) = evaluate_all(default_breakers(ctx))

\* With an empty document the JSONB policy is at least as strict as the
\* financial, privacy-count, collection and operational breakers, but for one
\* case: no column is necessary and some are requested.
JsonbNoLaxer ==
  evaluate_jsonb(ctx, from_jsonb(<<>>)) = "Pass" =>
    /\ verdict(financial(ctx)) = "Pass" /\ verdict(operational(ctx)) = "Pass" /\ ~over(ctx, "pii")
    /\ over_collection(ctx) => ctx["necessary_columns"] = 0
=============================================================================
