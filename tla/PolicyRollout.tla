---------------------------- MODULE PolicyRollout ----------------------------
(***************************************************************************)
(* The operator's PolicySet controller (haltchain-operator/src/controllers *)
(* and reload.rs): it resolves the rules of a PolicySet, posts them to the *)
(* sidecar of every matching pod, and writes the status of the set.  Pods  *)
(* restart with the rules of their own file, have no address at first, and *)
(* a post may fail, or be answered too late and still take effect.         *)
(*                                                                         *)
(* The webhook inside a sidecar is the abstract step "the pod runs these   *)
(* rules"; PolicyReload models it in detail.                               *)
(***************************************************************************)
EXTENDS Naturals, FiniteSets

CONSTANTS
  Pod, PolicySet,
  Rules,        \* texts of rules that a sidecar accepts
  Matches,      \* Matches[p]: the sets that select pod p, by label or annotation
  OwnRules,     \* the rules a sidecar starts with, from its own file
  EmptyText,    \* the empty text
  NoText,       \* an absent field, or a ConfigMap that cannot be fetched
  MaxChanges,   \* bound: edits of PolicySets and ConfigMaps
  MaxRestarts   \* bound: restarts of pods

ASSUME RolloutAssumption ==
  /\ IsFiniteSet(Pod)
  /\ Matches \in [Pod -> SUBSET PolicySet]
  /\ {OwnRules, EmptyText, NoText} \cap Rules = {}
  /\ MaxChanges \in Nat /\ MaxRestarts \in Nat

VARIABLES
  pset,         \* the spec of each PolicySet: inline rules or a ConfigMap
  configMap,    \* content of the ConfigMap that the sets refer to
  pods,         \* address and running rules of each pod
  late,         \* posts that timed out at the operator but may still arrive
  job,          \* the reconciliation of each PolicySet; one runs at a time
  status,       \* the status of each PolicySet
  offered,      \* history: the texts each PolicySet has had
  changes, restarts

clusterVars == <<pset, configMap, offered, changes>>
rolloutVars == <<clusterVars, pods, late, job, status, restarts>>

Text == Rules \cup {EmptyText, NoText}
NoJob == [pc |-> "idle", rules |-> NoText, todo |-> {}, address |-> {}, count |-> 0]

\* RolloutTypeOK: in particular no sidecar is given the empty text and no post
\* under way carries it (reconcile refuses empty rules).
RolloutTypeOK ==
  /\ pset \in [PolicySet -> [inline : Text, ref : BOOLEAN]]
  /\ configMap \in Text
  /\ pods \in [Pod -> [ip : BOOLEAN, running : Rules \cup {OwnRules}]]
  /\ late \subseteq Pod \X Rules
  /\ job \in [PolicySet -> [pc : {"idle", "list", "push", "fail"}, rules : Text,
                            todo : SUBSET Pod, address : SUBSET Pod, count : 0..Cardinality(Pod)]]
  /\ status \in [PolicySet -> [phase : {"Pending", "Active", "Failed"},
                               active : 0..Cardinality(Pod)]]
  /\ offered \in [PolicySet -> SUBSET Text]
  /\ changes \in 0..MaxChanges /\ restarts \in 0..MaxRestarts

(***************************************************************************)
(* resolve_rules: inline rules take precedence over the ConfigMap; a set   *)
(* with neither has the empty text.  NoText stands for the error.          *)
(***************************************************************************)
resolve_rules(spec, cm) ==
  CASE spec.inline # NoText -> spec.inline
    [] spec.inline = NoText /\ spec.ref -> cm
    [] OTHER -> EmptyText

rules_of(s) == resolve_rules(pset[s], configMap)

\* pod_matches_policy_set
pod_matches(p, s) == s \in Matches[p]

RolloutInit ==
  /\ pset \in [PolicySet -> [inline : {NoText} \cup Rules, ref : {TRUE}]]
  /\ configMap \in Rules
  /\ pods = [p \in Pod |-> [ip |-> TRUE, running |-> OwnRules]]
  /\ late = {}
  /\ job = [s \in PolicySet |-> NoJob]
  /\ status = [s \in PolicySet |-> [phase |-> "Pending", active |-> 0]]
  /\ offered = [s \in PolicySet |-> {rules_of(s)}]
  /\ changes = 0 /\ restarts = 0

-----------------------------------------------------------------------------
(* Users edit the cluster. *)

Change(newSets, newMap) ==
  /\ changes < MaxChanges
  /\ <<newSets, newMap>> # <<pset, configMap>>
  /\ pset' = newSets /\ configMap' = newMap
  /\ offered' = [s \in PolicySet |-> offered[s] \cup {resolve_rules(newSets[s], newMap)}]
  /\ changes' = changes + 1
  /\ UNCHANGED <<pods, late, job, status, restarts>>

EditPolicySet(s) ==
  \E i \in Text, r \in BOOLEAN : Change([pset EXCEPT ![s] = [inline |-> i, ref |-> r]], configMap)

EditConfigMap == \E t \in Text : Change(pset, t)

\* The pod is replaced; what was under way to its old address is lost.
Restart(p) ==
  /\ restarts < MaxRestarts
  /\ restarts' = restarts + 1
  /\ pods' = [pods EXCEPT ![p] = [ip |-> FALSE, running |-> OwnRules]]
  /\ late' = late \ ({p} \X Rules)
  /\ job' = [s \in PolicySet |-> [job[s] EXCEPT !.address = @ \ {p}]]
  /\ UNCHANGED <<clusterVars, status>>

GetsAddress(p) ==
  /\ ~pods[p].ip
  /\ pods' = [pods EXCEPT ![p].ip = TRUE]
  /\ UNCHANGED <<clusterVars, late, job, status, restarts>>

\* A post that the operator gave up on is served after all.
LatePost(p, t) ==
  /\ <<p, t>> \in late
  /\ late' = late \ {<<p, t>>}
  /\ pods' = [pods EXCEPT ![p].running = t]
  /\ UNCHANGED <<clusterVars, job, status, restarts>>

-----------------------------------------------------------------------------
(* reconcile *)

\* The rules are resolved first; without any, only the status is left to patch.
new_job(s) == [pc |-> IF rules_of(s) \in Rules THEN "list" ELSE "fail", rules |-> rules_of(s),
               todo |-> {}, address |-> {}, count |-> 0]

MutOnlyPending(s) ==
  /\ job[s].pc = "idle"
  /\ status[s].phase # "Active"
  /\ job' = [job EXCEPT ![s] = new_job(s)]
  /\ UNCHANGED <<clusterVars, pods, late, status, restarts>>

(***************************************************************************)
(* A reconciliation starts on a change of the set and whenever the last    *)
(* one's requeue delay has passed (300 s, or 30 s and 60 s after a         *)
(* failure), that is, again and again.                                     *)
(***************************************************************************)
Reconcile(s) ==
  /\ job[s].pc = "idle"
  /\ job' = [job EXCEPT ![s] = new_job(s)]
  /\ UNCHANGED <<clusterVars, pods, late, status, restarts>>

\* No rules, or a ConfigMap that cannot be fetched: patch_status.
ReconcileFails(s) ==
  /\ job[s].pc = "fail"
  /\ status' = [status EXCEPT ![s] = [phase |-> "Failed", active |-> 0]]
  /\ job' = [job EXCEPT ![s] = NoJob]
  /\ UNCHANGED <<clusterVars, pods, late, restarts>>

MutListAll(s) == Pod

\* push_policy_to_matching_pods: the matching pods of the list.
matched(s) == {p \in Pod : pod_matches(p, s)}

ListPods(s) ==
  /\ job[s].pc = "list"
  /\ job' = [job EXCEPT ![s] = [@ EXCEPT !.pc = "push", !.todo = matched(s),
               !.address = {p \in Pod : pods[p].ip}, !.count = Cardinality(matched(s))]]
  /\ UNCHANGED <<clusterVars, pods, late, status, restarts>>

\* One pod is done with, whatever came of it.
done_with(s, p) ==
  /\ job[s].pc = "push" /\ p \in job[s].todo
  /\ job' = [job EXCEPT ![s].todo = @ \ {p}]

PostServed(s, p) ==
  /\ done_with(s, p)
  /\ p \in job[s].address
  /\ pods' = [pods EXCEPT ![p].running = job[s].rules]
  /\ UNCHANGED <<clusterVars, late, status, restarts>>

\* No address in the list, an answer other than 2xx, or a failed request.
PostFails(s, p) ==
  /\ done_with(s, p)
  /\ UNCHANGED <<clusterVars, pods, late, status, restarts>>

PostTimesOut(s, p) ==
  /\ done_with(s, p)
  /\ p \in job[s].address
  /\ late' = late \cup {<<p, job[s].rules>>}
  /\ UNCHANGED <<clusterVars, pods, status, restarts>>

\* patch_status_with_count
PatchStatus(s) ==
  /\ job[s].pc = "push" /\ job[s].todo = {}
  /\ status' = [status EXCEPT ![s] = [phase |-> "Active", active |-> job[s].count]]
  /\ job' = [job EXCEPT ![s] = NoJob]
  /\ UNCHANGED <<clusterVars, pods, late, restarts>>

\* An error of the API server: error_policy, which tries again.
ErrorPolicy(s) ==
  /\ job[s].pc \in {"list", "fail", "push"} /\ job[s].todo = {}
  /\ job' = [job EXCEPT ![s] = NoJob]
  /\ UNCHANGED <<clusterVars, pods, late, status, restarts>>

-----------------------------------------------------------------------------
JobStep(s) ==
  \/ Reconcile(s) \/ ReconcileFails(s) \/ ListPods(s) \/ PatchStatus(s)
  \/ \E p \in Pod : PostServed(s, p) \/ PostFails(s, p) \/ PostTimesOut(s, p)

RolloutNext ==
  \/ \E s \in PolicySet : EditPolicySet(s) \/ JobStep(s) \/ ErrorPolicy(s)
  \/ EditConfigMap
  \/ \E p \in Pod : Restart(p) \/ GetsAddress(p) \/ \E t \in Rules : LatePost(p, t)

(***************************************************************************)
(* The runtime of the controller requeues for ever and drives each job to  *)
(* its end; a pod gets its address; a post that is tried over and over     *)
(* with an address is served some time.                                    *)
(***************************************************************************)
RolloutFairness ==
  /\ \A s \in PolicySet : WF_rolloutVars(JobStep(s)) /\ SF_rolloutVars(ListPods(s))
  /\ \A p \in Pod : WF_rolloutVars(GetsAddress(p))
  /\ \A s \in PolicySet, p \in Pod : SF_rolloutVars(PostServed(s, p))

RolloutSpec == RolloutInit /\ [][RolloutNext]_rolloutVars /\ RolloutFairness

-----------------------------------------------------------------------------
(***************************************************************************)
(* A sidecar only ever runs its own rules or rules that a PolicySet which  *)
(* selects its pod has had, although posts are delayed past later edits    *)
(* (push_policy_to_matching_pods, pod_matches_policy_set).                 *)
(***************************************************************************)
RunsOfferedRules ==
  \A p \in Pod :
    pods[p].running # OwnRules =>
      \E s \in PolicySet : s \in Matches[p] /\ pods[p].running \in offered[s]

(***************************************************************************)
(* Once edits and restarts are over, every pod that one PolicySet selects  *)
(* ends up running the rules of that set and keeps running them: failed,   *)
(* timed-out and late posts, and restarts between two reconciliations, are *)
(* repaired by the periodic requeue.                                       *)
(***************************************************************************)
RolloutConverges ==
  RolloutFairness => \A p \in Pod, s \in PolicySet :
    <>[](Matches[p] = {s} /\ rules_of(s) \in Rules => pods[p].running = rules_of(s))

(***************************************************************************)
(* "Number of sidecars currently running this policy" (active_sidecars of  *)
(* PolicySetStatus): when the status becomes Active, the number in it is   *)
(* of sidecars that run the rules just pushed.                             *)
(***************************************************************************)
ActiveCountHonest ==
  [][\A s \in PolicySet :
       PatchStatus(s) =>
         status'[s].active <= Cardinality({p \in Pod : pods[p].running = job[s].rules})]_rolloutVars

\* An instance: every pod is selected by every PolicySet.
EveryPodMatches == [p \in Pod |-> PolicySet]
=============================================================================
