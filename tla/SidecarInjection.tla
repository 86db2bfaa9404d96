-------------------------- MODULE SidecarInjection --------------------------
(***************************************************************************)
(* The operator's AgentProfile controller and the mutating webhook that    *)
(* injects the sidecar.  The controller lists the pods of a profile and    *)
(* patches them one by one while pods come and go; the webhook sees a pod  *)
(* when it is admitted, and may see it again.  A pod is created from its   *)
(* template, whose annotations may ask for a sidecar.  The API server is   *)
(* external.                                                               *)
(***************************************************************************)
EXTENDS Integers, Sequences, FiniteSets, Functions

CONSTANTS Pod, MaxPolicy, MaxChurn

ASSUME SidecarAssumption == IsFiniteSet(Pod) /\ MaxPolicy \in Nat /\ MaxChurn \in Nat

VARIABLES
  profilePolicy,     \* policy_set_ref of the profile, grows with its edits
  template,          \* pod -> the policy its template's annotations name, 0 for none
  pods,              \* pod -> [exists, uid, inject, policy, sidecars]
  reconcile,         \* the run under way: [step, policy, todo, done]
  profileStatus,     \* managed_pods and the pods counted, when Active
  churn

sidecarVars == <<profilePolicy, template, pods, reconcile, profileStatus, churn>>

NoPod == [exists |-> FALSE, uid |-> 0, inject |-> FALSE, policy |-> 0, sidecars |-> <<>>]
NotReconciling == [step |-> "idle", policy |-> 0, todo |-> <<>>, done |-> {}]
NotReported == [managed |-> -1, counted |-> {}]

SidecarInit ==
  /\ profilePolicy = 1 /\ template \in [Pod -> {0, 1}]
  /\ pods = [p \in Pod |-> NoPod] /\ reconcile = NotReconciling /\ profileStatus = NotReported /\ churn = 0

podChurn == churn < MaxChurn /\ churn' = churn + 1

---------------------------------------------------------------------------
(* Admission: mutate appends the sidecar built from the annotations. *)

needs_sidecar(pod) == pod.inject /\ pod.sidecars = <<>>

build_sidecar_container(policy) == policy
mutate(pod) == IF needs_sidecar(pod) THEN [pod EXCEPT !.sidecars = Append(@, build_sidecar_container(pod.policy))] ELSE pod

\* The API server may call the webhook a second time for the same pod.
CreatePod(p) ==
  /\ ~pods[p].exists /\ podChurn
  /\ LET fresh ==
            [exists |-> TRUE, uid |-> pods[p].uid + 1, inject |-> template[p] > 0, policy |-> template[p], sidecars |-> <<>>]
     IN pods' = [pods EXCEPT ![p] = mutate(fresh)] \/ pods' = [pods EXCEPT ![p] = mutate(mutate(fresh))]
  /\ UNCHANGED <<profilePolicy, template, reconcile, profileStatus>>

DeletePod(p) ==
  /\ pods[p].exists /\ podChurn /\ pods' = [pods EXCEPT ![p] = [NoPod EXCEPT !.uid = pods[p].uid]]
  /\ UNCHANGED <<profilePolicy, template, reconcile, profileStatus>>

EditProfile ==
  /\ profilePolicy < MaxPolicy /\ profilePolicy' = profilePolicy + 1
  /\ UNCHANGED <<template, pods, reconcile, profileStatus, churn>>

---------------------------------------------------------------------------
(* reconcile: the profile as the watch delivered it, a list of its pods,   *)
(* a patch for each without a sidecar, then the status.  A call that fails *)
(* ends the run; it is tried again later.                                  *)

listed_pods == {[pod |-> p, uid |-> pods[p].uid, injected |-> pods[p].sidecars # <<>>] : p \in {q \in Pod : pods[q].exists}}

ListPods ==
  /\ reconcile = NotReconciling
  /\ \E policy \in 1..profilePolicy, order \in Injection(1..Cardinality(listed_pods), listed_pods) :
       reconcile' = [step |-> "patch", policy |-> policy, todo |-> order, done |-> {}]
  /\ UNCHANGED <<profilePolicy, template, pods, profileStatus, churn>>

\* Whether a pod has its sidecar is known from the list, and the patch goes
\* to the pod that has the name now.
PatchPod ==
  /\ reconcile.step = "patch" /\ reconcile.todo # <<>>
  /\ LET listed == Head(reconcile.todo)
         p == listed.pod
         counted(uid) == [reconcile EXCEPT !.todo = Tail(@), !.done = @ \cup {[pod |-> p, uid |-> uid]}]
     IN \/ listed.injected /\ reconcile' = counted(listed.uid) /\ UNCHANGED pods
        \/ /\ ~listed.injected /\ pods[p].exists /\ reconcile' = counted(pods[p].uid)
           /\ pods' = [pods EXCEPT ![p].inject = TRUE, ![p].policy = reconcile.policy]
  /\ UNCHANGED <<profilePolicy, template, profileStatus, churn>>

error_policy(run) == NotReconciling

\* The patch fails: the pod is gone, or the API server refuses.
PatchFails ==
  /\ reconcile.step = "patch" /\ reconcile.todo # <<>> /\ ~Head(reconcile.todo).injected
  /\ \/ ~pods[Head(reconcile.todo).pod].exists /\ UNCHANGED churn
     \/ podChurn
  /\ reconcile' = error_policy(reconcile)
  /\ UNCHANGED <<profilePolicy, template, pods, profileStatus>>

PatchProfileStatus ==
  /\ reconcile.step = "patch" /\ reconcile.todo = <<>>
  /\ profileStatus' = [managed |-> Cardinality(reconcile.done), counted |-> reconcile.done]
  /\ reconcile' = NotReconciling
  /\ UNCHANGED <<profilePolicy, template, pods, churn>>

SidecarNext ==
  \/ \E p \in Pod : CreatePod(p) \/ DeletePod(p)
  \/ EditProfile \/ ListPods \/ PatchPod \/ PatchFails \/ PatchProfileStatus

SidecarSpec == SidecarInit /\ [][SidecarNext]_sidecarVars

---------------------------------------------------------------------------
(* Properties. *)

\* A pod gets at most one sidecar, also when the webhook is called again for
\* it and when the controller annotates it later.
OneSidecar == \A p \in Pod : Len(pods[p].sidecars) <= 1

\* When the status is written, every pod it counts that still exists has its
\* sidecar or is annotated for one; a pod that replaced it under the same
\* name is not covered.
CountedPodsManaged ==
  reconcile.todo = <<>> =>
    \A d \in reconcile.done :
      LET pod == pods[d.pod] IN pod.exists /\ pod.uid = d.uid => pod.sidecars # <<>> \/ pod.inject
=============================================================================
