------------------------------ MODULE MCControl ------------------------------
(***************************************************************************)
(* One instance of each component around the validation gate: hot reload   *)
(* of rules in a server, the operator's rollout of rules to pods and its   *)
(* audit sinks, and the queue of deferred scans.  They share no state, so  *)
(* a behaviour runs one of them, chosen at the start, while the others     *)
(* stay where they are.                                                    *)
(***************************************************************************)
EXTENDS PolicyReload, PolicyRollout, ScanQueue, AuditSinkController, TLC

CONSTANTS d1, d2, d3, s1, k1, k2, k3

MCMatches == (d1 :> {s1}) @@ (d2 :> {s1}) @@ (d3 :> {})
MCPriority == (k1 :> 1) @@ (k2 :> 2) @@ (k3 :> 2)

VARIABLE part   \* the component that runs

controlVars == <<reloadVars, rolloutVars, scanVars, sinkVars, part>>

ControlInit ==
  /\ ReloadInit /\ RolloutInit /\ ScanInit /\ SinkInit
  /\ part \in {"reload", "rollout", "scan", "sink"}
  /\ part # "reload" => events = 0 /\ file = CHOOSE p \in Policy \ Broken : TRUE
  /\ part # "rollout" => \A s \in PolicySet : rules_of(s) = CHOOSE t \in Rules : TRUE
  /\ part # "rollout" => \A s \in PolicySet : pset[s].inline = NoText
  /\ part # "sink" => sinkSpec = "stdout"

ReloadPart ==
  /\ part = "reload"
  /\ ReloadNext
  /\ UNCHANGED <<rolloutVars, scanVars, sinkVars, part>>

RolloutPart ==
  /\ part = "rollout"
  /\ RolloutNext
  /\ UNCHANGED <<reloadVars, scanVars, sinkVars, part>>

ScanPart ==
  /\ part = "scan"
  /\ ScanNext
  /\ UNCHANGED <<reloadVars, rolloutVars, sinkVars, part>>

SinkPart ==
  /\ part = "sink"
  /\ SinkNext
  /\ UNCHANGED <<reloadVars, rolloutVars, scanVars, part>>

ControlNext == ReloadPart \/ RolloutPart \/ ScanPart \/ SinkPart

ControlSpec == ControlInit /\ [][ControlNext]_controlVars

\* The components keep their types: in particular a policy that is served was
\* parsed (from_file), a pod is offered rules that exist (resolve_rules), no
\* channel is over its capacity (enqueue).
ControlTypeOK == ReloadTypeOK /\ RolloutTypeOK /\ ScanTypeOK
=============================================================================
