------------------------ MODULE AuditSinkController ------------------------
(***************************************************************************)
(* The operator's AuditSink controller: it validates a sink as the watch   *)
(* delivered it, writes its configuration to a ConfigMap and then its      *)
(* status.  Every call may fail, which ends the run; runs are repeated.    *)
(* A sink's type may lack the configuration it needs ("bare").             *)
(***************************************************************************)
EXTENDS Integers

CONSTANTS SinkFaults, SinkEdits   \* bounds on failed calls and on edits

VARIABLES
  sinkSpec,        \* the resource's specification
  sinkRun,         \* the run under way: [step, spec]
  sinkConfig,      \* content of the ConfigMap, "none" before the first
  sinkStatus,      \* [phase, spec] the last run reported
  sinkFaults, sinkEdits

sinkVars == <<sinkSpec, sinkRun, sinkConfig, sinkStatus, sinkFaults, sinkEdits>>

SinkSpecs == {"stdout", "webhook", "webhook_bare", "kafka", "kafka_bare", "unknown"}
NoRun == [step |-> "idle", spec |-> "none"]

SinkInit ==
  /\ sinkSpec \in SinkSpecs /\ sinkRun = NoRun /\ sinkConfig = "none"
  /\ sinkStatus = [phase |-> "none", spec |-> "none"] /\ sinkFaults = 0 /\ sinkEdits = 0

validate_sink(spec) == spec \in {"stdout", "webhook", "kafka"}

EditSink ==
  /\ sinkEdits < SinkEdits /\ sinkEdits' = sinkEdits + 1
  /\ sinkSpec' \in SinkSpecs \ {sinkSpec}
  /\ UNCHANGED <<sinkRun, sinkConfig, sinkStatus, sinkFaults>>

MutStatusFirst == "status"
first_write == "write"

\* A run takes the specification; what follows uses this copy.
reconcile_sink ==
  /\ sinkRun = NoRun
  /\ sinkRun' = [step |-> IF validate_sink(sinkSpec) THEN first_write ELSE "failed", spec |-> sinkSpec]
  /\ UNCHANGED <<sinkSpec, sinkConfig, sinkStatus, sinkFaults, sinkEdits>>

WriteConfigMap ==
  /\ sinkRun.step = "write" /\ sinkConfig' = sinkRun.spec
  /\ sinkRun' = [sinkRun EXCEPT !.step = "status"]
  /\ UNCHANGED <<sinkSpec, sinkStatus, sinkFaults, sinkEdits>>

patch_sink_status ==
  /\ sinkRun.step \in {"status", "failed"}
  /\ sinkStatus' = [phase |-> IF sinkRun.step = "status" THEN "Active" ELSE "Failed", spec |-> sinkRun.spec]
  /\ sinkRun' = NoRun
  /\ UNCHANGED <<sinkSpec, sinkConfig, sinkFaults, sinkEdits>>

\* A failed run is repeated after 30 seconds.
MutNoRequeue == [step |-> "stopped", spec |-> "none"]
sink_error_policy == NoRun

CallFails ==
  /\ sinkRun.step \in {"write", "status", "failed"}
  /\ sinkFaults < SinkFaults /\ sinkFaults' = sinkFaults + 1 /\ sinkRun' = sink_error_policy
  /\ UNCHANGED <<sinkSpec, sinkConfig, sinkStatus, sinkEdits>>

SinkNext == EditSink \/ reconcile_sink \/ WriteConfigMap \/ patch_sink_status \/ CallFails

\* The controller's runtime keeps reconciling and a run goes on.
SinkFairness == WF_sinkVars(reconcile_sink) /\ WF_sinkVars(WriteConfigMap) /\ WF_sinkVars(patch_sink_status)

SinkSpec == SinkInit /\ [][SinkNext]_sinkVars /\ SinkFairness

---------------------------------------------------------------------------
(* Properties. *)

\* The ConfigMap the sidecars read never holds a sink that fails validation,
\* and a status of Active was preceded by the write of the very configuration
\* it reports: while no call has failed, ConfigMap and status agree between
\* runs, whatever edits happen during one (reconcile of the AuditSink).
SinkHonest ==
  /\ sinkConfig # "none" => sinkConfig \in {"stdout", "webhook", "kafka"}
  /\ sinkRun = NoRun /\ sinkStatus.phase = "Active" =>
       sinkConfig = sinkStatus.spec \/ sinkFaults > 0

\* Once edits and failures are over, the ConfigMap ends up with a valid
\* sink's configuration and the status says which specification it is about:
\* runs that failed or that used an older copy are repeated.
SinkConverges ==
  SinkFairness => <>[](/\ validate_sink(sinkSpec) => sinkConfig = sinkSpec
                       /\ sinkStatus.spec = sinkSpec)
=============================================================================
